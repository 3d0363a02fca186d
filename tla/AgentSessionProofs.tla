-------------------------- MODULE AgentSessionProofs --------------------------
(***************************************************************************)
(* Proofs about one logical execution of the agent, for every set of       *)
(* operations and results, every budget, every price of a call and every   *)
(* number of effects, gates, generations and kills.                        *)
(***************************************************************************)
EXTENDS AgentSession, FiniteSetTheorems, TLAPS

(* An epoch never leads the effects applied, wherever the session is kept. *)
EpochsBehind ==
    /\ applied \subseteq 1..prepared
    /\ session.epoch <= Cardinality(applied)
    /\ recovery.session.epoch <= Cardinality(applied)
    /\ \A g \in gates : g.session.epoch <= Cardinality(applied)

(* What waits to be confirmed is an effect that was prepared.              *)
EffectsNamed ==
    /\ session.op <= prepared /\ recovery.session.op <= prepared
    /\ phase = "confirm" => session.op # 0
    /\ \A g \in gates : /\ g.session.op <= prepared
                        /\ g.kind = "confirm" => g.session.op # 0

(* The continuation a run has resumed: the checkpoint, unless it has just  *)
(* been replaced, or a gate, and then there is no checkpoint.              *)
OriginsOK ==
    /\ phase \in {"start", "idle"} => origin = None
    /\ phase \notin {"start", "idle", "replace"} =>
          IF origin.kind = "recovery" THEN origin.id = recovery.gen
                                      ELSE recovery.gen = 0
    /\ phase = "replace" =>
          /\ recovery.gen > 0 /\ recovery.exec = exec
          /\ recovery.session = session
          /\ origin.kind = "recovery" => origin.id < recovery.gen
    /\ phase \notin {"start", "idle"} /\ origin.kind = "none"
          => input.control = "ask"

AgentIInv == AgentTypeOK /\ EpochsBehind /\ EffectsNamed /\ OriginsOK

-------------------------------------------------------------------------------
(* Effects are counted.                                                    *)
LEMMA EffectsAreFinite ==
    ASSUME NEW n \in Nat, NEW S \in SUBSET (1..n)
    PROVE  /\ IsFiniteSet(S) /\ Cardinality(S) \in Nat /\ Cardinality(S) <= n
           /\ \A e : e \notin S => Cardinality(S \union {e}) = Cardinality(S) + 1
<1>1. IsFiniteSet(1..n) /\ Cardinality(1..n) = n
  BY FS_Interval
<1>2. IsFiniteSet(S) /\ Cardinality(S) <= n
  BY <1>1, FS_Subset
<1>3. QED
  BY <1>2, FS_CardinalityType, FS_AddElement

(* An observation changes the fingerprints and the blocks of a session.    *)
LEMMA ObservingKeeps ==
    ASSUME NEW s \in Session, NEW a \in Actions,
           NEW fp \in SUBSET (Actions \X Results), NEW m \in BOOLEAN
    PROVE  LET t == AfterAction(a, Observe(s, a, fp, m))
           IN  /\ t \in Session /\ t.epoch = s.epoch
               /\ t.op = s.op /\ t.marked = s.marked
<1> DEFINE seen == s.seen \union fp
           blocked == IF m THEN {}
                      ELSE {b \in s.blocked : b[1] # a} \union {<<a, s.epoch>>}
           o == [s EXCEPT !.seen = seen, !.blocked = blocked]
<1>1. o = Observe(s, a, fp, m)
  BY DEF Observe
<1>2. seen \in SUBSET (Actions \X Results) /\ blocked \in SUBSET Blocks
  BY DEF Session, Blocks
<1> HIDE DEF seen, blocked
<1>3. /\ o \in Session /\ o.epoch = s.epoch /\ o.op = s.op
      /\ o.marked = s.marked
  BY <1>2 DEF Session
<1> HIDE DEF o
<1>4. [o EXCEPT !.surface = "navigation"] \in Session
      /\ [o EXCEPT !.surface = "navigation"].epoch = o.epoch
      /\ [o EXCEPT !.surface = "navigation"].op = o.op
      /\ [o EXCEPT !.surface = "navigation"].marked = o.marked
  BY <1>3 DEF Session, Surface
<1>5. AfterAction(a, o) \in {o, [o EXCEPT !.surface = "navigation"]}
  BY DEF AfterAction
<1>6. QED
  BY <1>1, <1>3, <1>4, <1>5

(* What the loop does with an outcome: it goes on, or asks for a           *)
(* checkpoint because of a block that was not marked before.               *)
OutcomeShape(s) ==
    /\ session' \in Session
    /\ session'.epoch = s.epoch /\ session'.op = s.op
    /\ s.marked \subseteq session'.marked
    /\ phase' \in {"think", "checkpoint"}
    /\ phase' = "checkpoint" => session'.marked # s.marked
    /\ wire' \in {wire, "none"}

LEMMA OutcomesKeep ==
    ASSUME NEW s \in Session, NEW a \in Actions,
           NEW fp \in SUBSET (Actions \X Results), NEW m \in BOOLEAN,
           Outcome(a, s, fp, m)
    PROVE  OutcomeShape(s)
<1> DEFINE t == AfterAction(a, Observe(s, a, fp, m))
           k == [t EXCEPT !.marked = @ \union {<<a, t.epoch>>}]
           stalled == ~m /\ NewBlock(t, a)
<1>1. /\ t \in Session /\ t.epoch = s.epoch
      /\ t.op = s.op /\ t.marked = s.marked
  BY ObservingKeeps
<1>2. /\ session' = IF stalled THEN k ELSE t
      /\ phase' = IF stalled THEN "checkpoint" ELSE "think"
      /\ wire' = IF m THEN "none" ELSE wire
      /\ stalled => <<a, t.epoch>> \notin t.marked
  BY DEF Outcome, MarkBlock, NewBlock
<1> HIDE DEF t, stalled
<1>3. /\ k \in Session /\ k.epoch = t.epoch /\ k.op = t.op
      /\ k.marked = t.marked \union {<<a, t.epoch>>}
  BY <1>1 DEF Session, Blocks
<1> HIDE DEF k
<1>4. CASE stalled
  BY <1>1, <1>2, <1>3, <1>4 DEF OutcomeShape
<1>5. CASE ~stalled
  BY <1>1, <1>2, <1>5 DEF OutcomeShape
<1>6. QED
  BY <1>4, <1>5

(* A call of the loop: what it costs is billed, and counted or not known.  *)
CallShape ==
    /\ exec' \in Execution /\ exec'.salvage = exec.salvage
    /\ spent' \in Nat /\ silent' = silent

LEMMA CallsKeep ==
    ASSUME AgentTypeOK, NEW c, NEW u \in BOOLEAN, Call(c, u)
    PROVE  phase = "think" /\ CallShape
<1> DEFINE lost == [exec EXCEPT !.unknown = TRUE]
           told == [exec EXCEPT !.used = @ + c]
<1>1. /\ c \in Nat /\ spent \in Nat /\ spent + c \in Nat
      /\ exec \in [used : Nat, unknown : BOOLEAN, salvage : BOOLEAN]
      /\ exec.used + c \in Nat
  BY AgentSessionAssumption DEF AgentTypeOK, Call, Execution
<1>2. lost \in Execution /\ lost.salvage = exec.salvage
  BY <1>1 DEF Execution
<1>3. told \in Execution /\ told.salvage = exec.salvage
  BY <1>1 DEF Execution
<1>4. exec' \in {lost, told}
  BY DEF Call, Billed
<1>5. phase = "think" /\ spent' = spent + c /\ silent' = silent
  BY DEF Call, MayCall
<1> HIDE DEF lost, told
<1>6. QED
  BY <1>1, <1>2, <1>3, <1>4, <1>5 DEF CallShape

Paid == \E c \in Costs, u \in BOOLEAN : Call(c, u)

(* An answer the loop uses was paid for.                                   *)
LEMMA AnsweredIsPaid ==
    ASSUME NEW s, Answered(s)
    PROVE  Paid /\ session.surface = s
  BY DEF Answered, Paid

(* The shape of every step of the loop.                                    *)
ThinkShape ==
    /\ phase = "think"
    /\ phase' \in {"think", "clear"} \union Persisting
    /\ UNCHANGED <<origin, input, recovery, gates, crashes>>
    /\ session' \in Session /\ exec' \in Execution
    /\ spent' \in Nat /\ silent' \in 0..MaxSilent
    /\ wire' \in Surface \union {"none"}
    /\ session.marked \subseteq session'.marked
    /\ exec.salvage => exec'.salvage
    /\ phase' = "checkpoint" =>
          \/ session'.marked # session.marked
          \/ ~exec.salvage /\ exec'.salvage
    /\ session'.op \in {session.op, prepared'}
    /\ phase' = "confirm" => session'.op # 0
    /\ \/ Paid /\ silent' = silent
       \/ /\ spent' - silent' = spent - silent
          /\ exec'.used = exec.used /\ exec'.unknown = exec.unknown
    /\ \/ /\ applied' = applied /\ session'.epoch = session.epoch
          /\ \/ prepared' = prepared
             \/ prepared < MaxEffects /\ prepared' = prepared + 1
       \/ /\ prepared < MaxEffects /\ prepared' = prepared + 1
          /\ applied' = applied \union {prepared + 1}
          /\ session'.epoch = session.epoch + 1

LEMMA ThinkingShape ==
    ASSUME AgentTypeOK, EpochsBehind, Think
    PROVE  ThinkShape
<1> USE DEF AgentTypeOK
<1>p. ASSUME Paid PROVE phase = "think" /\ CallShape
  BY <1>p, CallsKeep DEF Paid
<1>1. CASE CallFails
  <2>1. CASE Paid
    BY <1>1, <1>p, <2>1 DEF CallFails, Finish, Keep, store, ThinkShape, CallShape
  <2>2. CASE ~Paid
    BY <1>1, <2>2 DEF CallFails, Finish, Keep, store, ThinkShape, Paid
  <2>3. QED
    BY <2>1, <2>2
<1>l. ASSUME NEW c \in Costs, LoseAnswer(c) PROVE ThinkShape
  <2>1. /\ phase = "think" /\ c \in Nat
        /\ phase' \in {"think", "clear"}
        /\ spent' = spent + c /\ silent' = silent + c /\ silent + c <= MaxSilent
        /\ UNCHANGED <<session, exec, wire, prepared, origin, input, recovery, gates,
                       applied, crashes>>
    BY <1>l, AgentSessionAssumption DEF LoseAnswer, MayCall, Finish, Keep, store
  <2>2. spent' \in Nat /\ silent' \in 0..MaxSilent /\ spent' - silent' = spent - silent
    BY <2>1, AgentSessionAssumption
  <2>3. QED
    BY <2>1, <2>2 DEF ThinkShape
<1>2. CASE WireInvalid
  <2>1. Paid /\ phase' \in {"think", "clear"}
    BY <1>2, <1>p, AnsweredIsPaid DEF WireInvalid, Finish
  <2>2. QED
    BY <1>2, <1>p, <2>1
       DEF WireInvalid, Keep, store, ThinkShape, CallShape, Session
<1>3. CASE Concluir
  <2>1. Paid
    BY <1>3, AnsweredIsPaid DEF Concluir
  <2>2. QED
    BY <1>3, <1>p, <2>1
       DEF Concluir, Finish, Keep, store, ThinkShape, CallShape, Persisting
<1>4. ASSUME NEW s \in Surface, SetSurface(s), Paid
      PROVE  ThinkShape
  <2>1. /\ [session EXCEPT !.surface = s] \in Session
        /\ session'.epoch = session.epoch /\ session'.op = session.op
        /\ session'.marked = session.marked
    BY <1>4 DEF SetSurface, Session
  <2>2. QED
    BY <1>4, <1>p, <2>1
       DEF SetSurface, Keep, store, ThinkShape, CallShape
<1>5. CASE Navigate \/ ReturnToEcc
  BY <1>4, <1>5, AnsweredIsPaid DEF Navigate, ReturnToEcc, Surface
<1>6. ASSUME NEW a \in Actions, NEW m \in BOOLEAN, NEW s \in Session,
             NEW fp \in SUBSET (Actions \X Results),
             s.epoch = session.epoch, s.op = session.op,
             s.marked = session.marked, Outcome(a, s, fp, m),
             Paid, prepared' = prepared, Keep
      PROVE  ThinkShape
  BY <1>6, <1>p, OutcomesKeep, SMTT(240)
     DEF OutcomeShape, Keep, store, ThinkShape, CallShape, Persisting
<1>7. ASSUME NEW a \in Actions, NEW task \in BOOLEAN,
             \/ Blocked(a, task) \/ Replay(a, task)
             \/ \E r \in Results : Refuse(a, r, task)
      PROVE  ThinkShape
  <2>1. Paid /\ prepared' = prepared /\ Keep
    BY <1>7, AnsweredIsPaid DEF Blocked, Replay, Refuse
  <2>2. \E m \in BOOLEAN, fp \in SUBSET (Actions \X Results) :
           Outcome(a, session, fp, m)
    <3>1. CASE Blocked(a, task) \/ Replay(a, task)
      BY <3>1 DEF Blocked, Replay
    <3>2. ASSUME NEW r \in Results, Refuse(a, r, task)
          PROVE  \E m \in BOOLEAN : Outcome(a, session, {<<a, r>>}, m)
      BY <3>2 DEF Refuse
    <3>3. \A r \in Results : {<<a, r>>} \in SUBSET (Actions \X Results)
      OBVIOUS
    <3>4. QED
      BY <1>7, <3>1, <3>2, <3>3
  <2>3. QED
    BY <1>6, <2>1, <2>2
<1>8. ASSUME NEW a \in Actions, NEW task \in BOOLEAN, NEW r \in Results,
             Execute(a, r, task)
      PROVE  ThinkShape
  <2> DEFINE s == [session EXCEPT !.last[a] = r]
  <2>1. /\ s \in Session /\ s.epoch = session.epoch
        /\ s.op = session.op /\ s.marked = session.marked
    BY DEF Session
  <2>2. PICK m \in BOOLEAN : Outcome(a, s, {<<a, r>>}, m)
    BY <1>8 DEF Execute
  <2> HIDE DEF s
  <2>3. Paid /\ prepared' = prepared /\ Keep
    BY <1>8, AnsweredIsPaid DEF Execute
  <2>4. QED
    BY <1>6, <2>1, <2>2, <2>3
<1>9. ASSUME NEW a \in Actions, NEW task \in BOOLEAN, NEW r \in Results,
             Mutate(a, r, task)
      PROVE  ThinkShape
  <2> DEFINE s == AdvanceEpoch(session)
  <2>1. session.epoch + 1 \in Epoch
    BY <1>9, EffectsAreFinite, AgentSessionAssumption
       DEF Mutate, EpochsBehind, Session, Epoch, Effects
  <2>2. NoLedger \in [Actions -> Results \union {NoResult}]
    BY DEF NoLedger
  <2>3. /\ s \in Session /\ s.epoch = session.epoch + 1
        /\ s.op = session.op /\ s.marked = session.marked
    BY <2>1, <2>2 DEF AdvanceEpoch, Session
  <2> HIDE DEF s
  <2>4. Outcome(a, s, {<<a, r>>}, TRUE)
    BY <1>9 DEF Mutate, s
  <2>5. OutcomeShape(s)
    <3>1. {<<a, r>>} \in SUBSET (Actions \X Results) /\ TRUE \in BOOLEAN
      OBVIOUS
    <3>2. QED
      BY <2>3, <2>4, <3>1, OutcomesKeep
  <2>6. Paid
    BY <1>9, AnsweredIsPaid DEF Mutate
  <2>7. QED
    BY <1>9, <1>p, <2>3, <2>5, <2>6
       DEF Mutate, OutcomeShape, store, ThinkShape, CallShape, Persisting
<1>10. ASSUME NEW a \in Actions, Prepare(a)
       PROVE  ThinkShape
  <2> DEFINE s == [session EXCEPT !.op = prepared + 1, !.surface = "navigation"]
  <2>1. prepared + 1 \in Effects /\ prepared < MaxEffects
    BY <1>10, AgentSessionAssumption DEF Prepare, Effects
  <2>2. /\ s \in Session /\ s.epoch = session.epoch
        /\ s.op = prepared + 1 /\ s.marked = session.marked
    BY <2>1 DEF Session, Surface
  <2>3. session' = s
    BY <1>10 DEF Prepare
  <2> HIDE DEF s
  <2>4. Paid
    BY <1>10, AnsweredIsPaid DEF Prepare
  <2>5. s.op # 0
    BY <2>1, <2>2 DEF Effects
  <2>6. QED
    BY <1>10, <1>p, <2>1, <2>2, <2>3, <2>4, <2>5
       DEF Prepare, Keep, store, ThinkShape, CallShape, Persisting
<1>11. CASE Salvage
  BY <1>11 DEF Salvage, Keep, store, ThinkShape, Execution, Persisting,
               MustSalvage
<1>12. QED
  BY <1>1, <1>l, <1>2, <1>3, <1>5, <1>7, <1>8, <1>9, <1>10, <1>11
     DEF Think, Operate

-------------------------------------------------------------------------------
(* The first state.                                                        *)
LEMMA NewIsTyped ==
    NewSession \in Session /\ NewExec \in Execution /\ NoCheckpoint \in Checkpoint
<1>1. NoLedger \in [Actions -> Results \union {NoResult}]
  BY DEF NoLedger
<1>2. NewSession \in Session
  BY <1>1, AgentSessionAssumption
     DEF NewSession, Session, Epoch, Surface, Effects
<1>3. NewExec \in Execution
  BY DEF NewExec, Execution
<1>4. QED
  BY <1>2, <1>3, AgentSessionAssumption DEF NoCheckpoint, Checkpoint

(* The invariant holds before the first job.                               *)
LEMMA AgentInitOK == ASSUME AgentInit PROVE AgentIInv
<1>1. /\ NewSession.epoch = 0 /\ NewSession.op = 0
      /\ NoCheckpoint.gen = 0 /\ NoCheckpoint.session = NewSession
  BY DEF NewSession, NoCheckpoint
<1>2. Cardinality({}) = 0
  BY FS_EmptySet
<1>3. AgentTypeOK
  BY NewIsTyped, AgentSessionAssumption
     DEF AgentInit, AgentTypeOK, Input, Ask, Origin, None
<1>4. QED
  BY <1>1, <1>2, <1>3
     DEF AgentInit, AgentIInv, EpochsBehind, EffectsNamed, OriginsOK, None, Ask

-------------------------------------------------------------------------------
(* The invariant, step by step.                                            *)

(* The effects applied can be counted.                                     *)
LEMMA CountedEffects ==
    ASSUME AgentIInv
    PROVE  /\ prepared \in Nat /\ prepared <= MaxEffects
           /\ applied \in SUBSET (1..prepared)
           /\ IsFiniteSet(applied) /\ Cardinality(applied) \in Nat
<1>1. prepared \in Nat /\ prepared <= MaxEffects
  BY AgentSessionAssumption DEF AgentIInv, AgentTypeOK, Effects
<1>2. applied \in SUBSET (1..prepared)
  BY DEF AgentIInv, EpochsBehind
<1>3. QED
  BY <1>1, <1>2, EffectsAreFinite

(* A step of the loop.                                                     *)
LEMMA ThinkKeeps == ASSUME AgentIInv, Think PROVE AgentIInv'
<1> USE DEF AgentIInv
<1>1. ThinkShape
  BY ThinkingShape
<1>2. /\ prepared \in 0..MaxEffects /\ prepared' \in 0..MaxEffects
      /\ prepared <= prepared'
  BY <1>1, AgentSessionAssumption DEF ThinkShape, AgentTypeOK, Effects
<1>3. applied \in SUBSET (1..prepared)
  BY DEF EpochsBehind
<1>4. /\ applied' \in SUBSET (1..prepared')
      /\ Cardinality(applied) \in Nat
      /\ \/ applied' = applied /\ session'.epoch = session.epoch
         \/ /\ Cardinality(applied') = Cardinality(applied) + 1
            /\ session'.epoch = session.epoch + 1
  <2>1. CASE applied' = applied /\ session'.epoch = session.epoch
    BY <1>2, <1>3, <2>1, EffectsAreFinite
  <2>2. CASE /\ prepared' = prepared + 1
             /\ applied' = applied \union {prepared + 1}
             /\ session'.epoch = session.epoch + 1
    <3>1. prepared + 1 \notin applied
      BY <1>2, <1>3
    <3>2. QED
      BY <1>2, <1>3, <2>2, <3>1, EffectsAreFinite
  <2>3. QED
    BY <1>1, <2>1, <2>2 DEF ThinkShape
<1>5. AgentTypeOK'
  <2>1. applied' \subseteq Effects
    BY <1>2, <1>4, AgentSessionAssumption DEF Effects
  <2>2. QED
    BY <1>1, <1>2, <2>1 DEF ThinkShape, AgentTypeOK, Effects, Persisting
<1>6. EpochsBehind'
  BY <1>1, <1>4 DEF EpochsBehind, ThinkShape, AgentTypeOK, Checkpoint, Session,
                    Gate, Epoch
<1>7. EffectsNamed'
  BY <1>1, <1>2 DEF EffectsNamed, ThinkShape, AgentTypeOK, Checkpoint, Session,
                    Gate, Effects
<1>8. OriginsOK'
  BY <1>1 DEF OriginsOK, ThinkShape, Persisting
<1>9. QED
  BY <1>5, <1>6, <1>7, <1>8

(* A step of the service that persists or closes the run.                  *)
LEMMA PersistKeeps == ASSUME AgentIInv, Persist PROVE AgentIInv'
<1> USE DEF AgentIInv, private, world
<1>1. CASE SalvarCheckpoint
  <2> DEFINE kept == [gen |-> recovery.gen + 1, session |-> session, exec |-> exec]
  <2>1. kept \in Checkpoint
    BY <1>1, AgentSessionAssumption DEF SalvarCheckpoint, AgentTypeOK, Checkpoint
  <2>2. /\ kept.gen = recovery.gen + 1 /\ recovery.gen \in Nat
        /\ kept.session = session /\ kept.exec = exec
    BY DEF AgentTypeOK, Checkpoint
  <2>3. recovery' = kept
    BY <1>1 DEF SalvarCheckpoint
  <2> HIDE DEF kept
  <2>4. AgentTypeOK'
    BY <1>1, <2>1, <2>3 DEF SalvarCheckpoint, AgentTypeOK
  <2>5. EpochsBehind' /\ EffectsNamed'
    BY <1>1, <2>2, <2>3 DEF SalvarCheckpoint, EpochsBehind, EffectsNamed
  <2>6. OriginsOK'
    BY <1>1, <2>2, <2>3 DEF SalvarCheckpoint, OriginsOK
  <2>7. QED
    BY <2>4, <2>5, <2>6
<1>2. ASSUME NEW i \in GateId, SalvarGate(i) PROVE AgentIInv'
  <2> DEFINE kept == [id |-> i, kind |-> phase, session |-> session, exec |-> exec]
  <2>1. /\ kept \in Gate
        /\ kept.session = session /\ kept.kind = phase
    BY <1>2 DEF SalvarGate, AgentTypeOK, Gate
  <2>2. gates' = gates \union {kept}
    BY <1>2 DEF SalvarGate
  <2> HIDE DEF kept
  <2>3. AgentTypeOK'
    BY <1>2, <2>1, <2>2 DEF SalvarGate, AgentTypeOK
  <2>4. EpochsBehind' /\ EffectsNamed'
    BY <1>2, <2>1, <2>2 DEF SalvarGate, EpochsBehind, EffectsNamed
  <2>5. OriginsOK'
    BY <1>2 DEF SalvarGate, OriginsOK
  <2>6. QED
    BY <2>3, <2>4, <2>5
<1>3. CASE Retomar
  <2> DEFINE o == [kind |-> "recovery", id |-> recovery.gen]
  <2>1. /\ recovery.gen \in Nat /\ o \in Origin
        /\ o.kind = "recovery" /\ o.id = recovery.gen
    BY DEF AgentTypeOK, Checkpoint, Origin
  <2>2. /\ phase = "replace" /\ phase' = "think"
        /\ recovery' = recovery /\ gates' \subseteq gates
        /\ origin' = o /\ wire' = "none"
        /\ UNCHANGED <<session, exec, input, world>>
    BY <1>3 DEF Retomar, Resume, Rehydrate, Limpar, OriginsOK, AgentTypeOK,
                Checkpoint, Origin
  <2> HIDE DEF o
  <2>3. QED
    BY <2>1, <2>2 DEF AgentTypeOK, EpochsBehind, EffectsNamed, OriginsOK, Surface
<1>4. CASE Encerrar
  <2>1. /\ phase' = "idle" /\ input' = Ask
        /\ recovery' \in {recovery, NoCheckpoint} /\ gates' \subseteq gates
        /\ session' = NewSession /\ exec' = NewExec
        /\ wire' = "none" /\ origin' = None /\ UNCHANGED world
    BY <1>4 DEF Encerrar, Limpar, Forget
  <2>2. /\ NewSession.epoch = 0 /\ NewSession.op = 0
        /\ NoCheckpoint.session = NewSession
    BY DEF NewSession, NoCheckpoint
  <2>3. Cardinality(applied) \in Nat /\ prepared \in Nat
    BY CountedEffects
  <2>4. QED
    BY <2>1, <2>2, <2>3, NewIsTyped
       DEF AgentTypeOK, EpochsBehind, EffectsNamed, OriginsOK, Surface, Input,
           Ask, Origin, None
<1>5. QED
  BY <1>1, <1>2, <1>3, <1>4 DEF Persist

(* A job starts, on what it finds persisted.                               *)
LEMMA StartKeeps == ASSUME AgentIInv, Start PROVE AgentIInv'
<1> USE DEF AgentIInv, private, world, store
<1>a. /\ Cardinality(applied) \in Nat /\ prepared \in Nat
      /\ applied \in SUBSET (1..prepared) /\ prepared <= MaxEffects
  BY CountedEffects
<1>b. /\ NewSession.epoch = 0 /\ NewSession.op = 0
      /\ NoCheckpoint.session = NewSession
  BY DEF NewSession, NoCheckpoint
<1>1. CASE StartRecovery
  <2> DEFINE o == [kind |-> "recovery", id |-> recovery.gen]
  <2>1. /\ recovery.gen \in Nat /\ o \in Origin
        /\ o.kind = "recovery" /\ o.id = recovery.gen
        /\ recovery.session \in Session /\ recovery.exec \in Execution
    BY DEF AgentTypeOK, Checkpoint, Origin
  <2>2. /\ phase' = "think" /\ origin' = o /\ wire' = "none"
        /\ session' = recovery.session /\ exec' = recovery.exec
        /\ UNCHANGED <<input, store, world>>
    BY <1>1 DEF StartRecovery, Resume, Rehydrate
  <2> HIDE DEF o
  <2>3. QED
    BY <2>1, <2>2 DEF AgentTypeOK, EpochsBehind, EffectsNamed, OriginsOK, Surface
<1>2. CASE StartWithout
  <2>1. CASE input.control = "ask"
    <3>1. Fresh(gates \ Found) /\ recovery.gen = 0
      BY <1>2, <2>1 DEF StartWithout, AtGates
    <3>2. QED
      BY <1>a, <1>b, <2>1, <3>1, NewIsTyped
         DEF Fresh, Forget, AgentTypeOK, EpochsBehind, EffectsNamed, OriginsOK,
             Origin, None
  <2>2. CASE input.control # "ask"
    <3>1. NoSuchGate(gates \ Found) /\ recovery.gen = 0 /\ phase = "start"
      BY <1>2, <2>2 DEF StartWithout, AtGates
    <3>2. QED
      BY <3>1 DEF NoSuchGate, AgentTypeOK, EpochsBehind, EffectsNamed, OriginsOK,
                  Input, Ask
  <2>3. QED
    BY <2>1, <2>2
<1>3. ASSUME NEW g \in gates,
             StartChoice(g) \/ Unresolved(g) \/ StartCancel(g) \/ StartConfirm(g)
      PROVE  AgentIInv'
  <2> DEFINE o == [kind |-> "gate", id |-> g.id]
  <2>1. /\ o \in Origin /\ o.kind = "gate" /\ o.id = g.id
        /\ g.session \in Session /\ g.exec \in Execution
        /\ recovery.gen = 0 /\ phase = "start"
    BY <1>3 DEF AgentTypeOK, Gate, Origin, GateId, AtGates, StartChoice,
                Unresolved, StartCancel, StartConfirm
  <2>2. CASE StartChoice(g)
    <3>1. /\ phase' = "think" /\ origin' = o /\ wire' = "none"
          /\ session' = g.session /\ exec' = g.exec
          /\ UNCHANGED <<input, store, world>>
      BY <2>2 DEF StartChoice, Resume, Rehydrate
    <3> HIDE DEF o
    <3>2. QED
      BY <2>1, <3>1 DEF AgentTypeOK, EpochsBehind, EffectsNamed, OriginsOK, Surface
  <2>3. CASE Unresolved(g)
    BY <2>1, <2>3 DEF Unresolved, NoSuchGate, AgentTypeOK, EpochsBehind,
                      EffectsNamed, OriginsOK, Input, Ask
  <2>4. CASE StartCancel(g)
    <3>1. /\ phase' = "clear" /\ origin' = o
          /\ UNCHANGED <<private, input, store, world>>
      BY <2>4 DEF StartCancel
    <3> HIDE DEF o
    <3>2. QED
      BY <2>1, <3>1 DEF AgentTypeOK, EpochsBehind, EffectsNamed, OriginsOK
  <2>5. CASE StartConfirm(g)
    <3> DEFINE s == [g.session EXCEPT !.op = 0]
               t == AdvanceEpoch(s)
    <3>1. s \in Session /\ s.epoch = g.session.epoch /\ s.op = 0
      BY <2>1 DEF Session
    <3>2. g.session.op \in 1..prepared
      BY <1>a, <2>1, <2>5 DEF StartConfirm, EffectsNamed, Session, Effects
    <3>3. /\ phase' = "think" /\ origin' = o /\ wire' = "none" /\ exec' = g.exec
          /\ UNCHANGED <<input, store, prepared, spent, crashes, silent>>
          /\ \/ /\ g.session.op \notin applied /\ session' = t
                /\ applied' = applied \union {g.session.op}
             \/ session' = s /\ applied' = applied
      BY <2>5 DEF StartConfirm, Resume, Rehydrate
    <3> HIDE DEF o, s
    <3>4. CASE session' = s /\ applied' = applied
      BY <1>a, <2>1, <3>1, <3>3, <3>4
         DEF AgentTypeOK, EpochsBehind, EffectsNamed, OriginsOK, Surface
    <3>5. CASE /\ g.session.op \notin applied /\ session' = t
               /\ applied' = applied \union {g.session.op}
      <4>1. /\ applied' \in SUBSET (1..prepared)
            /\ Cardinality(applied') = Cardinality(applied) + 1
            /\ Cardinality(applied') <= MaxEffects
        <5>1. applied' \in SUBSET (1..prepared)
          BY <1>a, <3>2, <3>5
        <5>2. Cardinality(applied') = Cardinality(applied) + 1
          BY <1>a, <3>5, EffectsAreFinite
        <5>3. Cardinality(applied') \in Nat /\ Cardinality(applied') <= prepared
          BY <1>a, <5>1, EffectsAreFinite
        <5>4. QED
          BY <1>a, <5>1, <5>2, <5>3, AgentSessionAssumption
      <4>2. g.session.epoch <= Cardinality(applied)
        BY DEF EpochsBehind
      <4>3. s.epoch + 1 \in Epoch
        BY <1>a, <2>1, <3>1, <4>1, <4>2, AgentSessionAssumption DEF Session, Epoch
      <4>4. NoLedger \in [Actions -> Results \union {NoResult}]
        BY DEF NoLedger
      <4>5. t \in Session /\ t.epoch = s.epoch + 1 /\ t.op = s.op
        BY <3>1, <4>3, <4>4 DEF AdvanceEpoch, Session
      <4> HIDE DEF t
      <4>6. AgentTypeOK'
        <5>1. applied' \subseteq Effects
          BY <1>a, <4>1, AgentSessionAssumption DEF Effects
        <5>2. QED
          BY <2>1, <3>3, <3>5, <4>5, <5>1 DEF AgentTypeOK, Surface
      <4>7. EpochsBehind'
        <5>1. session'.epoch = g.session.epoch + 1 /\ g.session.epoch \in Nat
          BY <2>1, <3>1, <3>5, <4>5 DEF Session, Epoch
        <5>2. \A e \in Nat : e <= Cardinality(applied) => e <= Cardinality(applied')
          BY <1>a, <4>1
        <5>3. /\ recovery.session.epoch \in Nat
              /\ \A h \in gates : h.session.epoch \in Nat
          BY DEF AgentTypeOK, Checkpoint, Session, Gate, Epoch
        <5>4. session'.epoch <= Cardinality(applied')
          BY <1>a, <4>1, <4>2, <5>1
        <5>5. QED
          BY <3>3, <4>1, <5>2, <5>3, <5>4 DEF EpochsBehind
      <4>8. EffectsNamed' /\ OriginsOK'
        BY <1>a, <2>1, <3>1, <3>3, <3>5, <4>5 DEF EffectsNamed, OriginsOK
      <4>9. QED
        BY <4>6, <4>7, <4>8
    <3>6. QED
      BY <3>3, <3>4, <3>5
  <2>6. QED
    BY <1>3, <2>2, <2>3, <2>4, <2>5
<1>4. QED
  BY <1>1, <1>2, <1>3 DEF Start

(* Every step.                                                             *)
LEMMA AgentStepOK == ASSUME AgentIInv, [Next]_vars PROVE AgentIInv'
<1> USE DEF AgentIInv, private, world, store
<1>1. CASE Crash
  <2>1. /\ NewSession.epoch = 0 /\ NewSession.op = 0
    BY DEF NewSession
  <2>2. Cardinality(applied) \in Nat /\ prepared \in Nat
    BY CountedEffects
  <2>3. AgentTypeOK'
    BY <1>1, NewIsTyped, AgentSessionAssumption
       DEF Crash, Forget, AgentTypeOK, Origin, None, Input, Ask
  <2>4. QED
    BY <1>1, <2>1, <2>2, <2>3
       DEF Crash, Forget, EpochsBehind, EffectsNamed, OriginsOK
<1>2. ASSUME NEW g \in gates, NEW c \in {"aplicar", "cancelar", "option"},
             Answer(g, c)
      PROVE  AgentIInv'
  <2>1. [control |-> c, id |-> g.id] \in Input
    BY DEF AgentTypeOK, Gate, Input
  <2>2. /\ phase = "idle" /\ phase' = "start" /\ input' \in Input
        /\ UNCHANGED <<private, origin, store, world>>
    BY <1>2, <2>1 DEF Answer
  <2>3. QED
    BY <2>2 DEF AgentTypeOK, EpochsBehind, EffectsNamed, OriginsOK
<1>3. CASE UNCHANGED vars
  BY <1>3 DEF vars, AgentTypeOK, EpochsBehind, EffectsNamed, OriginsOK
<1>4. QED
  BY <1>1, <1>2, <1>3, StartKeeps, ThinkKeeps, PersistKeeps DEF Next, Run

(* The invariant holds of every state.                                     *)
LEMMA AgentInvariance == AgentSpec => []AgentIInv
  BY AgentInitOK, AgentStepOK, PTL DEF AgentSpec

-------------------------------------------------------------------------------
(* While the process is never killed the epochs are exact: at rest the one *)
(* gate that may wait was made in the world as it is; while a run goes on  *)
(* the only gate is the one it resumed, which it will clear.               *)
AtOrigin(g) == origin.kind = "gate" /\ g.id = origin.id

ExactAtRest ==
    phase \in {"start", "idle"} =>
        /\ recovery.gen = 0
        /\ \A g, h \in gates : g = h
        /\ \A g \in gates : g.session.epoch = Cardinality(applied)
        /\ phase = "start" /\ input.control = "ask" => applied = {} /\ gates = {}

ExactRunning ==
    Running => /\ session.epoch = Cardinality(applied)
               /\ \A g \in gates : AtOrigin(g)

ExactAtEnd ==
    phase = "clear" =>
        /\ \A g, h \in gates : AtOrigin(g) \/ AtOrigin(h) \/ g = h
        /\ \A g \in gates : AtOrigin(g) \/ g.session.epoch = Cardinality(applied)

Exact == crashes = 0 => ExactAtRest /\ ExactRunning /\ ExactAtEnd

(* A step of the loop keeps the epochs exact.                              *)
LEMMA ThinkExact == ASSUME AgentIInv, Exact, Think PROVE Exact'
<1>1. ThinkShape
  BY ThinkingShape DEF AgentIInv
<1>2. Running /\ (crashes' = 0 => ExactRunning)
  BY <1>1 DEF ThinkShape, Exact, Running
<1>3. ASSUME crashes' = 0 PROVE session'.epoch = Cardinality(applied')
  <2>1. CASE applied' = applied /\ session'.epoch = session.epoch
    BY <1>2, <1>3, <2>1 DEF ExactRunning
  <2>2. CASE /\ applied' = applied \union {prepared + 1}
             /\ session'.epoch = session.epoch + 1
    <3>1. prepared + 1 \notin applied
      BY CountedEffects
    <3>2. Cardinality(applied') = Cardinality(applied) + 1
      BY <2>2, <3>1, CountedEffects, EffectsAreFinite
    <3>3. QED
      BY <1>2, <1>3, <2>2, <3>2 DEF ExactRunning
  <2>3. QED
    BY <1>1, <2>1, <2>2 DEF ThinkShape
<1>4. phase' \notin {"start", "idle"} /\ gates' = gates /\ origin' = origin
  BY <1>1 DEF ThinkShape, Persisting
<1>5. QED
  BY <1>2, <1>3, <1>4
     DEF Exact, ExactAtRest, ExactRunning, ExactAtEnd, AtOrigin

(* So does a step of the service.                                          *)
LEMMA PersistExact == ASSUME AgentIInv, Exact, Persist PROVE Exact'
<1> USE DEF private, world, Exact, Running, Persisting
<1>1. CASE SalvarCheckpoint
  BY <1>1 DEF SalvarCheckpoint, ExactAtRest, ExactRunning, ExactAtEnd, AtOrigin
<1>2. ASSUME NEW i \in GateId, SalvarGate(i) PROVE Exact'
  <2> DEFINE kept == [id |-> i, kind |-> phase, session |-> session, exec |-> exec]
  <2>1. kept.session = session
    OBVIOUS
  <2>2. gates' = gates \union {kept} /\ phase' = "clear"
        /\ phase \in {"confirm", "choice"}
        /\ UNCHANGED <<private, origin, input, recovery, world>>
    BY <1>2 DEF SalvarGate
  <2> HIDE DEF kept
  <2>3. QED
    BY <2>1, <2>2 DEF ExactAtRest, ExactRunning, ExactAtEnd, AtOrigin
<1>3. CASE Retomar
  <2>1. /\ phase = "replace" /\ phase' = "think"
        /\ gates' = {g \in gates : ~AtOrigin(g)}
        /\ session' = session /\ UNCHANGED world
    BY <1>3 DEF Retomar, Resume, Limpar, AtOrigin
  <2>2. QED
    BY <2>1 DEF ExactAtRest, ExactRunning, ExactAtEnd
<1>4. CASE Encerrar
  <2>1. /\ phase = "clear" /\ phase' = "idle"
        /\ gates' = {g \in gates : ~AtOrigin(g)}
        /\ recovery' = IF origin.kind = "recovery" /\ origin.id = recovery.gen
                       THEN NoCheckpoint ELSE recovery
        /\ UNCHANGED world
    BY <1>4 DEF Encerrar, Limpar, AtOrigin
  <2>2. recovery'.gen = 0
    BY <2>1 DEF AgentIInv, OriginsOK, NoCheckpoint
  <2>3. QED
    BY <2>1, <2>2 DEF ExactAtRest, ExactRunning, ExactAtEnd
<1>5. QED
  BY <1>1, <1>2, <1>3, <1>4 DEF Persist

(* So does the start of a job.                                             *)
LEMMA StartExact == ASSUME AgentIInv, Exact, Start PROVE Exact'
<1> USE DEF private, world, store, Exact, Running, Persisting
<1>1. CASE StartRecovery
  BY <1>1 DEF StartRecovery, ExactAtRest
<1>2. CASE StartWithout
  <2>1. CASE input.control = "ask"
    <3>1. /\ Fresh(gates \ Found) /\ phase = "start"
      BY <1>2, <2>1 DEF StartWithout, AtGates
    <3>2. NewSession.epoch = 0 /\ Cardinality({}) = 0
      BY FS_EmptySet DEF NewSession
    <3>3. QED
      BY <2>1, <3>1, <3>2
         DEF Fresh, Forget, ExactAtRest, ExactRunning, ExactAtEnd
  <2>2. CASE input.control # "ask"
    <3>1. NoSuchGate(gates \ Found) /\ phase = "start"
      BY <1>2, <2>2 DEF StartWithout, AtGates
    <3>2. QED
      BY <3>1 DEF NoSuchGate, ExactAtRest, ExactRunning, ExactAtEnd
  <2>3. QED
    BY <2>1, <2>2
<1>3. ASSUME NEW g \in gates, StartChoice(g) \/ StartCancel(g)
      PROVE  Exact'
  <2> DEFINE o == [kind |-> "gate", id |-> g.id]
  <2>1. o.kind = "gate" /\ o.id = g.id
    OBVIOUS
  <2>2. /\ phase = "start" /\ phase' \in {"think", "clear"} /\ origin' = o
        /\ phase' = "think" => session' = g.session
        /\ gates' = gates /\ UNCHANGED world
    BY <1>3 DEF StartChoice, StartCancel, AtGates, Resume
  <2> HIDE DEF o
  <2>3. QED
    BY <2>1, <2>2 DEF ExactAtRest, ExactRunning, ExactAtEnd, AtOrigin
<1>4. ASSUME NEW g \in gates, Unresolved(g)
      PROVE  Exact'
  BY <1>4 DEF Unresolved, AtGates, NoSuchGate, ExactAtRest, ExactRunning,
              ExactAtEnd
<1>5. ASSUME NEW g \in gates, StartConfirm(g)
      PROVE  Exact'
  <2> DEFINE o == [kind |-> "gate", id |-> g.id]
             s == [g.session EXCEPT !.op = 0]
             t == AdvanceEpoch(s)
  <2>1. o.kind = "gate" /\ o.id = g.id
    OBVIOUS
  <2>2. g.session \in Session
    BY DEF AgentIInv, AgentTypeOK, Gate
  <2>3. s \in Session /\ s.epoch = g.session.epoch
    BY <2>2 DEF Session
  <2>4. t.epoch = s.epoch + 1
    BY <2>3 DEF AdvanceEpoch, Session
  <2>5. /\ phase = "start" /\ phase' = "think" /\ origin' = o
        /\ gates' = gates /\ crashes' = crashes
        /\ \/ /\ g.session.op \notin applied /\ session' = t
              /\ applied' = applied \union {g.session.op}
           \/ session' = s /\ applied' = applied
    BY <1>5 DEF StartConfirm, AtGates, Resume
  <2> HIDE DEF o, s, t
  <2>6. g.session.op \notin applied =>
            Cardinality(applied \union {g.session.op}) = Cardinality(applied) + 1
    BY CountedEffects, EffectsAreFinite
  <2>7. QED
    BY <2>1, <2>3, <2>4, <2>5, <2>6
       DEF ExactAtRest, ExactRunning, ExactAtEnd, AtOrigin
<1>6. QED
  BY <1>1, <1>2, <1>3, <1>4, <1>5 DEF Start

(* So does every step.                                                     *)
LEMMA ExactStep == ASSUME AgentIInv, Exact, [Next]_vars PROVE Exact'
<1> USE DEF private, world, store, Exact
<1>1. CASE Crash
  BY <1>1 DEF Crash, AgentIInv, AgentTypeOK
<1>2. ASSUME NEW g \in gates, NEW c \in {"aplicar", "cancelar", "option"},
             Answer(g, c)
      PROVE  Exact'
  BY <1>2 DEF Answer, ExactAtRest, ExactRunning, ExactAtEnd, Running, Persisting
<1>3. CASE UNCHANGED vars
  BY <1>3 DEF vars, ExactAtRest, ExactRunning, ExactAtEnd, Running, AtOrigin
<1>4. QED
  BY <1>1, <1>2, <1>3, ThinkExact, PersistExact, StartExact DEF Next, Run

(* What a session is persisted with can be rehydrated, and its reality     *)
(* epoch never leads the persistent effects of the execution, whatever the *)
(* kills; with none it counts them exactly, across checkpoints and gates.  *)
THEOREM SessionTheorem == AgentSpec => []SessionIsTrue
<1>1. AgentInit => Exact
  <2>1. Cardinality({}) = 0 /\ NewSession.epoch = 0 /\ NoCheckpoint.gen = 0
    BY FS_EmptySet DEF NewSession, NoCheckpoint
  <2>2. QED
    BY <2>1 DEF AgentInit, Exact, ExactAtRest, ExactRunning, ExactAtEnd, Running,
                Persisting
<1>2. AgentIInv /\ Exact => SessionIsTrue
  BY DEF AgentIInv, Exact, ExactRunning, EpochsBehind, SessionIsTrue,
         EpochCountsEffects
<1>3. AgentIInv /\ Exact /\ [Next]_vars => Exact'
  BY ExactStep
<1>4. QED
  BY <1>1, <1>2, <1>3, AgentInvariance, PTL DEF AgentSpec

-------------------------------------------------------------------------------
(* Under a checkpoint the run only adds: marks, and the salvage band.      *)
Grows ==
    /\ Running /\ recovery.gen > 0 =>
          /\ recovery.session.marked \subseteq session.marked
          /\ recovery.exec.salvage => exec.salvage
    /\ phase = "checkpoint" /\ recovery.gen > 0 =>
          \/ ~recovery.exec.salvage /\ exec.salvage
          \/ recovery.session.marked # session.marked

(* Every step keeps that: a run under a checkpoint has resumed it.         *)
LEMMA GrowsStep == ASSUME AgentIInv, Grows, [Next]_vars PROVE Grows'
<1> USE DEF private, world, store, Grows, Running, Persisting
<1>1. CASE Think
  <2>1. ThinkShape
    BY <1>1, ThinkingShape DEF AgentIInv
  <2>2. QED
    BY <2>1 DEF ThinkShape
<1>2. CASE SalvarCheckpoint
  <2> DEFINE kept == [gen |-> recovery.gen + 1, session |-> session, exec |-> exec]
  <2>1. kept.session = session /\ kept.exec = exec
    OBVIOUS
  <2>2. recovery' = kept /\ phase' = "replace" /\ UNCHANGED private
    BY <1>2 DEF SalvarCheckpoint
  <2> HIDE DEF kept
  <2>3. QED
    BY <2>1, <2>2
<1>3. ASSUME NEW i \in GateId, SalvarGate(i) PROVE Grows'
  BY <1>3 DEF SalvarGate
<1>4. CASE Retomar
  <2>1. /\ phase = "replace" /\ phase' = "think" /\ recovery' = recovery
        /\ session' = session /\ exec' = exec
    BY <1>4 DEF Retomar, Resume, Rehydrate, Limpar, AgentIInv, OriginsOK,
                AgentTypeOK, Checkpoint, Origin
  <2>2. QED
    BY <2>1
<1>5. CASE Encerrar \/ Crash
  BY <1>5 DEF Encerrar, Crash
<1>6. CASE StartRecovery
  BY <1>6 DEF StartRecovery, Resume, Rehydrate
<1>7. CASE StartWithout
  BY <1>7 DEF StartWithout, AtGates, Fresh, NoSuchGate
<1>8. ASSUME NEW g \in gates,
             StartChoice(g) \/ Unresolved(g) \/ StartCancel(g) \/ StartConfirm(g)
      PROVE  Grows'
  <2>1. recovery' = recovery /\ recovery.gen = 0
    BY <1>8 DEF StartChoice, Unresolved, StartCancel, StartConfirm, NoSuchGate,
                AtGates
  <2>2. QED
    BY <2>1
<1>9. ASSUME NEW g \in gates, NEW c \in {"aplicar", "cancelar", "option"},
             Answer(g, c)
      PROVE  Grows'
  BY <1>9 DEF Answer
<1>10. CASE UNCHANGED vars
  BY <1>10 DEF vars
<1>11. QED
  BY <1>1, <1>2, <1>3, <1>4, <1>5, <1>6, <1>7, <1>8, <1>9, <1>10
     DEF Next, Run, Start, Persist

(* A generation is only gained by saving a checkpoint.                     *)
CheckpointAdvances ==
    recovery.gen > 0 /\ recovery'.gen > recovery.gen =>
        \/ ~recovery.exec.salvage /\ recovery'.exec.salvage
        \/ recovery.session.marked # recovery'.session.marked
           /\ recovery.session.marked \subseteq recovery'.session.marked

LEMMA OnlySavesAdvance ==
    ASSUME AgentIInv, [Next]_vars, recovery'.gen > recovery.gen
    PROVE  SalvarCheckpoint
<1>1. recovery.gen \in Nat
  BY DEF AgentIInv, AgentTypeOK, Checkpoint
<1>2. recovery' \notin {recovery, NoCheckpoint}
  BY <1>1 DEF NoCheckpoint
<1>3. ~Think
  BY <1>2, ThinkingShape DEF AgentIInv, ThinkShape
<1>4. ~(Retomar \/ Encerrar)
  BY <1>2 DEF Retomar, Encerrar, Limpar
<1>5. ~Start
  BY <1>2 DEF Start, StartRecovery, StartWithout, StartChoice, Unresolved,
              StartCancel, StartConfirm, Fresh, NoSuchGate, store
<1>6. QED
  BY <1>2, <1>3, <1>4, <1>5
     DEF Next, Run, Persist, SalvarGate, Crash, Answer, vars, store

(* No checkpoint loop, for every number of kills: a checkpoint that        *)
(* replaces another has marked a new block or just entered the salvage band*)
(* (checkpoint_needed_for_block, salvage_checkpoint_emitted).              *)
THEOREM CheckpointTheorem == AgentSpec => CheckpointsAdvance
<1>1. AgentInit => Grows
  BY DEF AgentInit, Grows, Running, Persisting
<1>2. AgentIInv /\ Grows /\ [Next]_vars => Grows'
  BY GrowsStep
<1>3. ASSUME AgentIInv, Grows, [Next]_vars
      PROVE  CheckpointAdvances
  <2> SUFFICES ASSUME recovery.gen > 0, recovery'.gen > recovery.gen
               PROVE  \/ ~recovery.exec.salvage /\ recovery'.exec.salvage
                      \/ /\ recovery.session.marked # recovery'.session.marked
                         /\ recovery.session.marked
                               \subseteq recovery'.session.marked
    BY DEF CheckpointAdvances
  <2>1. SalvarCheckpoint
    BY <1>3, OnlySavesAdvance
  <2>2. recovery'.session = session /\ recovery'.exec = exec
        /\ phase = "checkpoint"
    BY <2>1 DEF SalvarCheckpoint
  <2>3. QED
    BY <1>3, <2>2 DEF Grows, Running, Persisting
<1>4. AgentSpec => [][CheckpointAdvances]_vars
  BY <1>1, <1>2, <1>3, AgentInvariance, PTL DEF AgentSpec
<1>5. QED
  BY <1>4 DEF CheckpointAdvances, CheckpointsAdvance

-------------------------------------------------------------------------------
(* The budget.  An execution can be carried on by several threads at once: *)
(* the run itself, the text of the job (which a kill makes run again), the *)
(* checkpoint and each gate.  Every token billed for an answer that arrived*)
(* is a cell of a table whose row is the kill that started it: a live      *)
(* thread has a row of its own, and the row is filled no further than what *)
(* its execution remembers, unless it knows that it does not know.  A row  *)
(* is no longer than Full.                                                 *)
Full   == Limit + MaxCost - 1
Thread == {0, -1, -2} \union GateId
Cells  == (0..crashes) \X (1..Full)

Live(t, x) ==
    \/ t = 0 /\ phase \in Persisting \union {"think"} /\ x = exec
    \/ /\ t = -1 /\ input.control = "ask" /\ phase # "idle"
       /\ recovery.gen = 0 /\ ~(origin.kind = "none" /\ phase # "start")
       /\ x = NewExec
    \/ /\ t = -2 /\ recovery.gen > 0 /\ x = recovery.exec
       /\ ~(origin.kind = "recovery" /\ origin.id = recovery.gen)
    \/ \E g \in gates : t = g.id /\ ~AtOrigin(g) /\ x = g.exec

Accounted(bill, row) ==
    /\ bill \in SUBSET Cells /\ row \in [Thread -> 0..crashes]
    /\ spent - silent <= Cardinality(bill)
    /\ \A t \in Thread : \A x : Live(t, x) =>
          \/ x.unknown
          \/ \A k \in 1..Full : <<row[t], k>> \in bill => k <= x.used
    /\ \A t, u \in Thread : \A x, y :
          Live(t, x) /\ Live(u, y) /\ row[t] = row[u] => t = u

Budget == \E bill, row : Accounted(bill, row)

(* A table is finite, and as large as its rows.                            *)
LEMMA FullIsPositive == MaxCost \in Costs /\ Full \in Nat /\ Full >= Limit
                        /\ \A c \in Costs : c <= MaxCost
<1>1. \E c \in Costs : \A d \in Costs : d <= c
  BY AgentSessionAssumption
<1>2. MaxCost \in Costs /\ \A c \in Costs : c <= MaxCost
  BY <1>1 DEF MaxCost
<1>3. MaxCost \in Nat \ {0} /\ Limit \in Nat \ {0}
  BY <1>2, AgentSessionAssumption
<1>4. QED
  BY <1>2, <1>3 DEF Full

LEMMA CellsAreFinite ==
    ASSUME crashes \in Nat
    PROVE  IsFiniteSet(Cells) /\ Cardinality(Cells) = (crashes + 1) * Full
<1>1. IsFiniteSet(0..crashes) /\ Cardinality(0..crashes) = crashes + 1
  BY FS_Interval
<1>2. IsFiniteSet(1..Full) /\ Cardinality(1..Full) = Full
  BY FullIsPositive, FS_Interval
<1>3. QED
  BY <1>1, <1>2, FS_Product, ZenonT(240) DEF Cells

(* Who is live after a step that buys nothing was live before it, under    *)
(* another thread perhaps: source tells which.                             *)
Sources(source) ==
    /\ source \in [Thread -> Thread]
    /\ \A t \in Thread : \A x : Live(t, x)' =>
          \E y : Live(source[t], y) /\ y.used = x.used /\ y.unknown = x.unknown
    /\ \A t, u \in Thread : \A x, y :
          Live(t, x)' /\ Live(u, y)' /\ source[t] = source[u] => t = u

LEMMA MoveKeeps ==
    ASSUME Budget, spent' - silent' = spent - silent, crashes' = crashes,
           NEW source, Sources(source)
    PROVE  Budget'
<1>1. PICK bill, row : Accounted(bill, row)
  BY DEF Budget
<1> DEFINE moved == [t \in Thread |-> row[source[t]]]
<1>2. /\ moved \in [Thread -> 0..crashes]
      /\ \A t \in Thread : moved[t] = row[source[t]] /\ source[t] \in Thread
  BY <1>1 DEF Accounted, Sources
<1> HIDE DEF moved
<1>3. ASSUME NEW t \in Thread, NEW x, Live(t, x)'
      PROVE  \/ x.unknown
             \/ \A k \in 1..Full : <<moved[t], k>> \in bill => k <= x.used
  <2>1. PICK y : /\ Live(source[t], y)
                 /\ y.used = x.used /\ y.unknown = x.unknown
    BY <1>3 DEF Sources
  <2>2. \/ y.unknown
        \/ \A k \in 1..Full : <<row[source[t]], k>> \in bill => k <= y.used
    BY <1>1, <1>2, <2>1 DEF Accounted
  <2>3. QED
    BY <1>2, <2>1, <2>2
<1>4. ASSUME NEW t \in Thread, NEW u \in Thread, NEW x, NEW y,
             Live(t, x)', Live(u, y)', moved[t] = moved[u]
      PROVE  t = u
  <2>1. PICK v : Live(source[t], v)
    BY <1>4 DEF Sources
  <2>2. PICK w : Live(source[u], w)
    BY <1>4 DEF Sources
  <2>3. source[t] = source[u]
    BY <1>1, <1>2, <1>4, <2>1, <2>2 DEF Accounted
  <2>4. QED
    BY <1>4, <2>3 DEF Sources
<1>5. Accounted(bill, moved)'
  BY <1>1, <1>2, <1>3, <1>4 DEF Accounted, Cells
<1>6. QED
  BY <1>5 DEF Budget

(* A kill gives what the dead run had resumed a row of its own.            *)
LEMMA CrashBudget == ASSUME AgentIInv, Budget, Crash PROVE Budget'
<1> DEFINE back == IF origin.kind = "none" THEN -1
                   ELSE IF origin.kind = "recovery" THEN -2 ELSE origin.id
<1>1. PICK bill, row : Accounted(bill, row)
  BY DEF Budget
<1>a. PICK again : again = [t \in Thread |-> IF t = back THEN crashes + 1
                                            ELSE row[t]]
  OBVIOUS
<1>2. /\ crashes \in Nat /\ crashes' = crashes + 1
      /\ spent' = spent /\ silent' = silent
      /\ row \in [Thread -> 0..crashes] /\ bill \in SUBSET Cells
      /\ spent - silent <= Cardinality(bill)
  BY <1>1, AgentSessionAssumption
     DEF AgentIInv, AgentTypeOK, Crash, Accounted
<1>3. ASSUME NEW t \in Thread, NEW x, Live(t, x)', t # back
      PROVE  Live(t, x)
  <2>1. /\ phase # "idle" /\ origin' = None
        /\ \/ phase' = "start" /\ input' = input
           \/ phase' = "idle"
        /\ recovery' = recovery /\ gates' = gates
    BY DEF Crash, Forget, store
  <2>2. origin.kind \in {"none", "recovery", "gate"}
    BY DEF AgentIInv, AgentTypeOK, Origin
  <2>3. CASE t = -1
    BY <1>3, <2>1, <2>3 DEF Live, AtOrigin, GateId, AgentIInv, AgentTypeOK, Gate
  <2>4. CASE t = -2
    BY <1>3, <2>1, <2>4 DEF Live, AtOrigin, GateId, AgentIInv, AgentTypeOK, Gate
  <2>5. CASE t \notin {-1, -2}
    BY <1>3, <2>1, <2>2, <2>5 DEF Live, AtOrigin, Persisting
  <2>6. QED
    BY <2>3, <2>4, <2>5
<1> HIDE DEF back
<1>4. /\ again \in [Thread -> 0..crashes']
      /\ \A t \in Thread : again[t] = IF t = back THEN crashes + 1 ELSE row[t]
      /\ \A t \in Thread : row[t] # crashes + 1
      /\ \A k : <<crashes + 1, k>> \notin bill
  BY <1>2, <1>a DEF Cells
<1>5. \A t \in Thread : \A x : Live(t, x)' =>
          \/ x.unknown
          \/ \A k \in 1..Full : <<again[t], k>> \in bill => k <= x.used
  BY <1>1, <1>3, <1>4 DEF Accounted
<1>6. \A t, u \in Thread : \A x, y :
          Live(t, x)' /\ Live(u, y)' /\ again[t] = again[u] => t = u
  BY <1>1, <1>3, <1>4 DEF Accounted
<1>7. bill \in SUBSET Cells'
  BY <1>2 DEF Cells
<1>8. Accounted(bill, again)'
  BY <1>2, <1>4, <1>5, <1>6, <1>7 DEF Accounted
<1>9. QED
  BY <1>8 DEF Budget

(* A step of the loop leaves the other threads alone.                      *)
LEMMA OthersStay ==
    ASSUME AgentIInv, ThinkShape, NEW t, NEW x, Live(t, x)'
    PROVE  /\ Live(0, exec)
           /\ IF t = 0 THEN x = exec' ELSE Live(t, x)
<1>1. \A g \in gates : g.id \in Nat \ {0}
  BY DEF AgentIInv, AgentTypeOK, Gate, GateId
<1>2. QED
  BY <1>1 DEF Live, AtOrigin, ThinkShape, Persisting

(* A call fills the next cells of the row of the run.                      *)
LEMMA CallBudget ==
    ASSUME AgentIInv, ThinkShape, Budget,
           NEW c \in Costs, NEW u \in BOOLEAN, Call(c, u)
    PROVE  Budget'
<1>1. PICK bill, row : Accounted(bill, row)
  BY DEF Budget
<1> DEFINE line == row[0]
           fresh == (exec.used + 1)..(exec.used + c)
           next == {line} \X fresh
<1>2. /\ exec \in Execution /\ exec.used \in Nat /\ c \in Nat
      /\ ~exec.unknown /\ exec.used < Limit
      /\ spent \in Nat /\ spent' = spent + c /\ crashes' = crashes
      /\ silent \in Nat /\ silent' = silent
      /\ Live(0, exec) /\ crashes \in Nat
  BY AgentSessionAssumption
     DEF Call, MayCall, AgentIInv, AgentTypeOK, Execution, ThinkShape, Live
<1>3. exec'.unknown \/ exec'.used = exec.used + c
  BY <1>2 DEF Call, Billed, Execution
<1>4. /\ IsFiniteSet(bill) /\ Cardinality(bill) \in Nat
      /\ bill \in SUBSET Cells /\ row \in [Thread -> 0..crashes]
      /\ spent - silent <= Cardinality(bill)
  BY <1>1, <1>2, CellsAreFinite, FS_Subset, FS_CardinalityType DEF Accounted
<1>5. 0 \in Thread /\ line \in 0..crashes
  BY <1>4 DEF Thread
<1>6. \A k \in 1..Full : <<line, k>> \in bill => k <= exec.used
  BY <1>1, <1>2, <1>5 DEF Accounted
<1> HIDE DEF line
<1>7. /\ IsFiniteSet(next) /\ Cardinality(next) = c
      /\ bill \intersect next = {} /\ next \subseteq Cells
  <2>1. IsFiniteSet(fresh) /\ Cardinality(fresh) = c
    <3>1. exec.used + 1 \in Int /\ exec.used + c \in Int
      BY <1>2
    <3>2. /\ IsFiniteSet(fresh)
          /\ Cardinality(fresh) = IF exec.used + 1 > exec.used + c THEN 0
                                  ELSE (exec.used + c) - (exec.used + 1) + 1
      BY <3>1, FS_Interval
    <3> HIDE DEF fresh
    <3>3. QED
      BY <1>2, <3>2
  <2>2. IsFiniteSet({line}) /\ Cardinality({line}) = 1
    BY FS_Singleton
  <2>3. IsFiniteSet(next) /\ Cardinality(next) = c
    <3> HIDE DEF fresh
    <3>1. IsFiniteSet(next)
          /\ Cardinality(next) = Cardinality({line}) * Cardinality(fresh)
      BY <2>1, <2>2, FS_Product
    <3>2. 1 * c = c
      BY <1>2
    <3>3. QED
      BY <2>1, <2>2, <3>1, <3>2
  <2>4. \A k \in fresh : k \in 1..Full /\ k > exec.used
    <3>1. exec.used + c <= Full
      BY <1>2, FullIsPositive, AgentSessionAssumption DEF Full
    <3>2. QED
      BY <1>2, <3>1, FullIsPositive
  <2>5. \A e \in next : e = <<line, e[2]>> /\ e[2] \in fresh
    OBVIOUS
  <2> HIDE DEF next, fresh
  <2>6. next \subseteq Cells
    BY <1>5, <2>4, <2>5 DEF Cells
  <2>7. bill \intersect next = {}
    BY <1>2, <1>6, <2>4, <2>5 DEF Cells, Execution
  <2>8. QED
    BY <2>3, <2>6, <2>7
<1>b. PICK billed : billed = bill \union next
  OBVIOUS
<1>8. Cardinality(billed) = Cardinality(bill) + c /\ billed \in SUBSET Cells
  <2> HIDE DEF next
  <2>1. Cardinality(billed)
          = Cardinality(bill) + Cardinality(next) - Cardinality(bill \intersect next)
    BY <1>4, <1>7, <1>b, FS_Union
  <2>2. QED
    <3>1. Cardinality(bill \intersect next) = 0
      BY <1>7, FS_EmptySet
    <3>2. billed \in SUBSET Cells
      BY <1>4, <1>7, <1>b
    <3>3. QED
      BY <1>2, <1>4, <1>7, <2>1, <3>1, <3>2
<1>9. \A k : \A l : <<l, k>> \in billed =>
          \/ <<l, k>> \in bill
          \/ l = line /\ k <= exec.used + c
  BY <1>2, <1>b
<1> HIDE DEF next, fresh
<1>10. ASSUME NEW t \in Thread, NEW x, Live(t, x)'
       PROVE  \/ x.unknown
              \/ \A k \in 1..Full : <<row[t], k>> \in billed => k <= x.used
  <2>1. CASE t = 0
    <3>1. x = exec' /\ row[t] = line
      BY <1>10, <2>1, OthersStay DEF line
    <3>2. \A k \in 1..Full : <<line, k>> \in billed => k <= exec.used + c
      BY <1>2, <1>6, <1>9
    <3>3. QED
      BY <1>3, <3>1, <3>2
  <2>2. CASE t # 0
    <3>1. Live(t, x)
      BY <1>10, <2>2, OthersStay
    <3>2. row[t] # line
      BY <1>1, <1>2, <1>5, <2>2, <3>1 DEF Accounted, line
    <3>3. QED
      BY <1>1, <1>9, <3>1, <3>2 DEF Accounted
  <2>3. QED
    BY <2>1, <2>2
<1>11. ASSUME NEW t \in Thread, NEW v \in Thread, NEW x, NEW y,
              Live(t, x)', Live(v, y)', row[t] = row[v]
       PROVE  t = v
  <2>1. \E z : Live(t, z)
    BY <1>11, OthersStay
  <2>2. \E z : Live(v, z)
    BY <1>11, OthersStay
  <2>3. QED
    BY <1>1, <1>11, <2>1, <2>2 DEF Accounted
<1>12. Accounted(billed, row)'
  <2>1. spent' - silent' <= Cardinality(billed)
    BY <1>2, <1>4, <1>8
  <2>2. Cells' = Cells /\ row \in [Thread -> 0..crashes']
    BY <1>2, <1>4 DEF Cells
  <2>3. QED
    BY <1>8, <1>10, <1>11, <2>1, <2>2 DEF Accounted
<1>13. QED
  BY <1>12 DEF Budget

(* When one thread goes on as another, or none does.                       *)
OneMove(from, to) ==
    /\ from \in Thread /\ to \in Thread
    /\ \A t \in Thread : \A x : Live(t, x)' =>
          /\ t # from \/ from = to
          /\ IF t = to
             THEN \E y : Live(from, y) /\ y.used = x.used /\ y.unknown = x.unknown
             ELSE Live(t, x)

LEMMA OneMoveKeeps ==
    ASSUME Budget, spent' - silent' = spent - silent, crashes' = crashes,
           NEW from, NEW to, OneMove(from, to)
    PROVE  Budget'
<1> DEFINE source == [t \in Thread |-> IF t = to THEN from ELSE t]
<1>1. /\ source \in [Thread -> Thread]
      /\ \A t \in Thread : source[t] = IF t = to THEN from ELSE t
  BY DEF OneMove
<1> HIDE DEF source
<1>2. \A t \in Thread : \A x : Live(t, x)' =>
          \E y : Live(source[t], y) /\ y.used = x.used /\ y.unknown = x.unknown
  BY <1>1 DEF OneMove
<1>3. ASSUME NEW t \in Thread, NEW u \in Thread, NEW x, NEW y,
             Live(t, x)', Live(u, y)', source[t] = source[u]
      PROVE  t = u
  BY <1>1, <1>3 DEF OneMove
<1>4. Sources(source)
  BY <1>1, <1>2, <1>3 DEF Sources
<1>5. QED
  BY <1>4, MoveKeeps

(* Threads are told apart.                                                 *)
LEMMA ThreadsDiffer ==
    ASSUME AgentIInv
    PROVE  /\ {0, -1, -2} \subseteq Thread /\ GateId \subseteq Thread
           /\ \A i \in GateId : i \notin {0, -1, -2}
           /\ \A g \in gates : g.id \in GateId /\ g.exec \in Execution
  BY DEF Thread, GateId, AgentIInv, AgentTypeOK, Gate

(* A step of the loop that buys nothing, or a call.                        *)
LEMMA ThinkBudget == ASSUME AgentIInv, Budget, Think PROVE Budget'
<1>1. ThinkShape
  BY ThinkingShape DEF AgentIInv
<1>2. CASE Paid
  BY <1>1, <1>2, CallBudget DEF Paid
<1>3. CASE ~Paid
  <2>1. /\ spent' - silent' = spent - silent /\ crashes' = crashes
        /\ exec'.used = exec.used /\ exec'.unknown = exec.unknown
    BY <1>1, <1>3 DEF ThinkShape
  <2>2. OneMove(0, 0)
    BY <1>1, <2>1, OthersStay, ThreadsDiffer DEF OneMove
  <2>3. QED
    BY <2>1, <2>2, OneMoveKeeps
<1>4. QED
  BY <1>2, <1>3

(* The run becomes the checkpoint, or a gate; the checkpoint the run.      *)
LEMMA PersistBudget == ASSUME AgentIInv, Budget, Persist PROVE Budget'
<1> USE ThreadsDiffer DEF private, world
<1>1. CASE SalvarCheckpoint
  <2> DEFINE kept == [gen |-> recovery.gen + 1, session |-> session, exec |-> exec]
  <2>1. kept.exec = exec /\ kept.gen = recovery.gen + 1 /\ recovery.gen \in Nat
    BY DEF AgentIInv, AgentTypeOK, Checkpoint
  <2>2. /\ phase = "checkpoint" /\ phase' = "replace" /\ recovery' = kept
        /\ UNCHANGED <<private, origin, input, gates, world>>
    BY <1>1 DEF SalvarCheckpoint
  <2> HIDE DEF kept
  <2>3. OneMove(0, -2)
    BY <2>1, <2>2 DEF OneMove, Live, AtOrigin, Persisting
  <2>4. QED
    BY <2>2, <2>3, OneMoveKeeps
<1>2. ASSUME NEW i \in GateId, SalvarGate(i) PROVE Budget'
  <2> DEFINE kept == [id |-> i, kind |-> phase, session |-> session, exec |-> exec]
  <2>1. kept.exec = exec /\ kept.id = i
    OBVIOUS
  <2>2. /\ phase \in {"confirm", "choice"} /\ phase' = "clear"
        /\ gates' = gates \union {kept} /\ \A g \in gates : g.id # i
        /\ UNCHANGED <<private, origin, input, recovery, world>>
    BY <1>2 DEF SalvarGate
  <2> HIDE DEF kept
  <2>3. OneMove(0, i)
    BY <2>1, <2>2 DEF OneMove, Live, AtOrigin, Persisting
  <2>4. QED
    BY <2>2, <2>3, OneMoveKeeps
<1>3. CASE Retomar
  <2> DEFINE o == [kind |-> "recovery", id |-> recovery.gen]
  <2>1. o.kind = "recovery" /\ o.id = recovery.gen /\ recovery.gen \in Nat
    BY DEF AgentIInv, AgentTypeOK, Checkpoint
  <2>2. /\ phase = "replace" /\ phase' = "think"
        /\ recovery' = recovery /\ gates' = {g \in gates : ~AtOrigin(g)}
        /\ origin' = o /\ UNCHANGED <<exec, input, world>>
    BY <1>3 DEF Retomar, Resume, Rehydrate, Limpar, AtOrigin, AgentIInv,
                OriginsOK, AgentTypeOK, Checkpoint, Origin
  <2>3. /\ recovery.gen > 0 /\ recovery.exec = exec
        /\ ~(origin.kind = "recovery" /\ origin.id = recovery.gen)
    BY <2>2 DEF AgentIInv, OriginsOK, AgentTypeOK, Origin
  <2> HIDE DEF o
  <2>4. OneMove(-2, 0)
    BY <2>1, <2>2, <2>3 DEF OneMove, Live, AtOrigin
  <2>5. QED
    BY <2>2, <2>4, OneMoveKeeps
<1>4. CASE Encerrar
  <2>1. /\ phase' = "idle" /\ origin' = None /\ UNCHANGED world
        /\ gates' = {g \in gates : ~AtOrigin(g)}
        /\ recovery' = IF origin.kind = "recovery" /\ origin.id = recovery.gen
                       THEN NoCheckpoint ELSE recovery
    BY <1>4 DEF Encerrar, Limpar, Forget, AtOrigin
  <2>2. NoCheckpoint.gen = 0
    BY DEF NoCheckpoint
  <2>3. OneMove(0, 0)
    BY <2>1, <2>2 DEF OneMove, Live, Persisting
  <2>4. QED
    BY <2>1, <2>3, OneMoveKeeps
<1>5. QED
  BY <1>1, <1>2, <1>3, <1>4 DEF Persist

(* A job starts: the checkpoint, a gate or its text becomes the run.       *)
LEMMA StartBudget == ASSUME AgentIInv, Budget, Start PROVE Budget'
<1> USE ThreadsDiffer DEF private, world, store
<1>1. phase = "start" /\ origin = None
  BY DEF Start, StartRecovery, StartWithout, StartChoice, Unresolved, StartCancel,
         StartConfirm, AtGates, AgentIInv, OriginsOK
<1>2. None.kind = "none"
  BY DEF None
<1>3. CASE StartRecovery
  <2> DEFINE o == [kind |-> "recovery", id |-> recovery.gen]
  <2>1. o.kind = "recovery" /\ o.id = recovery.gen
    OBVIOUS
  <2>2. /\ phase' = "think" /\ origin' = o /\ exec' = recovery.exec
        /\ recovery.gen > 0 /\ recovery.gen \in Nat
        /\ UNCHANGED <<input, store, world>>
    BY <1>3 DEF StartRecovery, Resume, Rehydrate, AgentIInv, AgentTypeOK,
                Checkpoint
  <2> HIDE DEF o
  <2>3. OneMove(-2, 0)
    BY <1>1, <1>2, <2>1, <2>2 DEF OneMove, Live, AtOrigin
  <2>4. QED
    BY <2>2, <2>3, OneMoveKeeps
<1>4. CASE StartWithout
  <2>1. CASE input.control = "ask"
    <3>1. Fresh(gates \ Found) /\ recovery.gen = 0
      BY <1>4, <2>1 DEF StartWithout, AtGates
    <3>2. /\ phase' = "think" /\ origin' = None /\ exec' = NewExec
          /\ gates' \subseteq gates /\ UNCHANGED <<input, recovery, world>>
      BY <3>1 DEF Fresh, Forget
    <3>3. OneMove(-1, 0)
      BY <1>1, <1>2, <2>1, <3>1, <3>2 DEF OneMove, Live, AtOrigin
    <3>4. QED
      BY <3>2, <3>3, OneMoveKeeps
  <2>2. CASE input.control # "ask"
    <3>1. /\ phase' = "idle" /\ gates' \subseteq gates /\ recovery.gen = 0
          /\ UNCHANGED <<private, origin, recovery, world>>
      BY <1>4, <2>2 DEF StartWithout, AtGates, NoSuchGate
    <3>2. OneMove(0, 0)
      BY <1>1, <1>2, <3>1 DEF OneMove, Live, AtOrigin, Persisting
    <3>3. QED
      BY <3>1, <3>2, OneMoveKeeps
  <2>3. QED
    BY <2>1, <2>2
<1>5. ASSUME NEW g \in gates, StartChoice(g) \/ StartConfirm(g)
      PROVE  Budget'
  <2> DEFINE o == [kind |-> "gate", id |-> g.id]
  <2>1. o.kind = "gate" /\ o.id = g.id
    OBVIOUS
  <2>2. /\ phase' = "think" /\ origin' = o /\ exec' = g.exec /\ recovery.gen = 0
        /\ UNCHANGED <<input, store, spent, crashes, silent>>
    BY <1>5 DEF StartChoice, StartConfirm, AtGates, Resume, Rehydrate
  <2> HIDE DEF o
  <2>3. OneMove(g.id, 0)
    BY <1>1, <1>2, <2>1, <2>2 DEF OneMove, Live, AtOrigin
  <2>4. QED
    BY <2>2, <2>3, OneMoveKeeps
<1>6. ASSUME NEW g \in gates, Unresolved(g) \/ StartCancel(g)
      PROVE  Budget'
  <2> DEFINE o == [kind |-> "gate", id |-> g.id]
  <2>1. o.kind = "gate" /\ o.id = g.id
    OBVIOUS
  <2>2. /\ \/ phase' = "idle" /\ origin' = origin
           \/ phase' = "clear" /\ origin' = o /\ input' = input
        /\ recovery.gen = 0 /\ UNCHANGED <<private, store, world>>
    BY <1>6 DEF Unresolved, NoSuchGate, StartCancel, AtGates
  <2> HIDE DEF o
  <2>3. OneMove(0, 0)
    BY <1>1, <1>2, <2>1, <2>2 DEF OneMove, Live, AtOrigin, Persisting
  <2>4. QED
    BY <2>2, <2>3, OneMoveKeeps
<1>7. QED
  BY <1>3, <1>4, <1>5, <1>6 DEF Start

(* Every step.                                                             *)
LEMMA BudgetStep == ASSUME AgentIInv, Budget, [Next]_vars PROVE Budget'
<1> USE ThreadsDiffer DEF private, world, store
<1>1. ASSUME NEW g \in gates, NEW c \in {"aplicar", "cancelar", "option"},
             Answer(g, c)
      PROVE  Budget'
  <2>1. /\ phase = "idle" /\ phase' = "start" /\ input'.control # "ask"
        /\ UNCHANGED <<private, origin, store, world>>
    BY <1>1 DEF Answer
  <2>2. OneMove(0, 0)
    BY <2>1 DEF OneMove, Live, AtOrigin, Persisting
  <2>3. QED
    BY <2>1, <2>2, OneMoveKeeps
<1>2. CASE UNCHANGED vars
  <2>1. OneMove(0, 0)
    BY <1>2 DEF OneMove, Live, AtOrigin, vars
  <2>2. QED
    BY <1>2, <2>1, OneMoveKeeps DEF vars
<1>3. QED
  BY <1>1, <1>2, CrashBudget, ThinkBudget, PersistBudget, StartBudget
     DEF Next, Run

(* Nothing is billed before the first call.                                *)
LEMMA BudgetInit == ASSUME AgentInit PROVE Budget
<1> DEFINE row == [t \in Thread |-> 0]
<1>1. crashes = 0 /\ spent = 0 /\ silent = 0 /\ Cardinality({}) = 0
  BY FS_EmptySet DEF AgentInit
<1>2. row \in [Thread -> 0..crashes] /\ \A t \in Thread : row[t] = 0
  BY <1>1
<1>3. ASSUME NEW t \in Thread, NEW x, Live(t, x)
      PROVE  t = -1
  BY <1>3 DEF AgentInit, Live, NoCheckpoint, Persisting
<1> HIDE DEF row
<1>4. Accounted({}, row)
  BY <1>1, <1>2, <1>3 DEF Accounted
<1>5. QED
  BY <1>4 DEF Budget

(* Checkpoints, gates and resumes never buy tokens: what one execution is  *)
(* really billed stays under its limit plus one call, for each time its    *)
(* process was run, and passes that by the answers that were lost and by   *)
(* nothing else (_ensure_provider_token_budget, continuation_state).       *)
THEOREM BudgetTheorem == AgentSpec => []BudgetHolds
<1>1. ASSUME AgentIInv, Budget PROVE BudgetHolds
  <2>1. PICK bill, row : Accounted(bill, row)
    BY <1>1 DEF Budget
  <2>2. crashes \in Nat /\ spent \in Nat /\ silent \in Nat
    BY <1>1, AgentSessionAssumption DEF AgentIInv, AgentTypeOK
  <2>3. spent - silent <= (crashes + 1) * Full
    <3>1. /\ bill \in SUBSET Cells /\ spent - silent <= Cardinality(bill)
      BY <2>1 DEF Accounted
    <3>2. IsFiniteSet(bill) /\ Cardinality(bill) <= (crashes + 1) * Full
      BY <2>2, <3>1, CellsAreFinite, FS_Subset
    <3>3. Cardinality(bill) \in Nat
      BY <3>2, FS_CardinalityType
    <3>4. (crashes + 1) * Full \in Int
      BY <2>2, FullIsPositive
    <3>5. QED
      BY <2>2, <3>1, <3>2, <3>3, <3>4
  <2>4. Limit + MaxCost = Full + 1 /\ Full \in Nat
    BY FullIsPositive, AgentSessionAssumption DEF Full
  <2>5. (crashes + 1) * Full < (crashes + 1) * (Full + 1)
    BY <2>2, <2>4
  <2>6. QED
    BY <2>2, <2>3, <2>4, <2>5 DEF BudgetHolds
<1>2. AgentIInv /\ Budget /\ [Next]_vars => Budget'
  BY BudgetStep
<1>3. QED
  BY <1>1, <1>2, BudgetInit, AgentInvariance, PTL DEF AgentSpec
===============================================================================
