---------------------------- MODULE WorkspaceProofs ----------------------------
(***************************************************************************)
(* The promises of WorkspaceChange, proved for any number of files, any    *)
(* contents, any number of writes of other hands and any number of kills.  *)
(*                                                                         *)
(* Of each mover the invariant says what it knows of the files no other    *)
(* hand has written since the confirmation: in which phase they are as the *)
(* user confirmed them, which ones it has written, and how it can still    *)
(* put each of them back.                                                  *)
(***************************************************************************)
EXTENDS WorkspaceChange, TLAPS

(* The user has confirmed, and the files were noted.                       *)
Confirmed(m) == DOMAIN m.before = Path

(* The files a transaction is about.                                       *)
Patched == Range(tx.order)

(* The bookkeeping of a transaction.                                       *)
TxBooks ==
    /\ tx.pc = "none" => tx = NoTransaction
    /\ tx.pc \notin {"report", "done"} => tx.outcome = "none"
    /\ DOMAIN tx.expected = Patched /\ DOMAIN tx.result = Patched
    /\ DOMAIN tx.kept \subseteq Patched
    /\ Range(tx.todo) \subseteq Patched /\ Range(tx.applied) \subseteq Patched
    /\ \A p \in DOMAIN tx.kept : tx.kept[p] = tx.expected[p]
    /\ tx.pc = "check" => /\ Patched \subseteq DOMAIN tx.kept \union Range(tx.todo)
                          /\ tx.applied = <<>>
    /\ tx.pc \in {"apply", "verify", "reread", "undo"} => DOMAIN tx.kept = Patched
    /\ tx.pc = "apply" => Patched \subseteq Range(tx.applied) \union Range(tx.todo)
    /\ tx.pc \in {"verify", "reread"} => Patched \subseteq Range(tx.applied)
    /\ tx.pc \notin {"none", "gate", "done"} \/ tx.killed \/ tx.outcome # "none"
       => Confirmed(tx)
    /\ tx.pc = "report" => tx.outcome # "none"
    /\ tx.pc \in {"none", "gate", "done"} /\ tx.outcome = "none" /\ ~tx.killed
       => DOMAIN tx.before = {}

(* What a transaction finds, or has left, in the files: before it writes   *)
(* one it has seen what the proposal expects, and afterwards there is what *)
(* the proposal or the rollback makes of it.                               *)
TxFresh ==
    Confirmed(tx) => \A p \in Path \ foreign :
        /\ p \notin Patched => files[p] = tx.before[p]
        /\ p \in Patched
           => \/ files[p] = tx.before[p]
              \/ /\ files[p] \in {Decode(tx.before[p]), tx.result[p]}
                 /\ tx.expected[p] = Decode(tx.before[p])
        /\ p \in DOMAIN tx.kept => tx.expected[p] = Decode(tx.before[p])

(* How it gets back to where it was.                                       *)
TxCanGoBack ==
    ~tx.killed => \A p \in Path \ foreign :
        /\ tx.pc = "check" \/ tx.outcome = "stale" => files[p] = tx.before[p]
        /\ tx.pc \in {"apply", "verify", "reread"} /\ p \notin Range(tx.applied)
           => files[p] = tx.before[p]
        /\ \/ tx.pc = "undo" /\ tx.clean /\ p \notin Range(tx.todo)
           \/ tx.outcome = "undone"
           => files[p] \in {tx.before[p], Decode(tx.before[p])}

(* What it has seen on the disk, and what it has put there.                *)
TxSeen ==
    /\ \A p \in Patched \ late :
           \/ tx.pc = "reread" /\ tx.clean /\ p \notin Range(tx.todo)
           \/ tx.outcome = "success"
           => Decode(files[p]) = Decode(tx.result[p])
    /\ \A p \in Patched \ foreign :
           \/ tx.pc \in {"apply", "verify", "reread"} /\ p \in Range(tx.applied)
           \/ tx.outcome = "success"
           => files[p] = tx.result[p]

TransactionInv == TxBooks /\ TxFresh /\ TxCanGoBack /\ TxSeen

-------------------------------------------------------------------------------
(* A promotion: the files it is about, and what it makes of each.          *)
Promoted == DOMAIN pr.expected
Goal(p)  == IF p \in Staged THEN pr.staged[p] ELSE Absent
Moving   == {"write", "remove", "verify"}
Undoing  == {"uncreate", "restore"}
Over     == {"unlink", "report", "done"}

(* The bookkeeping of a promotion: which files each phase still has to do. *)
PrBooks ==
    /\ pr.pc = "none" => pr = NoPromotion
    /\ pr.pc \notin Over => pr.outcome = "none"
    /\ Staged \subseteq Promoted
    /\ \A p \in Deletes : pr.expected[p] # Absent
    /\ pr.todo \subseteq Promoted /\ pr.created \subseteq Promoted
    /\ DOMAIN pr.backup \subseteq Replaces \union Deletes
    /\ pr.pc = "check" => pr.created = {} /\ DOMAIN pr.backup = {}
    /\ pr.pc = "backup" => pr.todo \subseteq Replaces \union Deletes
    /\ pr.pc = "write" => pr.todo \subseteq Changes
    /\ pr.pc = "remove" => pr.todo \subseteq Deletes
    /\ pr.pc = "uncreate" => pr.todo \subseteq pr.created
    /\ pr.pc = "restore" => pr.todo \subseteq DOMAIN pr.backup
    /\ pr.pc \notin {"none", "gate", "done"} \/ pr.killed \/ pr.outcome # "none"
       => Confirmed(pr)
    /\ pr.pc \in {"unlink", "report"} => pr.outcome # "none"
    /\ pr.pc \in {"none", "gate", "done"} /\ pr.outcome = "none" /\ ~pr.killed
       => DOMAIN pr.before = {}

(* What a promotion finds, or has left, in the files it may write, and what*)
(* its backups are worth.                                                  *)
PrFresh ==
    \A p \in Promoted \ foreign :
        /\ pr.pc = "check" /\ p \notin pr.todo => files[p] = pr.expected[p]
        /\ pr.pc = "backup" => files[p] = pr.expected[p]
        /\ pr.pc \in Moving \union Undoing => files[p] \in {pr.expected[p], Goal(p)}
        /\ pr.pc \in {"backup"} \union Moving \union Undoing
           => /\ p \in DOMAIN pr.backup => pr.backup[p] = pr.expected[p]
              /\ p \in pr.created => pr.expected[p] = Absent

(* How it gets back to where it was.                                       *)
PrCanGoBack ==
    /\ Confirmed(pr) => \A p \in Path \ foreign :
        /\ p \notin Promoted => files[p] = pr.before[p]
        /\ p \in Promoted => \/ files[p] = pr.before[p]
                             \/ files[p] = Goal(p) /\ pr.expected[p] = pr.before[p]
        /\ p \in Promoted /\ pr.pc \in {"backup"} \union Moving \union Undoing
           => pr.expected[p] = pr.before[p]
    /\ \A p \in (Replaces \union Deletes) \ foreign :
        /\ pr.pc = "backup" => p \in pr.todo \union DOMAIN pr.backup
        /\ pr.pc \in Moving => p \in DOMAIN pr.backup
    /\ ~pr.killed => \A p \in Path \ foreign :
        /\ pr.pc \in {"check", "backup"} => files[p] = pr.before[p]
        /\ pr.pc \in Moving /\ p \notin pr.created \union DOMAIN pr.backup
           => files[p] = pr.before[p]
        /\ pr.pc = "uncreate" /\ pr.clean /\ p \notin pr.todo \union DOMAIN pr.backup
           => files[p] = pr.before[p]
        /\ pr.pc = "restore" /\ pr.clean /\ p \notin pr.todo
           => files[p] = pr.before[p]
        /\ pr.pc \in Over /\ pr.outcome = "failed" => files[p] = pr.before[p]

(* What it has seen on the disk.                                           *)
PrSeen ==
    \A p \in Promoted \ late :
        /\ pr.pc = "verify" /\ p \notin pr.todo => files[p] = Goal(p)
        /\ pr.pc \in Over /\ pr.outcome = "success" => files[p] = Goal(p)

PromotionInv == PrBooks /\ PrFresh /\ PrCanGoBack /\ PrSeen

ChangeInv ==
    /\ ChangeTypeOK
    /\ pr.pc = "none" \/ tx.pc = "none"
    /\ TransactionInv
    /\ PromotionInv

-------------------------------------------------------------------------------
(* Lemma: turning a sequence around (rollback_patch_set goes backwards)    *)
(* keeps what is in it.                                                    *)
LEMMA RevRange ==
    ASSUME NEW S, NEW s \in Seq(S)
    PROVE  Reverse(s) \in Seq(S) /\ Range(Reverse(s)) = Range(s)
<1>1. Len(s) \in Nat /\ DOMAIN s = 1..Len(s) /\ s \in [1..Len(s) -> S]
  OBVIOUS
<1>2. Reverse(s) = [i \in 1..Len(s) |-> s[(Len(s) - i) + 1]]
  BY DEF Reverse
<1>3. Reverse(s) \in Seq(S)
  BY <1>1, <1>2
<1>4. ASSUME NEW x \in Range(s) PROVE x \in Range(Reverse(s))
  <2>1. PICK i \in 1..Len(s) : s[i] = x
    BY <1>1 DEF Range
  <2>2. (Len(s) - i) + 1 \in 1..Len(s) /\ (Len(s) - ((Len(s) - i) + 1)) + 1 = i
    BY <1>1
  <2> QED
    BY <1>1, <1>2, <2>1, <2>2 DEF Range
<1>5. ASSUME NEW x \in Range(Reverse(s)) PROVE x \in Range(s)
  <2>1. PICK i \in 1..Len(s) : Reverse(s)[i] = x
    BY <1>1, <1>2 DEF Range
  <2>2. (Len(s) - i) + 1 \in 1..Len(s)
    BY <1>1
  <2> QED
    BY <1>1, <1>2, <2>1, <2>2 DEF Range
<1> QED
  BY <1>3, <1>4, <1>5

(* Lemma: a phase that has files to do has the first one and the others.   *)
LEMMA TailRange ==
    ASSUME NEW S, NEW s \in Seq(S), s # <<>>
    PROVE  /\ Tail(s) \in Seq(S) /\ Head(s) \in Range(s)
           /\ Range(s) = {Head(s)} \union Range(Tail(s))
<1>1. Len(s) \in Nat /\ DOMAIN s = 1..Len(s) /\ s \in [1..Len(s) -> S] /\ Len(s) > 0
  OBVIOUS
<1>2. /\ Tail(s) \in Seq(S) /\ Len(Tail(s)) = Len(s) - 1
      /\ DOMAIN Tail(s) = 1..(Len(s) - 1) /\ Head(s) = s[1]
  BY <1>1
<1>3. \A i \in 1..(Len(s) - 1) : Tail(s)[i] = s[i + 1]
  BY <1>1
<1>4. ASSUME NEW x \in Range(s) PROVE x \in {Head(s)} \union Range(Tail(s))
  <2>1. PICK i \in 1..Len(s) : s[i] = x
    BY <1>1 DEF Range
  <2>2. CASE i = 1
    BY <2>1, <2>2, <1>2
  <2>3. CASE i # 1
    <3>1. i - 1 \in 1..(Len(s) - 1) /\ (i - 1) + 1 = i
      BY <1>1, <2>3
    <3> QED
      BY <3>1, <1>3, <1>2, <2>1, ZenonT(240) DEF Range
  <2> QED
    BY <2>2, <2>3
<1>5. ASSUME NEW x \in Range(Tail(s)) PROVE x \in Range(s)
  <2>1. PICK i \in 1..(Len(s) - 1) : Tail(s)[i] = x
    BY <1>2 DEF Range
  <2> QED
    BY <1>1, <1>3, <2>1 DEF Range
<1>6. s[1] \in Range(s)
  BY <1>1 DEF Range
<1> QED
  BY <1>2, <1>4, <1>5, <1>6

(* Lemma: one more patch has been applied.                                 *)
LEMMA AppRange ==
    ASSUME NEW S, NEW s \in Seq(S), NEW e \in S
    PROVE  Append(s, e) \in Seq(S) /\ Range(Append(s, e)) = Range(s) \union {e}
<1>1. Len(s) \in Nat /\ DOMAIN s = 1..Len(s) /\ s \in [1..Len(s) -> S]
  OBVIOUS
<1>2. /\ Append(s, e) \in Seq(S) /\ DOMAIN Append(s, e) = 1..(Len(s) + 1)
      /\ Append(s, e)[Len(s) + 1] = e
      /\ \A i \in 1..Len(s) : Append(s, e)[i] = s[i]
  BY <1>1
<1>3. ASSUME NEW x \in Range(Append(s, e)) PROVE x \in Range(s) \union {e}
  <2>1. PICK i \in 1..(Len(s) + 1) : Append(s, e)[i] = x
    BY <1>2 DEF Range
  <2> QED
    BY <1>1, <1>2, <2>1 DEF Range
<1>4. ASSUME NEW x \in Range(s) PROVE x \in Range(Append(s, e))
  <2>1. PICK i \in 1..Len(s) : s[i] = x
    BY <1>1 DEF Range
  <2> QED
    BY <1>1, <1>2, <2>1 DEF Range
<1>5. e \in Range(Append(s, e))
  BY <1>1, <1>2 DEF Range
<1> QED
  BY <1>2, <1>3, <1>4, <1>5

(* Lemma: what is known of one file more is still known of files.          *)
LEMMA SaidOfFiles ==
    ASSUME NEW f \in Some(Content), NEW p \in Path, NEW v \in Content
    PROVE  Also(f, p, v) \in Some(Content)
<1>1. PICK S \in SUBSET Path : f \in [S -> Content]
  BY DEF Some
<1>2. Also(f, p, v) \in [S \union {p} -> Content] /\ S \union {p} \in SUBSET Path
  BY <1>1 DEF Also
<1> QED
  BY <1>2 DEF Some

(* Lemma: the same of the contents of files that are there.                *)
LEMMA SaidOfTexts ==
    ASSUME NEW f \in Some(Texts), NEW p \in Path, NEW v \in Texts
    PROVE  Also(f, p, v) \in Some(Texts)
<1>1. PICK S \in SUBSET Path : f \in [S -> Texts]
  BY DEF Some
<1>2. Also(f, p, v) \in [S \union {p} -> Texts] /\ S \union {p} \in SUBSET Path
  BY <1>1 DEF Also
<1> QED
  BY <1>2 DEF Some

(* Lemma: in the beginning nothing is known of any file.                   *)
LEMMA NothingSaid ==
    ASSUME NEW V
    PROVE  Nothing \in Some(V) /\ DOMAIN Nothing = {}
<1>1. Nothing \in [{} -> V] /\ {} \in SUBSET Path
  BY DEF Nothing
<1> QED
  BY <1>1 DEF Nothing, Some

(* Lemma: a content for each of some files is known of files.              *)
LEMMA AllSaid ==
    ASSUME NEW V, NEW S \in SUBSET Path, NEW f \in [S -> V]
    PROVE  f \in Some(V)
BY DEF Some

(* Lemma: what is read of a file is a content, and reads as itself.        *)
LEMMA DecodeFacts ==
    ASSUME NEW content \in Content
    PROVE  /\ Decode(content) \in Content /\ Decode(Decode(content)) = Decode(content)
           /\ Decode(content) = Absent <=> content = Absent
BY WorkspaceAssumption, DecodedAssumption DEF Decode, Content

(* Lemma: a phase with nothing to do names no file.                        *)
LEMMA NothingToDo == Range(<<>>) = {} /\ \A S : <<>> \in Seq(S)
BY DEF Range

-------------------------------------------------------------------------------
(* The steps of a transaction.                                             *)
TxKept == tx \in TransactionType /\ WorkspaceTypeOK /\ TransactionInv

(* Lemma: the fields of a transaction, each of its type.                   *)
LEMMA TxFields ==
    ASSUME tx \in TransactionType
    PROVE  /\ tx.order \in Seq(Path) /\ tx.todo \in Seq(Path) /\ tx.applied \in Seq(Path)
           /\ tx.expected \in Some(Content) /\ tx.result \in Some(Content)
           /\ tx.kept \in Some(Content) /\ tx.before \in Some(Content)
           /\ tx.clean \in BOOLEAN /\ tx.killed \in BOOLEAN
           /\ Patched \subseteq Path
<1>1. tx.order \in Seq(Path)
  BY DEF TransactionType
<1>2. Patched \subseteq Path
  BY <1>1 DEF Patched, Range
<1> QED
  BY <1>1, <1>2 DEF TransactionType

(* Lemma: a proposal, which reads its hashes off the files (prepare).      *)
LEMMA ProposeKeeps ==
    ASSUME TxKept, NEW order \in PatchLists, NEW result \in [Range(order) -> Content],
           Propose(order, result)
    PROVE  TxKept'
<1>1. PICK n \in Path : order \in [1..n -> Path]
  BY DEF PatchLists
<1>2. order \in Seq(Path) /\ Range(order) \in SUBSET Path
  <2>1. n \in Nat /\ DOMAIN order = 1..n
    BY <1>1, WorkspaceAssumption DEF Path
  <2> QED
    BY <1>1, <2>1 DEF Range
<1>3. files \in [Path -> Content]
  BY DEF TxKept, WorkspaceTypeOK
<1>4. [p \in DOMAIN result |-> Decode(files[p])] \in [Range(order) -> Content]
  BY <1>2, <1>3, DecodeFacts
<1>5. tx = NoTransaction
  BY DEF TxKept, TransactionInv, TxBooks, Propose
<1>6. /\ tx'.pc = "gate" /\ tx'.order = order /\ tx'.result = result
      /\ tx'.expected = [p \in DOMAIN result |-> Decode(files[p])]
      /\ tx'.kept = Nothing /\ tx'.todo = <<>> /\ tx'.applied = <<>>
      /\ tx'.clean = TRUE /\ tx'.outcome = "none"
      /\ tx'.before = Nothing /\ tx'.killed = FALSE
  BY <1>5 DEF TxKept, Propose, TransactionType, NoTransaction
<1>7. tx' \in TransactionType /\ WorkspaceTypeOK'
  BY <1>2, <1>4, <1>6, AllSaid
  DEF TxKept, Propose, TransactionType, NoFileTouched, workspaceVars, WorkspaceTypeOK
<1>8. 1 \in Path
  BY WorkspaceAssumption DEF Path
<1>9. TxBooks' /\ TxFresh' /\ TxSeen'
  BY <1>6, <1>8, NothingSaid, NothingToDo DEF TxBooks, TxFresh, TxSeen, Patched, Confirmed
<1>10. TxCanGoBack'
  BY <1>6 DEF TxCanGoBack
<1> QED
  BY <1>7, <1>9, <1>10 DEF TxKept, TransactionInv

(* Lemma: the user's no.                                                   *)
LEMMA RejectKeeps ==
    ASSUME TxKept, RejectPatches
    PROVE  TxKept'
<1>1. /\ tx.pc = "gate" /\ tx' = [tx EXCEPT !.pc = "done"]
      /\ UNCHANGED workspaceVars
  BY DEF RejectPatches, NoFileTouched
<1>2. tx' \in TransactionType /\ WorkspaceTypeOK'
  BY <1>1 DEF TxKept, TransactionType, workspaceVars, WorkspaceTypeOK
<1>3. TransactionInv
  BY DEF TxKept
<1> QED
  BY <1>1, <1>2, <1>3
  DEF TxKept, TransactionType, TransactionInv, TxBooks, TxFresh, TxCanGoBack, TxSeen,
      Patched, Confirmed, workspaceVars

(* Lemma: the user's yes: from here the history counts.                    *)
LEMMA ConfirmKeeps ==
    ASSUME TxKept, ConfirmPatches
    PROVE  TxKept'
<1>1. /\ tx.pc = "gate" /\ tx'.pc = "check" /\ tx'.todo = tx.order
      /\ tx'.order = tx.order /\ tx'.expected = tx.expected /\ tx'.result = tx.result
      /\ tx'.kept = Nothing /\ tx'.applied = <<>> /\ tx'.clean = TRUE
      /\ tx'.outcome = tx.outcome /\ tx'.killed = tx.killed
      /\ tx'.before = IF tx.killed THEN tx.before ELSE files
      /\ files' = files /\ edits' = edits /\ kills' = kills
      /\ IF tx.killed THEN foreign' = foreign /\ late' = late
                      ELSE foreign' = {} /\ late' = {}
  BY DEF TxKept, TransactionType, ConfirmPatches, GoesTo, NoFileTouched, HistoryBegins,
         workspaceVars
<1>2. files \in [Path -> Content] /\ Path \in SUBSET Path
  BY DEF TxKept, WorkspaceTypeOK
<1>3. files \in Some(Content)
  BY <1>2, AllSaid
<1>4. tx' = [pc |-> "check", order |-> tx.order, expected |-> tx.expected,
                result |-> tx.result, kept |-> Nothing, todo |-> tx.order,
                applied |-> <<>>, clean |-> TRUE, outcome |-> tx.outcome,
                before |-> IF tx.killed THEN tx.before ELSE files,
                killed |-> tx.killed]
  BY DEF TxKept, TransactionType, ConfirmPatches, GoesTo
<1>5. tx' \in TransactionType
  BY <1>3, <1>4, NothingSaid, NothingToDo, TxFields DEF TxKept, TransactionType
<1>6. WorkspaceTypeOK'
  BY <1>1 DEF TxKept, WorkspaceTypeOK
<1>7. Confirmed(tx)'
  BY <1>1, <1>2 DEF TxKept, TransactionInv, TxBooks, Confirmed
<1>8. TxBooks' /\ TxFresh' /\ TxSeen'
  BY <1>1, <1>7, NothingSaid, NothingToDo
  DEF TxKept, TransactionInv, TxBooks, TxFresh, TxSeen, Patched
<1>9. TxCanGoBack'
  BY <1>1, <1>7 DEF TxKept, TransactionInv, TxBooks, TxCanGoBack, Patched, Confirmed
<1> QED
  BY <1>5, <1>6, <1>8, <1>9 DEF TxKept, TransactionInv

(* Lemma: one file of the second dry run.                                  *)
LEMMA CheckKeeps ==
    ASSUME TxKept, NEW p \in Path, CheckPatch(p)
    PROVE  TxKept'
<1> DEFINE kept == Also(tx.kept, p, Decode(files[p]))
<1>1. /\ tx \in TransactionType /\ TransactionInv /\ WorkspaceTypeOK
      /\ tx.pc = "check" /\ tx.todo # <<>> /\ p = Head(tx.todo)
      /\ late' = late \ {p} /\ UNCHANGED <<files, foreign, edits, kills>>
  BY DEF TxKept, CheckPatch, Turn, Reads
<1>2. /\ Tail(tx.todo) \in Seq(Path)
      /\ Range(tx.todo) = {p} \union Range(Tail(tx.todo)) /\ p \in Patched
  BY <1>1, TxFields, TailRange DEF TransactionInv, TxBooks
<1>3. WorkspaceTypeOK'
  BY <1>1 DEF WorkspaceTypeOK
<1>4. /\ kept \in Some(Content) /\ DOMAIN kept = DOMAIN tx.kept \union {p}
      /\ \A q \in DOMAIN kept : kept[q] = IF q = p THEN Decode(files[p]) ELSE tx.kept[q]
  <2>1. Decode(files[p]) \in Content /\ tx.kept \in Some(Content)
    BY <1>1, TxFields, DecodeFacts DEF WorkspaceTypeOK
  <2>2. kept \in Some(Content)
    BY ONLY <2>1, p \in Path, SaidOfFiles DEF kept
  <2> QED
    BY ONLY <2>2 DEF kept, Also
<1> HIDE DEF kept
<1>5. CASE ~Fresh(p)
  <2>1. /\ tx'.pc = "report" /\ tx'.todo = <<>> /\ tx'.outcome = "stale"
        /\ tx'.order = tx.order /\ tx'.expected = tx.expected /\ tx'.result = tx.result
        /\ tx'.kept = tx.kept /\ tx'.applied = tx.applied /\ tx'.clean = tx.clean
        /\ tx'.before = tx.before /\ tx'.killed = tx.killed
    BY <1>1, <1>5 DEF CheckPatch, Ends, TransactionType
  <2>2. tx' \in TransactionType
    BY <1>1, <1>5, NothingToDo DEF CheckPatch, Ends, TransactionType
  <2>3. TransactionInv'
    BY <1>1, <2>1, NothingToDo
    DEF TransactionInv, TxBooks, TxFresh, TxCanGoBack, TxSeen, Patched, Confirmed
  <2> QED
    BY <1>3, <2>2, <2>3 DEF TxKept
<1>6. CASE Fresh(p) /\ Tail(tx.todo) # <<>>
  <2>1. tx' = [tx EXCEPT !.kept = kept, !.todo = Tail(tx.todo)]
    BY <1>1, <1>6 DEF CheckPatch, Onward, TransactionType, kept
  <2>2. /\ tx'.pc = "check" /\ tx'.todo = Tail(tx.todo) /\ tx'.outcome = tx.outcome
        /\ tx'.order = tx.order /\ tx'.expected = tx.expected /\ tx'.result = tx.result
        /\ tx'.kept = kept /\ tx'.applied = tx.applied /\ tx'.clean = tx.clean
        /\ tx'.before = tx.before /\ tx'.killed = tx.killed
    BY <1>1, <2>1 DEF TransactionType
  <2>3. tx' \in TransactionType
    BY <1>1, <1>2, <1>4, <2>1 DEF TransactionType
  <2>4. TransactionInv'
    BY <1>1, <1>2, <1>4, <1>6, <2>2
    DEF TransactionInv, TxBooks, TxFresh, TxCanGoBack, TxSeen, Patched, Confirmed, Fresh
  <2> QED
    BY <1>3, <2>3, <2>4 DEF TxKept
<1>7. CASE Fresh(p) /\ Tail(tx.todo) = <<>>
  <2>1. tx' = [tx EXCEPT !.pc = "apply", !.todo = tx.order, !.clean = TRUE, !.kept = kept]
    BY <1>1, <1>7 DEF CheckPatch, Onward, GoesTo, TransactionType, kept
  <2>2. /\ tx'.pc = "apply" /\ tx'.todo = tx.order /\ tx'.outcome = tx.outcome
        /\ tx'.order = tx.order /\ tx'.expected = tx.expected /\ tx'.result = tx.result
        /\ tx'.kept = kept /\ tx'.applied = tx.applied /\ tx'.clean = TRUE
        /\ tx'.before = tx.before /\ tx'.killed = tx.killed
    BY <1>1, <2>1 DEF TransactionType
  <2>3. tx' \in TransactionType
    BY <1>1, <1>2, <1>4, <2>1 DEF TransactionType
  <2>4. Patched = DOMAIN kept
    BY <1>1, <1>2, <1>4, <1>7, NothingToDo DEF TransactionInv, TxBooks
  <2>5. Patched' = Patched /\ (Confirmed(tx)' <=> Confirmed(tx)) /\ tx.outcome = "none"
    BY <1>1, <2>2 DEF Patched, Confirmed, TransactionInv, TxBooks
  <2>6. TxBooks'
    BY <1>1, <1>2, <1>4, <1>7, <2>2, <2>4, <2>5 DEF TransactionInv, TxBooks, Patched, Fresh
  <2>7. TxFresh'
    BY <1>1, <1>4, <1>7, <2>2, <2>5 DEF TransactionInv, TxFresh, Fresh
  <2>8. TxCanGoBack' /\ TxSeen'
    BY <1>1, <2>2, <2>5, NothingToDo DEF TransactionInv, TxBooks, TxCanGoBack, TxSeen
  <2> QED
    BY <1>3, <2>3, <2>6, <2>7, <2>8 DEF TxKept, TransactionInv
<1> QED
  BY <1>5, <1>6, <1>7

(* Lemma: one file written or removed.                                     *)
LEMMA ApplyKeeps ==
    ASSUME TxKept, NEW p \in Path, ApplyPatch(p)
    PROVE  TxKept'
<1> DEFINE applied == Append(tx.applied, p)
<1>1. /\ tx \in TransactionType /\ TransactionInv /\ WorkspaceTypeOK
      /\ tx.pc = "apply" /\ tx.todo # <<>> /\ p = Head(tx.todo)
      /\ files' = [files EXCEPT ![p] = tx.result[p]]
      /\ UNCHANGED <<foreign, late, edits, kills>>
  BY DEF TxKept, ApplyPatch, Turn, Write
<1>2. /\ Tail(tx.todo) \in Seq(Path)
      /\ Range(tx.todo) = {p} \union Range(Tail(tx.todo)) /\ p \in Patched
  BY <1>1, TxFields, TailRange DEF TransactionInv, TxBooks
<1>3. applied \in Seq(Path) /\ Range(applied) = Range(tx.applied) \union {p}
  BY <1>1, TxFields, AppRange
<1> HIDE DEF applied
<1>4. files \in [Path -> Content] /\ tx.result[p] \in Content
  <2>1. p \in DOMAIN tx.result /\ tx.result \in Some(Content)
    BY <1>1, <1>2, TxFields DEF TransactionInv, TxBooks
  <2>2. PICK S \in SUBSET Path : tx.result \in [S -> Content]
    BY <2>1 DEF Some
  <2> QED
    BY <1>1, <2>1, <2>2 DEF WorkspaceTypeOK
<1>5. WorkspaceTypeOK'
  BY <1>1, <1>4 DEF WorkspaceTypeOK
<1>6. CASE Tail(tx.todo) # <<>>
  <2>1. tx' = [tx EXCEPT !.applied = applied, !.todo = Tail(tx.todo)]
    BY <1>1, <1>6 DEF ApplyPatch, Onward, TransactionType, applied
  <2>2. /\ tx'.pc = "apply" /\ tx'.todo = Tail(tx.todo) /\ tx'.outcome = tx.outcome
        /\ tx'.order = tx.order /\ tx'.expected = tx.expected /\ tx'.result = tx.result
        /\ tx'.kept = tx.kept /\ tx'.applied = applied /\ tx'.clean = tx.clean
        /\ tx'.before = tx.before /\ tx'.killed = tx.killed
    BY <1>1, <2>1 DEF TransactionType
  <2>3. tx' \in TransactionType
    BY <1>1, <1>2, <1>3, <2>1 DEF TransactionType
  <2>4. TransactionInv'
    BY <1>1, <1>2, <1>3, <1>4, <2>2
    DEF TransactionInv, TxBooks, TxFresh, TxCanGoBack, TxSeen, Patched, Confirmed
  <2> QED
    BY <1>5, <2>3, <2>4 DEF TxKept
<1>7. CASE Tail(tx.todo) = <<>>
  <2>1. tx' = [tx EXCEPT !.pc = "verify", !.todo = <<>>, !.clean = TRUE, !.applied = applied]
    BY <1>1, <1>7 DEF ApplyPatch, Onward, GoesTo, TransactionType, applied
  <2>2. /\ tx'.pc = "verify" /\ tx'.todo = <<>> /\ tx'.outcome = tx.outcome
        /\ tx'.order = tx.order /\ tx'.expected = tx.expected /\ tx'.result = tx.result
        /\ tx'.kept = tx.kept /\ tx'.applied = applied /\ tx'.clean = TRUE
        /\ tx'.before = tx.before /\ tx'.killed = tx.killed
    BY <1>1, <2>1 DEF TransactionType
  <2>3. tx' \in TransactionType
    BY <1>1, <1>2, <1>3, <2>1, NothingToDo DEF TransactionType
  <2>4. Patched \subseteq Range(applied) /\ Patched' = Patched
    BY <1>1, <1>2, <1>3, <1>7, <2>2, NothingToDo DEF TransactionInv, TxBooks, Patched
  <2>5. TxBooks'
    BY <1>1, <1>2, <1>3, <2>2, <2>4, NothingToDo
    DEF TransactionInv, TxBooks, Patched, Confirmed
  <2>6. TxFresh' /\ TxCanGoBack' /\ TxSeen'
    BY <1>1, <1>2, <1>3, <1>4, <2>2, <2>4
    DEF TransactionInv, TxBooks, TxFresh, TxCanGoBack, TxSeen, Patched, Confirmed
  <2> QED
    BY <1>5, <2>3, <2>5, <2>6 DEF TxKept, TransactionInv
<1> QED
  BY <1>6, <1>7

(* Lemma: wherever the transaction gives up, it knows how to go back.      *)
LEMMA RollBackKeeps ==
    ASSUME TxKept, tx.pc \in {"apply", "verify", "reread"}, tx' = RollBack,
           late' \subseteq late, UNCHANGED <<files, foreign, edits, kills>>
    PROVE  TxKept'
<1>1. tx \in TransactionType /\ TransactionInv /\ WorkspaceTypeOK
  BY DEF TxKept
<1>2. Reverse(tx.applied) \in Seq(Path) /\ Range(Reverse(tx.applied)) = Range(tx.applied)
  BY <1>1, TxFields, RevRange
<1>3. WorkspaceTypeOK'
  BY <1>1 DEF WorkspaceTypeOK
<1>4. /\ tx'.pc = "undo" /\ tx'.todo = Reverse(tx.applied) /\ tx'.outcome = tx.outcome
      /\ tx'.order = tx.order /\ tx'.expected = tx.expected /\ tx'.result = tx.result
      /\ tx'.kept = tx.kept /\ tx'.applied = tx.applied /\ tx'.clean = TRUE
      /\ tx'.before = tx.before /\ tx'.killed = tx.killed
  BY <1>1 DEF RollBack, GoesTo, TransactionType
<1>5. tx' \in TransactionType
  BY <1>1, <1>2 DEF RollBack, GoesTo, TransactionType
<1>6. TransactionInv'
  BY <1>1, <1>2, <1>4
  DEF TransactionInv, TxBooks, TxFresh, TxCanGoBack, TxSeen, Patched, Confirmed
<1> QED
  BY <1>3, <1>5, <1>6 DEF TxKept

(* Lemma: a write that fails.                                              *)
LEMMA ApplyFailsKeeps ==
    ASSUME TxKept, NEW p \in Path, ApplyFails(p)
    PROVE  TxKept'
BY RollBackKeeps DEF ApplyFails, Turn, NoFileTouched, workspaceVars

(* Lemma: the tests pass, fail, or an exception escapes.                   *)
LEMMA VerifyKeeps ==
    ASSUME TxKept, VerifyPatches
    PROVE  TxKept'
<1>1. /\ tx \in TransactionType /\ TransactionInv /\ WorkspaceTypeOK
      /\ tx.pc = "verify" /\ UNCHANGED <<files, foreign, late, edits, kills>>
  BY DEF TxKept, VerifyPatches, NoFileTouched, workspaceVars
<1>2. WorkspaceTypeOK'
  BY <1>1 DEF WorkspaceTypeOK
<1>3. CASE tx' = GoesTo("reread", tx.applied)
  <2>1. /\ tx'.pc = "reread" /\ tx'.todo = tx.applied /\ tx'.outcome = tx.outcome
        /\ tx'.order = tx.order /\ tx'.expected = tx.expected /\ tx'.result = tx.result
        /\ tx'.kept = tx.kept /\ tx'.applied = tx.applied /\ tx'.clean = TRUE
        /\ tx'.before = tx.before /\ tx'.killed = tx.killed
    BY <1>1, <1>3 DEF GoesTo, TransactionType
  <2>2. tx' \in TransactionType
    BY <1>1, <1>3 DEF GoesTo, TransactionType
  <2>3. TransactionInv'
    BY <1>1, <2>1
    DEF TransactionInv, TxBooks, TxFresh, TxCanGoBack, TxSeen, Patched, Confirmed
  <2> QED
    BY <1>2, <2>2, <2>3 DEF TxKept
<1>4. CASE tx' = RollBack
  BY <1>1, <1>4, RollBackKeeps
<1>5. CASE tx' = Ends("escaped")
  <2>1. /\ tx'.pc = "report" /\ tx'.todo = <<>> /\ tx'.outcome = "escaped"
        /\ tx'.order = tx.order /\ tx'.expected = tx.expected /\ tx'.result = tx.result
        /\ tx'.kept = tx.kept /\ tx'.applied = tx.applied /\ tx'.clean = tx.clean
        /\ tx'.before = tx.before /\ tx'.killed = tx.killed
    BY <1>1, <1>5 DEF Ends, TransactionType
  <2>2. tx' \in TransactionType
    BY <1>1, <1>5, NothingToDo DEF Ends, TransactionType
  <2>3. TransactionInv'
    BY <1>1, <2>1, NothingToDo
    DEF TransactionInv, TxBooks, TxFresh, TxCanGoBack, TxSeen, Patched, Confirmed
  <2> QED
    BY <1>2, <2>2, <2>3 DEF TxKept
<1> QED
  BY <1>3, <1>4, <1>5 DEF VerifyPatches

(* Lemma: one file of verify_expected_outputs.                             *)
LEMMA RereadKeeps ==
    ASSUME TxKept, NEW p \in Path, RereadPatch(p)
    PROVE  TxKept'
<1> DEFINE clean == tx.clean /\ Decode(files[p]) = Decode(tx.result[p])
<1>1. /\ tx \in TransactionType /\ TransactionInv /\ WorkspaceTypeOK
      /\ tx.pc = "reread" /\ tx.todo # <<>> /\ p = Head(tx.todo)
      /\ late' = late \ {p} /\ UNCHANGED <<files, foreign, edits, kills>>
  BY DEF TxKept, RereadPatch, Turn, Reads
<1>2. /\ Tail(tx.todo) \in Seq(Path)
      /\ Range(tx.todo) = {p} \union Range(Tail(tx.todo)) /\ p \in Patched
  BY <1>1, TxFields, TailRange DEF TransactionInv, TxBooks
<1>3. WorkspaceTypeOK'
  BY <1>1 DEF WorkspaceTypeOK
<1>4. CASE Tail(tx.todo) # <<>>
  <2>1. tx' = [tx EXCEPT !.clean = clean, !.todo = Tail(tx.todo)]
    BY <1>1, <1>4 DEF RereadPatch, Onward, TransactionType
  <2>2. /\ tx'.pc = "reread" /\ tx'.todo = Tail(tx.todo) /\ tx'.outcome = tx.outcome
        /\ tx'.order = tx.order /\ tx'.expected = tx.expected /\ tx'.result = tx.result
        /\ tx'.kept = tx.kept /\ tx'.applied = tx.applied
        /\ tx'.before = tx.before /\ tx'.killed = tx.killed
    BY <1>1, <2>1 DEF TransactionType
  <2>3. tx' \in TransactionType
    BY <1>1, <1>2, <2>1, Zenon DEF TransactionType
  <2>4. tx'.clean = clean
    BY <1>1, <2>1 DEF TransactionType
  <2>5. tx'.clean => tx.clean /\ Decode(files[p]) = Decode(tx.result[p])
    BY <2>4, Zenon
  <2>6. TransactionInv'
    BY <1>1, <1>2, <2>2, <2>5
    DEF TransactionInv, TxBooks, TxFresh, TxCanGoBack, TxSeen, Patched, Confirmed
  <2> QED
    BY <1>3, <2>3, <2>6 DEF TxKept
<1>5. CASE Tail(tx.todo) = <<>> /\ clean
  <2>1. tx' = Ends("success")
    BY <1>1, <1>5 DEF RereadPatch, Onward, TransactionType
  <2>2. /\ tx'.pc = "report" /\ tx'.todo = <<>> /\ tx'.outcome = "success"
        /\ tx'.order = tx.order /\ tx'.expected = tx.expected /\ tx'.result = tx.result
        /\ tx'.kept = tx.kept /\ tx'.applied = tx.applied /\ tx'.clean = tx.clean
        /\ tx'.before = tx.before /\ tx'.killed = tx.killed
    BY <1>1, <2>1 DEF Ends, TransactionType
  <2>3. tx' \in TransactionType
    BY <1>1, <2>1, NothingToDo DEF Ends, TransactionType
  <2>4. Range(tx.todo) = {p}
    BY <1>2, <1>5, NothingToDo
  <2>5. TransactionInv'
    BY <1>1, <1>2, <1>5, <2>2, <2>4, NothingToDo
    DEF TransactionInv, TxBooks, TxFresh, TxCanGoBack, TxSeen, Patched, Confirmed
  <2> QED
    BY <1>3, <2>3, <2>5 DEF TxKept
<1>6. CASE Tail(tx.todo) = <<>> /\ ~clean
  <2>1. tx' = RollBack
    BY <1>1, <1>6 DEF RereadPatch, Onward, TransactionType
  <2> QED
    BY <1>1, <2>1, RollBackKeeps
<1> QED
  BY <1>4, <1>5, <1>6

(* Lemma: one file of rollback_patch_set, restored or not.                 *)
LEMMA UndoKeeps ==
    ASSUME TxKept, NEW p \in Path, UndoPatch(p)
    PROVE  TxKept'
<1>1. /\ tx \in TransactionType /\ TransactionInv /\ WorkspaceTypeOK
      /\ tx.pc = "undo" /\ tx.todo # <<>> /\ p = Head(tx.todo)
      /\ UNCHANGED <<foreign, late, edits, kills>>
  BY DEF TxKept, UndoPatch, Turn, Write, NoFileTouched, workspaceVars
<1>2. /\ Tail(tx.todo) \in Seq(Path)
      /\ Range(tx.todo) = {p} \union Range(Tail(tx.todo)) /\ p \in Patched
  BY <1>1, TxFields, TailRange DEF TransactionInv, TxBooks
<1>3. PICK clean \in {tx.clean, FALSE} :
             /\ tx' = [tx EXCEPT !.todo = Tail(@), !.clean = clean]
             /\ Write(p, tx.kept[p]) \/ (~clean /\ NoFileTouched)
  BY DEF UndoPatch
<1>4. /\ tx'.pc = "undo" /\ tx'.todo = Tail(tx.todo) /\ tx'.outcome = tx.outcome
      /\ tx'.order = tx.order /\ tx'.expected = tx.expected /\ tx'.result = tx.result
      /\ tx'.kept = tx.kept /\ tx'.applied = tx.applied /\ tx'.clean = clean
      /\ tx'.before = tx.before /\ tx'.killed = tx.killed
  BY <1>1, <1>3 DEF TransactionType
<1>5. clean \in BOOLEAN /\ (clean => tx.clean)
  BY <1>1, TxFields
<1>6. tx' \in TransactionType
  BY <1>1, <1>2, <1>3, <1>5, Zenon DEF TransactionType
<1>7. CASE Write(p, tx.kept[p])
  <2>1. p \in DOMAIN tx.kept /\ tx.kept[p] = tx.expected[p] /\ tx.kept \in Some(Content)
    BY <1>1, <1>2, TxFields DEF TransactionInv, TxBooks
  <2>2. /\ files \in [Path -> Content] /\ tx.kept[p] \in Content
        /\ files' = [files EXCEPT ![p] = tx.kept[p]]
    <3>1. PICK S \in SUBSET Path : tx.kept \in [S -> Content]
      BY <2>1 DEF Some
    <3> QED
      BY <1>1, <1>7, <2>1, <3>1 DEF WorkspaceTypeOK, Write
  <2>3. WorkspaceTypeOK'
    BY <1>1, <2>2 DEF WorkspaceTypeOK
  <2>4. TransactionInv'
    BY <1>1, <1>2, <1>4, <1>5, <2>1, <2>2
    DEF TransactionInv, TxBooks, TxFresh, TxCanGoBack, TxSeen, Patched, Confirmed
  <2> QED
    BY <1>6, <2>3, <2>4 DEF TxKept
<1>8. CASE ~clean /\ NoFileTouched
  <2>1. UNCHANGED files /\ WorkspaceTypeOK'
    BY <1>1, <1>8 DEF WorkspaceTypeOK, NoFileTouched, workspaceVars
  <2>2. TransactionInv'
    BY <1>1, <1>2, <1>4, <1>8, <2>1
    DEF TransactionInv, TxBooks, TxFresh, TxCanGoBack, TxSeen, Patched, Confirmed
  <2> QED
    BY <1>6, <2>1, <2>2 DEF TxKept
<1> QED
  BY <1>3, <1>7, <1>8

(* Lemma: the end of the rollback.                                         *)
LEMMA UndoneKeeps ==
    ASSUME TxKept, UndoneAll
    PROVE  TxKept'
<1> DEFINE outcome == IF tx.clean THEN "undone" ELSE "broken"
<1>1. /\ tx \in TransactionType /\ TransactionInv /\ WorkspaceTypeOK
      /\ tx.pc = "undo" /\ tx.todo = <<>> /\ tx' = Ends(outcome)
      /\ UNCHANGED <<files, foreign, late, edits, kills>>
  BY DEF TxKept, UndoneAll, NoFileTouched, workspaceVars
<1>2. WorkspaceTypeOK'
  BY <1>1 DEF WorkspaceTypeOK
<1>3. outcome \in {"undone", "broken"} /\ (outcome = "undone" => tx.clean)
  OBVIOUS
<1> HIDE DEF outcome
<1>4. /\ tx'.pc = "report" /\ tx'.todo = <<>> /\ tx'.outcome = outcome
      /\ tx'.order = tx.order /\ tx'.expected = tx.expected /\ tx'.result = tx.result
      /\ tx'.kept = tx.kept /\ tx'.applied = tx.applied /\ tx'.clean = tx.clean
      /\ tx'.before = tx.before /\ tx'.killed = tx.killed
  BY <1>1 DEF Ends, TransactionType
<1>5. tx' \in TransactionType
  BY <1>1, <1>3, NothingToDo DEF Ends, TransactionType
<1>6. TransactionInv'
  BY <1>1, <1>3, <1>4, NothingToDo
  DEF TransactionInv, TxBooks, TxFresh, TxCanGoBack, TxSeen, Patched, Confirmed
<1> QED
  BY <1>2, <1>5, <1>6 DEF TxKept

(* Lemma: the result is recorded and the gate cleared.                     *)
LEMMA ReportKeeps ==
    ASSUME TxKept, ReportPatches
    PROVE  TxKept'
<1>1. /\ tx \in TransactionType /\ TransactionInv /\ WorkspaceTypeOK
      /\ tx.pc = "report" /\ tx' = [tx EXCEPT !.pc = "done"]
      /\ UNCHANGED <<files, foreign, late, edits, kills>>
  BY DEF TxKept, ReportPatches, NoFileTouched, workspaceVars
<1>2. tx' \in TransactionType /\ WorkspaceTypeOK'
  BY <1>1 DEF TransactionType, WorkspaceTypeOK
<1>3. TransactionInv'
  BY <1>1
  DEF TransactionInv, TxBooks, TxFresh, TxCanGoBack, TxSeen, Patched, Confirmed,
      TransactionType
<1> QED
  BY <1>2, <1>3 DEF TxKept

(* Lemma: the process dies, the gate stays.                                *)
LEMMA KillKeeps ==
    ASSUME TxKept, KillTransaction
    PROVE  TxKept'
<1>1. /\ tx \in TransactionType /\ TransactionInv /\ WorkspaceTypeOK
      /\ tx.pc \notin {"none", "gate", "done"}
      /\ tx' = [Ends("none") EXCEPT !.pc = "gate", !.killed = TRUE]
      /\ UNCHANGED <<files, foreign, late, edits>>
      /\ kills < MaxKills /\ kills' = kills + 1
  BY DEF TxKept, KillTransaction, Killed
<1>2. WorkspaceTypeOK'
  BY <1>1, WorkspaceAssumption DEF WorkspaceTypeOK
<1>3. /\ tx'.pc = "gate" /\ tx'.todo = <<>> /\ tx'.outcome = "none"
      /\ tx'.order = tx.order /\ tx'.expected = tx.expected /\ tx'.result = tx.result
      /\ tx'.kept = tx.kept /\ tx'.applied = tx.applied /\ tx'.clean = tx.clean
      /\ tx'.before = tx.before /\ tx'.killed = TRUE
  BY <1>1 DEF Ends, TransactionType
<1>4. tx' \in TransactionType
  BY <1>1, NothingToDo DEF Ends, TransactionType
<1>5. TransactionInv'
  BY <1>1, <1>3, NothingToDo
  DEF TransactionInv, TxBooks, TxFresh, TxCanGoBack, TxSeen, Patched, Confirmed
<1> QED
  BY <1>2, <1>4, <1>5 DEF TxKept

(* Lemma: another hand writes a file under a transaction.                  *)
LEMMA EditKeepsTransaction ==
    ASSUME TxKept, NEW p \in Path, NEW content \in Content, Edit(p, content),
           UNCHANGED tx
    PROVE  TxKept'
<1>1. /\ tx \in TransactionType /\ TransactionInv /\ WorkspaceTypeOK
      /\ files \in [Path -> Content] /\ edits \in 0..MaxEdits /\ edits < MaxEdits
      /\ files' = [files EXCEPT ![p] = content]
      /\ foreign' = foreign \union {p} /\ late' = late \union {p}
      /\ edits' = edits + 1 /\ kills' = kills
  BY DEF TxKept, Edit, WorkspaceTypeOK
<1>2. WorkspaceTypeOK'
  BY <1>1, WorkspaceAssumption DEF WorkspaceTypeOK
<1>3. TransactionInv' /\ tx' \in TransactionType
  BY <1>1, TxFields
  DEF TransactionInv, TxBooks, TxFresh, TxCanGoBack, TxSeen, Patched, Confirmed
<1> QED
  BY <1>2, <1>3 DEF TxKept

-------------------------------------------------------------------------------
(* The steps of a promotion.                                               *)
PrKept == pr \in PromotionType /\ WorkspaceTypeOK /\ PromotionInv

(* What the plan of a promotion is made of.                                *)
LEMMA PrFields ==
    ASSUME PrKept
    PROVE  /\ \A p \in Staged : pr.staged[p] \in Texts
           /\ \A p \in Promoted : pr.expected[p] \in Content
           /\ \A p \in DOMAIN pr.backup : pr.backup[p] \in Texts
           /\ Staged \subseteq Path /\ Promoted \subseteq Path
           /\ DOMAIN pr.backup \subseteq Path
           /\ Changes \subseteq Promoted /\ Replaces \subseteq Promoted
           /\ Deletes \subseteq Promoted
           /\ pr.clean \in BOOLEAN /\ pr.killed \in BOOLEAN
           /\ files \in [Path -> Content] /\ Path # {} /\ Absent \notin Texts
<1>1. /\ pr.staged \in Some(Texts) /\ pr.expected \in Some(Content)
      /\ pr.backup \in Some(Texts) /\ pr.clean \in BOOLEAN /\ pr.killed \in BOOLEAN
  BY DEF PrKept, PromotionType
<1>2. PICK S \in SUBSET Path : pr.staged \in [S -> Texts]
  BY <1>1 DEF Some
<1>3. PICK E \in SUBSET Path : pr.expected \in [E -> Content]
  BY <1>1 DEF Some
<1>4. PICK B \in SUBSET Path : pr.backup \in [B -> Texts]
  BY <1>1 DEF Some
<1>5. 1 \in Path /\ Absent \notin Texts
  BY WorkspaceAssumption DEF Path
<1>6. Staged \subseteq Promoted /\ files \in [Path -> Content]
  BY DEF PrKept, PromotionInv, PrBooks, WorkspaceTypeOK
<1> QED
  BY <1>1, <1>2, <1>3, <1>4, <1>5, <1>6
  DEF Staged, Promoted, Changes, Replaces, Deletes

(* Lemma: a proposal, which reads its hashes off the files (prepare).      *)
LEMMA StageKeeps ==
    ASSUME PrKept, NEW staged \in Some(Texts), NEW mirror \in BOOLEAN,
           Stage(staged, mirror)
    PROVE  PrKept'
<1> DEFINE deletes  == {p \in Path \ DOMAIN staged : mirror /\ files[p] # Absent}
           expected == [p \in DOMAIN staged \union deletes |-> files[p]]
<1>1. /\ pr.pc = "none" /\ UNCHANGED workspaceVars
      /\ pr' = [pr EXCEPT !.pc = "gate", !.staged = staged, !.archive = TRUE,
                          !.expected = expected]
  BY DEF Stage, NoFileTouched
<1>2. pr = NoPromotion /\ WorkspaceTypeOK /\ WorkspaceTypeOK'
  BY <1>1 DEF PrKept, PromotionInv, PrBooks, workspaceVars, WorkspaceTypeOK
<1>3. PICK S \in SUBSET Path : staged \in [S -> Texts]
  BY DEF Some
<1>4. S \union deletes \in SUBSET Path /\ expected \in [S \union deletes -> Content]
  BY <1>2, <1>3 DEF WorkspaceTypeOK
<1>5. expected \in Some(Content) /\ DOMAIN expected = DOMAIN staged \union deletes
  BY <1>4, AllSaid
<1>6. \A p \in DOMAIN expected \ DOMAIN staged : expected[p] # Absent
  OBVIOUS
<1> HIDE DEF expected, deletes
<1>7. /\ pr'.pc = "gate" /\ pr'.staged = staged /\ pr'.expected = expected
      /\ pr'.archive = TRUE /\ pr'.todo = {} /\ pr'.created = {}
      /\ pr'.backup = Nothing /\ pr'.clean = TRUE /\ pr'.outcome = "none"
      /\ pr'.before = Nothing /\ pr'.killed = FALSE
  BY <1>1, <1>2 DEF NoPromotion
<1>8. pr' \in PromotionType
  BY <1>1, <1>5 DEF PrKept, PromotionType
<1>9. 1 \in Path
  BY WorkspaceAssumption DEF Path
<1>10. PromotionInv'
  BY <1>5, <1>6, <1>7, <1>9, NothingSaid
  DEF PromotionInv, PrBooks, PrFresh, PrCanGoBack, PrSeen, Confirmed, Staged,
      Promoted, Deletes, Moving, Undoing, Over
<1> QED
  BY <1>2, <1>8, <1>10 DEF PrKept

(* Lemma: the steps that only concern the archive and the gate.            *)
LEMMA ExpiresKeeps ==
    ASSUME PrKept, ArchiveExpires \/ RejectPromotion \/ ReportPromotion \/ UnlinkStaged
    PROVE  PrKept'
<1>1. /\ pr \in PromotionType /\ PromotionInv /\ WorkspaceTypeOK
      /\ UNCHANGED <<files, foreign, late, edits, kills>>
      /\ \/ pr.pc = "gate" /\ pr' = [pr EXCEPT !.archive = FALSE]
         \/ pr.pc = "gate" /\ pr' = [pr EXCEPT !.pc = "done", !.archive = FALSE]
         \/ pr.pc = "report" /\ pr' = [pr EXCEPT !.pc = "done"]
         \/ pr.pc = "unlink" /\ pr' = [pr EXCEPT !.pc = "report", !.archive = FALSE]
  BY DEF PrKept, ArchiveExpires, RejectPromotion, ReportPromotion, UnlinkStaged,
         NoFileTouched, workspaceVars
<1>2. pr' \in PromotionType /\ WorkspaceTypeOK'
  BY <1>1, ZenonT(240) DEF PromotionType, WorkspaceTypeOK
<1>3. /\ pr'.staged = pr.staged /\ pr'.expected = pr.expected
      /\ pr'.todo = pr.todo /\ pr'.created = pr.created
      /\ pr'.backup = pr.backup /\ pr'.clean = pr.clean /\ pr'.outcome = pr.outcome
      /\ pr'.before = pr.before /\ pr'.killed = pr.killed
      /\ \/ pr.pc = "gate" /\ pr'.pc \in {"gate", "done"}
         \/ pr.pc \in {"report", "unlink"} /\ pr'.pc \in {"report", "done"}
  BY <1>1, ZenonT(240) DEF PromotionType
<1>4. PromotionInv'
  BY <1>1, <1>3
  DEF PromotionInv, PrBooks, PrFresh, PrCanGoBack, PrSeen, Confirmed, Staged,
      Promoted, Deletes, Changes, Replaces, Goal, Moving, Undoing, Over
<1> QED
  BY <1>2, <1>4 DEF PrKept

(* Lemma: the user's yes, with the archive or without.                     *)
LEMMA ConfirmPromotionKeeps ==
    ASSUME PrKept, ConfirmPromotion
    PROVE  PrKept'
<1>1. /\ pr \in PromotionType /\ PromotionInv /\ WorkspaceTypeOK /\ pr.pc = "gate"
      /\ UNCHANGED <<files, edits, kills>>
      /\ IF pr.killed THEN foreign' = foreign /\ late' = late
                      ELSE foreign' = {} /\ late' = {}
  BY DEF PrKept, ConfirmPromotion, NoFileTouched, HistoryBegins, workspaceVars
<1>2. files \in [Path -> Content] /\ Path \in SUBSET Path
  BY <1>1 DEF WorkspaceTypeOK
<1>3. files \in Some(Content)
  BY <1>2, AllSaid
<1>4. WorkspaceTypeOK'
  BY <1>1 DEF WorkspaceTypeOK
<1>5. /\ pr'.staged = pr.staged /\ pr'.expected = pr.expected
      /\ pr'.created = {} /\ pr'.backup = Nothing /\ pr'.killed = pr.killed
      /\ pr'.before = IF pr.killed THEN pr.before ELSE files
      /\ \/ /\ pr'.pc = "check" /\ pr'.todo = Promoted /\ pr'.clean = TRUE
            /\ pr'.outcome = pr.outcome
         \/ /\ pr'.pc = "unlink" /\ pr'.todo = {} /\ pr'.clean = pr.clean
            /\ pr'.outcome = "failed"
  BY <1>1 DEF ConfirmPromotion, PrGoesTo, PrEnds, PromotionType, Promoted
<1>6. pr.before \in Some(Content) /\ Promoted \in SUBSET Path
  BY <1>1, PrFields DEF PromotionType
<1>7. pr' \in PromotionType
  BY <1>1, <1>3, <1>6, NothingSaid, ZenonT(240)
  DEF ConfirmPromotion, PrGoesTo, PrEnds, PromotionType, Promoted
<1>8. Confirmed(pr)'
  BY <1>1, <1>2, <1>5 DEF PromotionInv, PrBooks, Confirmed
<1>9. PromotionInv'
  BY <1>1, <1>5, <1>8, NothingSaid
  DEF PromotionInv, PrBooks, PrFresh, PrCanGoBack, PrSeen, Confirmed, Staged,
      Promoted, Deletes, Changes, Replaces, Goal, Moving, Undoing, Over
<1> QED
  BY <1>4, <1>7, <1>9 DEF PrKept

(* Lemma: one file is as expected, or the promotion stops here.            *)
LEMMA CheckFileKeeps ==
    ASSUME PrKept, NEW p \in Path, CheckFile(p)
    PROVE  PrKept'
<1>1. /\ pr \in PromotionType /\ PromotionInv /\ WorkspaceTypeOK
      /\ pr.pc = "check" /\ p \in pr.todo
      /\ late' = late \ {p} /\ UNCHANGED <<files, foreign, edits, kills>>
  BY DEF PrKept, CheckFile, PrTurn, Reads
<1>2. WorkspaceTypeOK'
  BY <1>1 DEF WorkspaceTypeOK
<1>3. CASE files[p] = pr.expected[p]
  <2>1. pr' = [pr EXCEPT !.todo = @ \ {p}]
    BY <1>3 DEF CheckFile, PrDone
  <2>2. pr' \in PromotionType
    BY <1>1, <2>1 DEF PromotionType
  <2>3. /\ pr'.pc = "check" /\ pr'.staged = pr.staged /\ pr'.expected = pr.expected
        /\ pr'.todo = pr.todo \ {p} /\ pr'.created = pr.created
        /\ pr'.backup = pr.backup /\ pr'.clean = pr.clean /\ pr'.outcome = pr.outcome
        /\ pr'.before = pr.before /\ pr'.killed = pr.killed
    BY <1>1, <2>1 DEF PromotionType
  <2>4. PromotionInv'
    BY <1>1, <1>3, <2>3
    DEF PromotionInv, PrBooks, PrFresh, PrCanGoBack, PrSeen, Confirmed, Staged,
        Promoted, Deletes, Changes, Replaces, Goal, Moving, Undoing, Over
  <2> QED
    BY <1>2, <2>2, <2>4 DEF PrKept
<1>4. CASE files[p] # pr.expected[p]
  <2>1. pr' = [pr EXCEPT !.pc = "unlink", !.todo = {}, !.outcome = "failed"]
    BY <1>4 DEF CheckFile, PrEnds
  <2>2. pr' \in PromotionType
    BY <1>1, <2>1 DEF PromotionType
  <2>3. /\ pr'.pc = "unlink" /\ pr'.staged = pr.staged /\ pr'.expected = pr.expected
        /\ pr'.todo = {} /\ pr'.created = pr.created
        /\ pr'.backup = pr.backup /\ pr'.clean = pr.clean /\ pr'.outcome = "failed"
        /\ pr'.before = pr.before /\ pr'.killed = pr.killed
    BY <1>1, <2>1 DEF PromotionType
  <2>4. PromotionInv'
    BY <1>1, <2>3
    DEF PromotionInv, PrBooks, PrFresh, PrCanGoBack, PrSeen, Confirmed, Staged,
        Promoted, Deletes, Changes, Replaces, Goal, Moving, Undoing, Over
  <2> QED
    BY <1>2, <2>2, <2>4 DEF PrKept
<1> QED
  BY <1>3, <1>4

(* The next phase begins with what the one before has left.                *)
LEMMA PhaseKeeps ==
    ASSUME PrKept, NextPhase
    PROVE  PrKept'
<1>1. /\ pr \in PromotionType /\ PromotionInv /\ WorkspaceTypeOK /\ pr.todo = {}
      /\ UNCHANGED <<files, foreign, late, edits, kills>>
  BY DEF PrKept, NextPhase, PrAtEnd, NoFileTouched, workspaceVars
<1>2. WorkspaceTypeOK'
  BY <1>1 DEF WorkspaceTypeOK
<1>3. /\ Replaces \union Deletes \subseteq Path /\ Changes \subseteq Path
      /\ Deletes \subseteq Path /\ Staged \union Deletes = Promoted
      /\ DOMAIN pr.backup \subseteq Path /\ Promoted \subseteq Path
      /\ Replaces \subseteq Promoted /\ Deletes \subseteq Promoted
      /\ Changes \subseteq Promoted
  BY <1>1, PrFields DEF PromotionInv, PrBooks, Staged, Promoted, Deletes
<1>4. ASSUME NEW pc, NEW todo \in SUBSET Path, pr' = PrGoesTo(pc, todo),
             \/ pr.pc = "check" /\ pc = "backup" /\ todo = Replaces \union Deletes
             \/ pr.pc = "backup" /\ pc = "write" /\ todo = Changes
             \/ pr.pc = "write" /\ pc = "remove" /\ todo = Deletes
             \/ pr.pc = "remove" /\ pc = "verify" /\ todo = Promoted
      PROVE  PrKept'
  <2>1. pr' \in PromotionType
    BY <1>1, <1>4 DEF PromotionType, PrGoesTo
  <2>2. /\ pr'.pc = pc /\ pr'.staged = pr.staged /\ pr'.expected = pr.expected
        /\ pr'.todo = todo /\ pr'.created = pr.created
        /\ pr'.backup = pr.backup /\ pr'.clean = TRUE /\ pr'.outcome = pr.outcome
        /\ pr'.before = pr.before /\ pr'.killed = pr.killed
    BY <1>1, <1>4 DEF PromotionType, PrGoesTo
  <2>3. /\ Staged' = Staged /\ Promoted' = Promoted /\ Deletes' = Deletes
        /\ Changes' = Changes /\ Replaces' = Replaces
    BY <2>2 DEF Staged, Promoted, Deletes, Changes, Replaces
  <2>4. PrBooks'
    BY <1>1, <1>3, <1>4, <2>2, <2>3 DEF PromotionInv, PrBooks, Confirmed, Over
  <2>5. PrFresh'
    BY <1>1, <1>3, <1>4, <2>2, <2>3
    DEF PromotionInv, PrBooks, PrFresh, Goal, Moving, Undoing
  <2>6. PrCanGoBack'
    <3>1. Confirmed(pr) /\ pr.outcome = "none"
      BY <1>1, <1>4 DEF PromotionInv, PrBooks, Over
    <3>2. \A p \in Promoted \ foreign : pr.expected[p] = pr.before[p]
      BY <1>1, <1>3, <1>4, <3>1 DEF PromotionInv, PrFresh, PrCanGoBack, Moving
    <3>3. \A p \in (Replaces \union Deletes) \ foreign :
             pc \in Moving => p \in DOMAIN pr.backup
      BY <1>1, <1>4 DEF PromotionInv, PrCanGoBack, Moving
    <3>4. \A p \in Path \ foreign : Goal(p)' = Goal(p)
      BY <2>2 DEF Goal, Staged
    <3> QED
      BY <1>1, <1>3, <1>4, <2>2, <2>3, <3>1, <3>2, <3>3, <3>4
      DEF PromotionInv, PrCanGoBack, Confirmed, Moving, Undoing, Over
  <2>7. PrSeen'
    BY <1>1, <1>4, <2>2, <2>3 DEF PrSeen, Over
  <2> QED
    BY <1>2, <2>1, <2>4, <2>5, <2>6, <2>7 DEF PrKept, PromotionInv
<1>5. CASE pr.pc = "uncreate" /\ pr' = [pr EXCEPT !.pc = "restore", !.todo = DOMAIN pr.backup]
  <2>1. pr' \in PromotionType
    BY <1>1, <1>3, <1>5 DEF PromotionType
  <2>2. /\ pr'.pc = "restore" /\ pr'.staged = pr.staged /\ pr'.expected = pr.expected
        /\ pr'.todo = DOMAIN pr.backup /\ pr'.created = pr.created
        /\ pr'.backup = pr.backup /\ pr'.clean = pr.clean /\ pr'.outcome = pr.outcome
        /\ pr'.before = pr.before /\ pr'.killed = pr.killed
    BY <1>1, <1>5 DEF PromotionType
  <2>3. /\ Staged' = Staged /\ Promoted' = Promoted /\ Deletes' = Deletes
        /\ Changes' = Changes /\ Replaces' = Replaces
    BY <2>2 DEF Staged, Promoted, Deletes, Changes, Replaces
  <2>4. PromotionInv'
    BY <1>1, <1>3, <1>5, <2>2, <2>3
    DEF PromotionInv, PrBooks, PrFresh, PrCanGoBack, PrSeen, Confirmed, Goal, Moving,
        Undoing, Over
  <2> QED
    BY <1>2, <2>1, <2>4 DEF PrKept
<1>6. ASSUME NEW outcome \in {"success", "failed", "broken"}, pr' = PrEnds(outcome),
             \/ pr.pc = "verify" /\ outcome = "success"
             \/ pr.pc = "restore" /\ (outcome = "failed" => pr.clean) /\ outcome # "success"
      PROVE  PrKept'
  <2>1. pr' \in PromotionType
    BY <1>1, <1>6 DEF PromotionType, PrEnds
  <2>2. /\ pr'.pc = "unlink" /\ pr'.staged = pr.staged /\ pr'.expected = pr.expected
        /\ pr'.todo = {} /\ pr'.created = pr.created
        /\ pr'.backup = pr.backup /\ pr'.clean = pr.clean /\ pr'.outcome = outcome
        /\ pr'.before = pr.before /\ pr'.killed = pr.killed
    BY <1>1, <1>6 DEF PromotionType, PrEnds
  <2>3. /\ Staged' = Staged /\ Promoted' = Promoted /\ Deletes' = Deletes
        /\ Changes' = Changes /\ Replaces' = Replaces
    BY <2>2 DEF Staged, Promoted, Deletes, Changes, Replaces
  <2>4. PromotionInv'
    BY <1>1, <1>3, <1>6, <2>2, <2>3
    DEF PromotionInv, PrBooks, PrFresh, PrCanGoBack, PrSeen, Confirmed, Goal, Moving,
        Undoing, Over
  <2> QED
    BY <1>2, <2>1, <2>4 DEF PrKept
<1>7. CASE PrAtEnd("restore") /\ pr' = PrEnds(IF pr.clean THEN "failed" ELSE "broken")
  <2> DEFINE outcome == IF pr.clean THEN "failed" ELSE "broken"
  <2>1. /\ outcome \in {"failed", "broken"} /\ (outcome = "failed" => pr.clean)
        /\ pr' = PrEnds(outcome) /\ pr.pc = "restore"
    BY <1>7 DEF PrAtEnd
  <2> QED
    BY <1>6, <2>1
<1> QED
  BY <1>3, <1>4, <1>5, <1>6, <1>7 DEF NextPhase, PrAtEnd

(* Lemma: one file backed up, unless it has gone.                          *)
LEMMA BackUpKeeps ==
    ASSUME PrKept, NEW p \in Path, BackUp(p)
    PROVE  PrKept'
<1>1. /\ pr \in PromotionType /\ PromotionInv /\ WorkspaceTypeOK
      /\ pr.pc = "backup" /\ p \in pr.todo
      /\ UNCHANGED <<files, foreign, late, edits, kills>>
  BY DEF PrKept, BackUp, PrTurn, NoFileTouched, workspaceVars
<1>2. WorkspaceTypeOK'
  BY <1>1 DEF WorkspaceTypeOK
<1>3. p \in Replaces \union Deletes /\ p \in Promoted /\ pr.expected[p] # Absent
  BY <1>1, PrFields DEF PromotionInv, PrBooks, Replaces
<1>4. ASSUME NEW backup \in Some(Texts), pr' = [pr EXCEPT !.todo = @ \ {p}, !.backup = backup],
             \/ backup = pr.backup /\ files[p] = Absent
             \/ /\ DOMAIN backup = DOMAIN pr.backup \union {p}
                /\ \A q \in DOMAIN backup :
                       backup[q] = IF q = p THEN files[p] ELSE pr.backup[q]
      PROVE  PrKept'
  <2>1. pr' \in PromotionType
    BY <1>1, <1>4 DEF PromotionType
  <2>2. /\ pr'.pc = "backup" /\ pr'.staged = pr.staged /\ pr'.expected = pr.expected
        /\ pr'.todo = pr.todo \ {p} /\ pr'.created = pr.created
        /\ pr'.backup = backup /\ pr'.clean = pr.clean /\ pr'.outcome = pr.outcome
        /\ pr'.before = pr.before /\ pr'.killed = pr.killed
    BY <1>1, <1>4 DEF PromotionType
  <2>3. /\ Staged' = Staged /\ Promoted' = Promoted /\ Deletes' = Deletes
        /\ Changes' = Changes /\ Replaces' = Replaces
    BY <2>2 DEF Staged, Promoted, Deletes, Changes, Replaces
  <2>4. PromotionInv'
    BY <1>1, <1>3, <1>4, <2>2, <2>3
    DEF PromotionInv, PrBooks, PrFresh, PrCanGoBack, PrSeen, Confirmed, Goal, Moving,
        Undoing, Over
  <2> QED
    BY <1>2, <2>1, <2>4 DEF PrKept
<1>5. CASE files[p] = Absent
  <2>1. pr' = [pr EXCEPT !.todo = @ \ {p}, !.backup = pr.backup] /\ pr.backup \in Some(Texts)
    BY <1>1, <1>5 DEF BackUp, PrDone, PromotionType
  <2> QED
    BY <1>4, <1>5, <2>1
<1>6. CASE files[p] # Absent
  <2> DEFINE backup == Also(pr.backup, p, files[p])
  <2>1. pr' = [pr EXCEPT !.todo = @ \ {p}, !.backup = backup]
    BY <1>1, <1>6 DEF BackUp, PrDone, PromotionType
  <2>2. files[p] \in Texts /\ pr.backup \in Some(Texts)
    BY <1>1, <1>6, PrFields DEF Content, PromotionType
  <2>3. backup \in Some(Texts)
    BY <2>2, SaidOfTexts
  <2>4. /\ DOMAIN backup = DOMAIN pr.backup \union {p}
        /\ \A q \in DOMAIN backup :
               backup[q] = IF q = p THEN files[p] ELSE pr.backup[q]
    BY DEF Also
  <2> HIDE DEF backup
  <2> QED
    BY <1>4, <2>1, <2>3, <2>4
<1> QED
  BY <1>5, <1>6

(* What a staged write finds: if no other hand wrote the file, it was not  *)
(* there before either, or it has been backed up.                          *)
LEMMA CreatedFacts ==
    ASSUME PrKept, NEW p \in Path, pr.pc = "write", p \in pr.todo
    PROVE  /\ Created(p) \subseteq Promoted /\ pr.created \subseteq Created(p)
           /\ Created(p) \subseteq pr.created \union {p}
           /\ p \in Staged /\ p \in Promoted /\ p \in Changes /\ pr.staged[p] \in Texts
           /\ p \in Created(p) \ foreign => pr.expected[p] = Absent
           /\ p \notin foreign /\ ~pr.killed => p \in Created(p) \union DOMAIN pr.backup
<1>1. p \in Changes /\ p \in Staged /\ p \in Promoted /\ pr.staged[p] \in Texts
  BY PrFields DEF PrKept, PromotionInv, PrBooks, Changes
<1>2. PrBooks /\ PrFresh /\ PrCanGoBack
  BY DEF PrKept, PromotionInv
<1>3. Created(p) = pr.created \union (IF files[p] = Absent THEN {p} ELSE {})
  BY DEF Created
<1>4. ASSUME p \in Created(p) \ foreign
      PROVE  pr.expected[p] = Absent
  <2>1. CASE p \in pr.created
    BY <1>1, <1>2, <1>4, <2>1 DEF PrFresh, Moving
  <2>2. CASE files[p] = Absent
    BY <1>1, <1>2, <1>4, <2>2, PrFields DEF PrFresh, Moving, Goal
  <2> QED
    BY <1>3, <1>4, <2>1, <2>2
<1>5. ASSUME p \notin foreign, ~pr.killed, p \notin Created(p)
      PROVE  p \in DOMAIN pr.backup
  <2>1. files[p] # Absent /\ p \notin pr.created
    BY <1>3, <1>5
  <2>2. CASE pr.expected[p] # Absent
    BY <1>1, <1>2, <1>5, <2>2 DEF PrCanGoBack, Replaces, Moving
  <2>3. CASE pr.expected[p] = Absent
    BY <1>1, <1>2, <1>5, <2>1, <2>3, PrFields DEF PrBooks, PrCanGoBack, Moving
  <2> QED
    BY <2>2, <2>3
<1> QED
  BY <1>1, <1>2, <1>3, <1>4, <1>5 DEF PrBooks

(* Lemma: one staged file written.                                         *)
LEMMA WriteKeeps ==
    ASSUME PrKept, NEW p \in Path, WriteStaged(p)
    PROVE  PrKept'
<1>1. /\ pr \in PromotionType /\ PromotionInv /\ WorkspaceTypeOK
      /\ pr.pc = "write" /\ p \in pr.todo
      /\ files' = [files EXCEPT ![p] = pr.staged[p]]
      /\ UNCHANGED <<foreign, late, edits, kills>>
      /\ pr' = [pr EXCEPT !.todo = @ \ {p}, !.created = Created(p)]
  BY DEF PrKept, WriteStaged, PrTurn, Write, PrDone
<1>2. /\ Created(p) \subseteq Promoted /\ pr.created \subseteq Created(p)
      /\ Created(p) \subseteq pr.created \union {p}
      /\ p \in Staged /\ p \in Promoted /\ p \in Changes /\ pr.staged[p] \in Texts
      /\ p \in Created(p) \ foreign => pr.expected[p] = Absent
      /\ p \notin foreign /\ ~pr.killed => p \in Created(p) \union DOMAIN pr.backup
  BY <1>1, CreatedFacts
<1>3. files \in [Path -> Content] /\ Promoted \subseteq Path
  BY PrFields
<1>4. WorkspaceTypeOK'
  BY <1>1, <1>2, <1>3 DEF WorkspaceTypeOK, Content
<1>5. pr' \in PromotionType
  BY <1>1, <1>2, <1>3 DEF PromotionType
<1>6. /\ pr'.pc = "write" /\ pr'.staged = pr.staged /\ pr'.expected = pr.expected
      /\ pr'.todo = pr.todo \ {p} /\ pr'.created = Created(p)
      /\ pr'.backup = pr.backup /\ pr'.clean = pr.clean /\ pr'.outcome = pr.outcome
      /\ pr'.before = pr.before /\ pr'.killed = pr.killed
  BY <1>1 DEF PromotionType
<1>7. /\ Staged' = Staged /\ Promoted' = Promoted /\ Deletes' = Deletes
      /\ Changes' = Changes /\ Replaces' = Replaces
  BY <1>6 DEF Staged, Promoted, Deletes, Changes, Replaces
<1>8. PromotionInv'
  BY <1>1, <1>2, <1>3, <1>6, <1>7
  DEF PromotionInv, PrBooks, PrFresh, PrCanGoBack, PrSeen, Confirmed, Goal, Moving,
      Undoing, Over
<1> QED
  BY <1>4, <1>5, <1>8 DEF PrKept

(* Lemma: one file removed.                                                *)
LEMMA RemoveKeeps ==
    ASSUME PrKept, NEW p \in Path, RemoveFile(p)
    PROVE  PrKept'
<1>1. /\ pr \in PromotionType /\ PromotionInv /\ WorkspaceTypeOK
      /\ pr.pc = "remove" /\ p \in pr.todo
      /\ files' = [files EXCEPT ![p] = Absent]
      /\ UNCHANGED <<foreign, late, edits, kills>>
      /\ pr' = [pr EXCEPT !.todo = @ \ {p}]
  BY DEF PrKept, RemoveFile, PrTurn, Write, PrDone
<1>2. p \in Deletes /\ p \in Promoted /\ p \notin Staged
  BY <1>1 DEF PromotionInv, PrBooks, Deletes, Promoted
<1>3. files \in [Path -> Content] /\ Promoted \subseteq Path
  BY PrFields
<1>4. WorkspaceTypeOK'
  BY <1>1, <1>3 DEF WorkspaceTypeOK, Content
<1>5. pr' \in PromotionType
  BY <1>1 DEF PromotionType
<1>6. /\ pr'.pc = "remove" /\ pr'.staged = pr.staged /\ pr'.expected = pr.expected
      /\ pr'.todo = pr.todo \ {p} /\ pr'.created = pr.created
      /\ pr'.backup = pr.backup /\ pr'.clean = pr.clean /\ pr'.outcome = pr.outcome
      /\ pr'.before = pr.before /\ pr'.killed = pr.killed
  BY <1>1 DEF PromotionType
<1>7. /\ Staged' = Staged /\ Promoted' = Promoted /\ Deletes' = Deletes
      /\ Changes' = Changes /\ Replaces' = Replaces
  BY <1>6 DEF Staged, Promoted, Deletes, Changes, Replaces
<1>8. PromotionInv'
  BY <1>1, <1>2, <1>3, <1>6, <1>7
  DEF PromotionInv, PrBooks, PrFresh, PrCanGoBack, PrSeen, Confirmed, Goal, Moving,
      Undoing, Over
<1> QED
  BY <1>4, <1>5, <1>8 DEF PrKept

(* Unwinding can begin anywhere after the check.                           *)
LEMMA UnwindKeeps ==
    ASSUME PrKept, pr.pc \in {"backup", "write", "remove", "verify"},
           NEW created \in SUBSET Promoted, pr.created \subseteq created,
           \A p \in created \ foreign : pr.expected[p] = Absent,
           pr' = Unwind(created),
           late' \subseteq late, UNCHANGED <<files, foreign, edits, kills>>
    PROVE  PrKept'
<1>1. /\ pr \in PromotionType /\ PromotionInv /\ WorkspaceTypeOK
      /\ pr' = [pr EXCEPT !.pc = "uncreate", !.todo = created, !.clean = TRUE,
                          !.created = created]
  BY DEF PrKept, Unwind, PrGoesTo
<1>2. Promoted \subseteq Path
  BY PrFields
<1>3. WorkspaceTypeOK'
  BY <1>1 DEF WorkspaceTypeOK
<1>4. pr' \in PromotionType
  BY <1>1, <1>2, ZenonT(240) DEF PromotionType
<1>5. /\ pr'.pc = "uncreate" /\ pr'.staged = pr.staged /\ pr'.expected = pr.expected
      /\ pr'.todo = created /\ pr'.created = created
      /\ pr'.backup = pr.backup /\ pr'.clean = TRUE /\ pr'.outcome = pr.outcome
      /\ pr'.before = pr.before /\ pr'.killed = pr.killed
  BY <1>1 DEF PromotionType
<1>6. /\ Staged' = Staged /\ Promoted' = Promoted /\ Deletes' = Deletes
      /\ Changes' = Changes /\ Replaces' = Replaces
  BY <1>5 DEF Staged, Promoted, Deletes, Changes, Replaces
<1>7. PromotionInv'
  BY <1>1, <1>2, <1>5, <1>6
  DEF PromotionInv, PrBooks, PrFresh, PrCanGoBack, PrSeen, Confirmed, Goal, Moving,
      Undoing, Over
<1> QED
  BY <1>3, <1>4, <1>7 DEF PrKept

(* Lemma: a backup, a write or a removal that fails.                       *)
LEMMA StepFailsKeeps ==
    ASSUME PrKept, NEW p \in Path, StepFails(p)
    PROVE  PrKept'
<1>1. UNCHANGED <<files, foreign, late, edits, kills>>
  BY DEF StepFails, NoFileTouched, workspaceVars
<1>2. CASE PrTurn("write", p) /\ pr' = Unwind(Created(p))
  <2>1. pr.pc = "write" /\ p \in pr.todo
    BY <1>2 DEF PrTurn
  <2>2. /\ Created(p) \subseteq Promoted /\ pr.created \subseteq Created(p)
        /\ Created(p) \subseteq pr.created \union {p}
        /\ p \in Created(p) \ foreign => pr.expected[p] = Absent
    BY <2>1, CreatedFacts
  <2>3. \A q \in pr.created \ foreign : q \in Promoted /\ pr.expected[q] = Absent
    BY <2>1 DEF PrKept, PromotionInv, PrBooks, PrFresh, Moving
  <2>4. \A q \in Created(p) \ foreign : pr.expected[q] = Absent
    BY <2>2, <2>3
  <2> QED
    BY <1>1, <1>2, <2>1, <2>2, <2>4, UnwindKeeps
<1>3. CASE \E pc \in {"backup", "write", "remove"} :
               PrTurn(pc, p) /\ pr' = Unwind(pr.created)
  <2>1. pr.pc \in {"backup", "write", "remove"} /\ pr' = Unwind(pr.created)
    BY <1>3 DEF PrTurn
  <2>2. \A q \in pr.created \ foreign : pr.expected[q] = Absent
    BY <2>1 DEF PrKept, PromotionInv, PrBooks, PrFresh, Moving
  <2>3. pr.created \subseteq Promoted
    BY DEF PrKept, PromotionInv, PrBooks
  <2> QED
    BY <1>1, <2>1, <2>2, <2>3, UnwindKeeps
<1> QED
  BY <1>2, <1>3 DEF StepFails

(* Lemma: one file of the exact verification.                              *)
LEMMA VerifyFileKeeps ==
    ASSUME PrKept, NEW p \in Path, VerifyFile(p)
    PROVE  PrKept'
<1>1. /\ pr \in PromotionType /\ PromotionInv /\ WorkspaceTypeOK
      /\ pr.pc = "verify" /\ p \in pr.todo
      /\ late' = late \ {p} /\ UNCHANGED <<files, foreign, edits, kills>>
      /\ pr' = IF files[p] = Goal(p) THEN PrDone(p) ELSE Unwind(pr.created)
  BY DEF PrKept, VerifyFile, PrTurn, Reads, Goal
<1>2. WorkspaceTypeOK'
  BY <1>1 DEF WorkspaceTypeOK
<1>3. CASE files[p] = Goal(p)
  <2>1. pr' = [pr EXCEPT !.todo = @ \ {p}]
    BY <1>1, <1>3 DEF PrDone
  <2>2. pr' \in PromotionType
    BY <1>1, <2>1 DEF PromotionType
  <2>3. /\ pr'.pc = "verify" /\ pr'.staged = pr.staged /\ pr'.expected = pr.expected
        /\ pr'.todo = pr.todo \ {p} /\ pr'.created = pr.created
        /\ pr'.backup = pr.backup /\ pr'.clean = pr.clean /\ pr'.outcome = pr.outcome
        /\ pr'.before = pr.before /\ pr'.killed = pr.killed
    BY <1>1, <2>1 DEF PromotionType
  <2>4. /\ Staged' = Staged /\ Promoted' = Promoted /\ Deletes' = Deletes
        /\ Changes' = Changes /\ Replaces' = Replaces
    BY <2>3 DEF Staged, Promoted, Deletes, Changes, Replaces
  <2>5. PromotionInv'
    BY <1>1, <1>3, <2>3, <2>4
    DEF PromotionInv, PrBooks, PrFresh, PrCanGoBack, PrSeen, Confirmed, Goal, Moving,
        Undoing, Over
  <2> QED
    BY <1>2, <2>2, <2>5 DEF PrKept
<1>4. CASE files[p] # Goal(p)
  <2>1. \A q \in pr.created \ foreign : pr.expected[q] = Absent
    BY <1>1 DEF PromotionInv, PrBooks, PrFresh, Moving
  <2>2. pr.created \subseteq Promoted
    BY <1>1 DEF PromotionInv, PrBooks
  <2> QED
    BY <1>1, <1>4, <2>1, <2>2, UnwindKeeps
<1> QED
  BY <1>3, <1>4

(* Lemma: one created file removed again, or not.                          *)
LEMMA UncreateKeeps ==
    ASSUME PrKept, NEW p \in Path, UncreateFile(p)
    PROVE  PrKept'
<1>1. /\ pr \in PromotionType /\ PromotionInv /\ WorkspaceTypeOK
      /\ pr.pc = "uncreate" /\ p \in pr.todo /\ p \in pr.created
      /\ UNCHANGED <<foreign, late, edits, kills>>
      /\ \/ /\ files' = [files EXCEPT ![p] = Absent]
            /\ pr' = [pr EXCEPT !.todo = @ \ {p}]
         \/ /\ files' = files
            /\ pr' = [pr EXCEPT !.todo = @ \ {p}, !.clean = FALSE]
  BY DEF PrKept, UncreateFile, PutBack, PrTurn, Write, PrDone, NoFileTouched,
         workspaceVars, PromotionInv, PrBooks
<1>2. /\ p \in Promoted /\ (p \notin foreign => pr.expected[p] = Absent)
      /\ files \in [Path -> Content] /\ Promoted \subseteq Path
  BY <1>1, PrFields DEF PromotionInv, PrBooks, PrFresh, Undoing
<1>3. WorkspaceTypeOK'
  BY <1>1, <1>2 DEF WorkspaceTypeOK, Content
<1>4. pr' \in PromotionType
  BY <1>1, ZenonT(240) DEF PromotionType
<1>5. /\ pr'.pc = "uncreate" /\ pr'.staged = pr.staged /\ pr'.expected = pr.expected
      /\ pr'.todo = pr.todo \ {p} /\ pr'.created = pr.created
      /\ pr'.backup = pr.backup /\ pr'.outcome = pr.outcome
      /\ pr'.before = pr.before /\ pr'.killed = pr.killed
      /\ \/ files' = [files EXCEPT ![p] = Absent] /\ pr'.clean = pr.clean
         \/ files' = files /\ pr'.clean = FALSE
  BY <1>1, ZenonT(240) DEF PromotionType
<1>6. /\ Staged' = Staged /\ Promoted' = Promoted /\ Deletes' = Deletes
      /\ Changes' = Changes /\ Replaces' = Replaces
  BY <1>5 DEF Staged, Promoted, Deletes, Changes, Replaces
<1>7. PromotionInv'
  BY <1>1, <1>2, <1>5, <1>6
  DEF PromotionInv, PrBooks, PrFresh, PrCanGoBack, PrSeen, Confirmed, Goal, Moving,
      Undoing, Over
<1> QED
  BY <1>3, <1>4, <1>7 DEF PrKept

(* Lemma: one backed up file restored, or not.                             *)
LEMMA RestoreKeeps ==
    ASSUME PrKept, NEW p \in Path, RestoreFile(p)
    PROVE  PrKept'
<1>1. /\ pr \in PromotionType /\ PromotionInv /\ WorkspaceTypeOK
      /\ pr.pc = "restore" /\ p \in pr.todo /\ p \in DOMAIN pr.backup
      /\ UNCHANGED <<foreign, late, edits, kills>>
      /\ \/ /\ files' = [files EXCEPT ![p] = pr.backup[p]]
            /\ pr' = [pr EXCEPT !.todo = @ \ {p}]
         \/ /\ files' = files
            /\ pr' = [pr EXCEPT !.todo = @ \ {p}, !.clean = FALSE]
  BY DEF PrKept, RestoreFile, PutBack, PrTurn, Write, PrDone, NoFileTouched,
         workspaceVars, PromotionInv, PrBooks
<1>2. /\ p \in Promoted /\ (p \notin foreign => pr.backup[p] = pr.expected[p])
      /\ files \in [Path -> Content] /\ Promoted \subseteq Path
      /\ pr.backup[p] \in Texts
  BY <1>1, PrFields DEF PromotionInv, PrBooks, PrFresh, Undoing
<1>3. WorkspaceTypeOK'
  BY <1>1, <1>2 DEF WorkspaceTypeOK, Content
<1>4. pr' \in PromotionType
  BY <1>1, ZenonT(240) DEF PromotionType
<1>5. /\ pr'.pc = "restore" /\ pr'.staged = pr.staged /\ pr'.expected = pr.expected
      /\ pr'.todo = pr.todo \ {p} /\ pr'.created = pr.created
      /\ pr'.backup = pr.backup /\ pr'.outcome = pr.outcome
      /\ pr'.before = pr.before /\ pr'.killed = pr.killed
      /\ \/ files' = [files EXCEPT ![p] = pr.backup[p]] /\ pr'.clean = pr.clean
         \/ files' = files /\ pr'.clean = FALSE
  BY <1>1, ZenonT(240) DEF PromotionType
<1>6. /\ Staged' = Staged /\ Promoted' = Promoted /\ Deletes' = Deletes
      /\ Changes' = Changes /\ Replaces' = Replaces
  BY <1>5 DEF Staged, Promoted, Deletes, Changes, Replaces
<1>7. PromotionInv'
  BY <1>1, <1>2, <1>5, <1>6
  DEF PromotionInv, PrBooks, PrFresh, PrCanGoBack, PrSeen, Confirmed, Goal, Moving,
      Undoing, Over
<1> QED
  BY <1>3, <1>4, <1>7 DEF PrKept

(* Lemma: the process dies, the gate stays.                                *)
LEMMA KillPromotionKeeps ==
    ASSUME PrKept, KillPromotion
    PROVE  PrKept'
<1>1. /\ pr \in PromotionType /\ PromotionInv /\ WorkspaceTypeOK
      /\ pr.pc \notin {"none", "gate", "done"}
      /\ pr' = [pr EXCEPT !.pc = "gate", !.todo = {}, !.outcome = "none", !.killed = TRUE]
      /\ UNCHANGED <<files, foreign, late, edits>>
      /\ kills < MaxKills /\ kills' = kills + 1
  BY DEF PrKept, KillPromotion, Killed
<1>2. WorkspaceTypeOK'
  BY <1>1, WorkspaceAssumption DEF WorkspaceTypeOK
<1>3. pr' \in PromotionType
  BY <1>1 DEF PromotionType
<1>4. /\ pr'.pc = "gate" /\ pr'.staged = pr.staged /\ pr'.expected = pr.expected
      /\ pr'.todo = {} /\ pr'.created = pr.created
      /\ pr'.backup = pr.backup /\ pr'.clean = pr.clean /\ pr'.outcome = "none"
      /\ pr'.before = pr.before /\ pr'.killed = TRUE
  BY <1>1 DEF PromotionType
<1>5. /\ Staged' = Staged /\ Promoted' = Promoted /\ Deletes' = Deletes
      /\ Changes' = Changes /\ Replaces' = Replaces
  BY <1>4 DEF Staged, Promoted, Deletes, Changes, Replaces
<1>6. PromotionInv'
  BY <1>1, <1>4, <1>5
  DEF PromotionInv, PrBooks, PrFresh, PrCanGoBack, PrSeen, Confirmed, Goal, Moving,
      Undoing, Over
<1> QED
  BY <1>2, <1>3, <1>6 DEF PrKept

(* Lemma: another hand writes a file under a promotion.                    *)
LEMMA EditKeepsPromotion ==
    ASSUME PrKept, NEW p \in Path, NEW content \in Content, Edit(p, content),
           UNCHANGED pr
    PROVE  PrKept'
<1>1. /\ pr \in PromotionType /\ PromotionInv /\ WorkspaceTypeOK
      /\ files \in [Path -> Content] /\ edits \in 0..MaxEdits /\ edits < MaxEdits
      /\ files' = [files EXCEPT ![p] = content]
      /\ foreign' = foreign \union {p} /\ late' = late \union {p}
      /\ edits' = edits + 1 /\ kills' = kills
  BY DEF PrKept, Edit, WorkspaceTypeOK
<1>2. WorkspaceTypeOK'
  BY <1>1, WorkspaceAssumption DEF WorkspaceTypeOK
<1>3. Promoted \subseteq Path
  BY PrFields
<1>4. /\ Staged' = Staged /\ Promoted' = Promoted /\ Deletes' = Deletes
      /\ Changes' = Changes /\ Replaces' = Replaces
  BY DEF Staged, Promoted, Deletes, Changes, Replaces
<1>5. PromotionInv' /\ pr' \in PromotionType
  BY <1>1, <1>3, <1>4
  DEF PromotionInv, PrBooks, PrFresh, PrCanGoBack, PrSeen, Confirmed, Goal, Moving,
      Undoing, Over
<1> QED
  BY <1>2, <1>5 DEF PrKept

-------------------------------------------------------------------------------
(* A mover that has not begun knows nothing of the files.                  *)
LEMMA IdleTransaction == tx = NoTransaction => TransactionInv
<1> SUFFICES ASSUME tx = NoTransaction PROVE TransactionInv
  OBVIOUS
<1>1. /\ tx.pc = "none" /\ tx.order = <<>> /\ tx.expected = Nothing
      /\ tx.result = Nothing /\ tx.kept = Nothing /\ tx.todo = <<>>
      /\ tx.applied = <<>> /\ tx.clean = TRUE /\ tx.outcome = "none"
      /\ tx.before = Nothing /\ tx.killed = FALSE
  BY DEF NoTransaction
<1>2. 1 \in Path
  BY WorkspaceAssumption DEF Path
<1> QED
  BY <1>1, <1>2, NothingSaid, NothingToDo
  DEF TransactionInv, TxBooks, TxFresh, TxCanGoBack, TxSeen, Patched, Confirmed

(* Lemma: the same of a promotion.                                         *)
LEMMA IdlePromotion == pr = NoPromotion => PromotionInv
<1> SUFFICES ASSUME pr = NoPromotion PROVE PromotionInv
  OBVIOUS
<1>1. /\ pr.pc = "none" /\ pr.staged = Nothing /\ pr.expected = Nothing
      /\ pr.archive = FALSE /\ pr.todo = {} /\ pr.created = {}
      /\ pr.backup = Nothing /\ pr.clean = TRUE /\ pr.outcome = "none"
      /\ pr.before = Nothing /\ pr.killed = FALSE
  BY DEF NoPromotion
<1>2. 1 \in Path
  BY WorkspaceAssumption DEF Path
<1> QED
  BY <1>1, <1>2, NothingSaid
  DEF PromotionInv, PrBooks, PrFresh, PrCanGoBack, PrSeen, Staged, Promoted,
      Deletes, Moving, Undoing, Over, Confirmed

-------------------------------------------------------------------------------
(* Lemma: every step of a transaction keeps what is known of it.           *)
LEMMA TransactionKeeps ==
    ASSUME TxKept, TransactionNext
    PROVE  TxKept'
BY ProposeKeeps, RejectKeeps, ConfirmKeeps, CheckKeeps, ApplyKeeps, ApplyFailsKeeps,
   VerifyKeeps, RereadKeeps, UndoKeeps, UndoneKeeps, ReportKeeps, KillKeeps
DEF TransactionNext

(* Lemma: every step of a promotion keeps what is known of it.             *)
LEMMA PromotionKeeps ==
    ASSUME PrKept, PromotionNext
    PROVE  PrKept'
BY StageKeeps, ExpiresKeeps, ConfirmPromotionKeeps, CheckFileKeeps, PhaseKeeps,
   BackUpKeeps, WriteKeeps, RemoveKeeps, StepFailsKeeps, VerifyFileKeeps, UncreateKeeps,
   RestoreKeeps, KillPromotionKeeps
DEF PromotionNext

(* Lemma: the invariant holds in the beginning.                            *)
LEMMA ChangeBegins == ChangeInit => ChangeInv
<1> SUFFICES ASSUME ChangeInit PROVE ChangeInv
  OBVIOUS
<1>1. tx = NoTransaction /\ pr = NoPromotion /\ WorkspaceInit
  BY DEF ChangeInit, TransactionInit, PromotionInit
<1>2. tx \in TransactionType
  BY <1>1, NothingSaid, NothingToDo DEF NoTransaction, TransactionType
<1>3. pr \in PromotionType
  BY <1>1, NothingSaid DEF NoPromotion, PromotionType
<1>4. WorkspaceTypeOK
  BY <1>1, WorkspaceAssumption DEF WorkspaceInit, WorkspaceTypeOK
<1>5. pr.pc = "none"
  BY <1>1 DEF NoPromotion
<1> QED
  BY <1>1, <1>2, <1>3, <1>4, <1>5, IdleTransaction, IdlePromotion
  DEF ChangeInv, ChangeTypeOK

(* Lemma: and every step keeps it, of a mover or of another hand.          *)
LEMMA ChangeKeeps == ChangeInv /\ [ChangeNext]_changeVars => ChangeInv'
<1> SUFFICES ASSUME ChangeInv, [ChangeNext]_changeVars PROVE ChangeInv'
  OBVIOUS
<1>1. TxKept /\ PrKept /\ (pr.pc = "none" \/ tx.pc = "none")
  BY DEF ChangeInv, ChangeTypeOK, TxKept, PrKept
<1>2. CASE pr.pc = "none" /\ TransactionNext /\ UNCHANGED pr
  <2>1. TxKept'
    BY <1>1, <1>2, TransactionKeeps
  <2>2. (pr = NoPromotion)' /\ pr' \in PromotionType
    BY <1>1, <1>2 DEF PrKept, PromotionInv, PrBooks
  <2>3. PromotionInv'
    BY <2>2, IdlePromotion, PTL
  <2> QED
    BY <1>2, <2>1, <2>2, <2>3 DEF ChangeInv, ChangeTypeOK, TxKept
<1>3. CASE tx.pc = "none" /\ PromotionNext /\ UNCHANGED tx
  <2>1. PrKept'
    BY <1>1, <1>3, PromotionKeeps
  <2>2. (tx = NoTransaction)' /\ tx' \in TransactionType
    BY <1>1, <1>3 DEF TxKept, TransactionInv, TxBooks
  <2>3. TransactionInv'
    BY <2>2, IdleTransaction, PTL
  <2> QED
    BY <1>3, <2>1, <2>2, <2>3 DEF ChangeInv, ChangeTypeOK, PrKept
<1>4. ASSUME NEW p \in Path, NEW content \in Content, Edit(p, content), UNCHANGED <<tx, pr>>
      PROVE  ChangeInv'
  <2>1. TxKept' /\ PrKept'
    BY <1>1, <1>4, EditKeepsTransaction, EditKeepsPromotion
  <2> QED
    BY <1>1, <1>4, <2>1 DEF ChangeInv, ChangeTypeOK, TxKept, PrKept
<1>5. CASE UNCHANGED changeVars
  BY <1>5
  DEF changeVars, workspaceVars, ChangeInv, ChangeTypeOK, WorkspaceTypeOK,
      TransactionInv, TxBooks, TxFresh, TxCanGoBack, TxSeen, Patched,
      PromotionInv, PrBooks, PrFresh, PrCanGoBack, PrSeen, Confirmed, Staged,
      Promoted, Deletes, Changes, Replaces, Goal, Moving, Undoing, Over
<1> QED
  BY <1>2, <1>3, <1>4, <1>5 DEF ChangeNext

(* Theorem: the invariant always holds, for any number of files, contents, *)
(* foreign writes and kills.                                               *)
THEOREM ChangeInvariant == ChangeSpec => []ChangeInv
<1>1. ChangeInit => ChangeInv
  BY ChangeBegins
<1>2. ChangeInv /\ [ChangeNext]_changeVars => ChangeInv'
  BY ChangeKeeps
<1> QED
  BY <1>1, <1>2, PTL DEF ChangeSpec

(* Theorem: every variable always has its type (ChangeTypeOK).             *)
THEOREM ChangeTypes == ChangeSpec => []ChangeTypeOK
<1>1. ChangeInv => ChangeTypeOK
  BY DEF ChangeInv
<1> QED
  BY <1>1, ChangeInvariant, PTL

(* Theorem: however a confirmed mover ends without success, every file     *)
(* that no other hand has written is as it was, or as the transaction had  *)
(* read it, or, if the mover was interrupted, as it was confirmed          *)
(* (FailedLeavesNoTrace; rollback_patch_set and the except clause of       *)
(* confirm).                                                               *)
THEOREM NoTrace == ChangeSpec => []FailedLeavesNoTrace
<1>1. ChangeInv => FailedLeavesNoTrace
  <2> SUFFICES ASSUME ChangeInv, Ended, Mover.outcome # "success", DOMAIN Before = Path,
                      NEW p \in Path \ foreign
               PROVE  files[p] \in PutBackAs(p)
                                  \union (IF Interrupted THEN {Wanted(p)} ELSE {})
    BY DEF FailedLeavesNoTrace
  <2>1. Path # {}
    BY WorkspaceAssumption DEF Path
  <2>2. CASE pr.pc = "none"
    <3>1. /\ Mover = tx /\ Targets = Patched /\ Before = tx.before
          /\ tx.pc \in {"report", "done"} /\ tx.outcome # "success" /\ Confirmed(tx)
          /\ Wanted(p) = IF p \notin Patched THEN tx.before[p] ELSE tx.result[p]
          /\ AsRead(tx.before[p]) = Decode(tx.before[p])
      BY <2>2 DEF Mover, Targets, Before, Wanted, Patched, Ended, AsRead, Confirmed
    <3>2. tx.outcome \in {"none", "stale", "undone", "broken", "escaped"}
      BY <3>1 DEF ChangeInv, ChangeTypeOK, TransactionType
    <3>3. tx.outcome = "none" => tx.killed
      BY <2>1, <3>1 DEF ChangeInv, TransactionInv, TxBooks, Confirmed
    <3>4. p \notin Patched => files[p] = tx.before[p]
      BY <3>1 DEF ChangeInv, TransactionInv, TxFresh
    <3>5. p \in Patched => files[p] \in {tx.before[p], Decode(tx.before[p]), tx.result[p]}
      BY <3>1 DEF ChangeInv, TransactionInv, TxFresh
    <3>6. ~tx.killed /\ tx.outcome \in {"stale", "undone"}
          => files[p] \in {tx.before[p], Decode(tx.before[p])}
      BY <3>1 DEF ChangeInv, TransactionInv, TxCanGoBack
    <3> QED
      BY <3>1, <3>2, <3>3, <3>4, <3>5, <3>6 DEF PutBackAs, Interrupted
  <2>3. CASE pr.pc # "none"
    <3>1. /\ Mover = pr /\ Targets = Promoted /\ Before = pr.before
          /\ pr.pc \in {"report", "done"} /\ pr.outcome # "success" /\ Confirmed(pr)
          /\ Wanted(p) = IF p \notin Promoted THEN pr.before[p] ELSE Goal(p)
      BY <2>3 DEF Mover, Targets, Before, Wanted, Promoted, Goal, Ended, Confirmed
    <3>2. pr.outcome \in {"none", "failed", "broken"}
      BY <3>1 DEF ChangeInv, ChangeTypeOK, PromotionType
    <3>3. pr.outcome = "none" => pr.killed
      BY <2>1, <3>1 DEF ChangeInv, PromotionInv, PrBooks, Confirmed
    <3>4. /\ p \notin Promoted => files[p] = pr.before[p]
          /\ p \in Promoted => files[p] \in {pr.before[p], Goal(p)}
      BY <3>1 DEF ChangeInv, PromotionInv, PrCanGoBack
    <3>5. ~pr.killed /\ pr.outcome = "failed" => files[p] = pr.before[p]
      BY <3>1 DEF ChangeInv, PromotionInv, PrCanGoBack, Over
    <3> QED
      BY <3>1, <3>2, <3>3, <3>4, <3>5 DEF PutBackAs, Interrupted
  <2> QED
    BY <2>2, <2>3
<1> QED
  BY <1>1, ChangeInvariant, PTL

(* Theorem: a mover that reports success says what is on the disk, except  *)
(* for what other hands wrote (SuccessIsOnDisk; verify_expected_outputs    *)
(* and the exact verification).                                            *)
THEOREM SuccessShown == ChangeSpec => []SuccessIsOnDisk
<1>1. ChangeInv => SuccessIsOnDisk
  <2> SUFFICES ASSUME ChangeInv, Ended, Mover.outcome = "success", NEW p \in Path
               PROVE  /\ p \notin foreign => files[p] = Wanted(p)
                      /\ p \in Targets \ late => AsRead(files[p]) = AsRead(Wanted(p))
    <3>1. ChangeInv => Patched \subseteq Path /\ Promoted \subseteq Path
      BY TxFields, PrFields DEF ChangeInv, ChangeTypeOK, PrKept
    <3>2. ChangeInv => Targets \subseteq Path
      BY <3>1 DEF Targets, Patched, Promoted
    <3> QED
      BY <3>2 DEF SuccessIsOnDisk
  <2>1. CASE pr.pc = "none"
    <3>1. /\ Mover = tx /\ Targets = Patched /\ Before = tx.before
          /\ tx.pc \in {"report", "done"} /\ tx.outcome = "success"
          /\ Wanted(p) = IF p \notin Patched THEN tx.before[p] ELSE tx.result[p]
          /\ AsRead(files[p]) = Decode(files[p])
          /\ AsRead(Wanted(p)) = Decode(Wanted(p))
      BY <2>1 DEF Mover, Targets, Before, Wanted, Patched, Ended, AsRead
    <3>2. Confirmed(tx)
      BY <3>1 DEF ChangeInv, TransactionInv, TxBooks
    <3> QED
      BY <3>1, <3>2 DEF ChangeInv, TransactionInv, TxFresh, TxSeen
  <2>2. CASE pr.pc # "none"
    <3>1. /\ Mover = pr /\ Targets = Promoted /\ Before = pr.before
          /\ pr.pc \in {"report", "done"} /\ pr.outcome = "success"
          /\ Wanted(p) = IF p \notin Promoted THEN pr.before[p] ELSE Goal(p)
          /\ AsRead(files[p]) = files[p] /\ AsRead(Wanted(p)) = Wanted(p)
      BY <2>2 DEF Mover, Targets, Before, Wanted, Promoted, Goal, Ended, AsRead
    <3>2. Confirmed(pr) /\ late \subseteq foreign
      BY <3>1 DEF ChangeInv, ChangeTypeOK, WorkspaceTypeOK, PromotionInv, PrBooks
    <3> QED
      BY <3>1, <3>2 DEF ChangeInv, PromotionInv, PrCanGoBack, PrSeen, Over
  <2> QED
    BY <2>1, <2>2
<1> QED
  BY <1>1, ChangeInvariant, PTL

(* A file a transaction writes reads as expected, or as the transaction    *)
(* has made it, or another hand has written it.                            *)
LEMMA TransactionOverwrites ==
    ASSUME TxKept, TransactionNext, NEW p \in Path, files'[p] # files[p]
    PROVE  \/ p \in foreign
           \/ p \in Patched /\ Decode(files[p]) \in {tx.expected[p], Decode(tx.result[p])}
<1>1. tx \in TransactionType /\ TransactionInv /\ files \in [Path -> Content]
  BY DEF TxKept, WorkspaceTypeOK
<1>2. UNCHANGED files \/ \E q \in Path : ApplyPatch(q) \/ UndoPatch(q)
  BY DEF TransactionNext, Propose, RejectPatches, ConfirmPatches, VerifyPatches,
         UndoneAll, ReportPatches, CheckPatch, ApplyFails, RereadPatch, KillTransaction,
         NoFileTouched, HistoryBegins, Reads, Killed, workspaceVars
<1>3. PICK q \in Path : ApplyPatch(q) \/ UndoPatch(q)
  BY <1>2
<1>4. tx.pc \in {"apply", "undo"} /\ tx.todo # <<>> /\ q = Head(tx.todo)
  BY <1>3 DEF ApplyPatch, UndoPatch, Turn
<1>5. q \in Patched
  BY <1>1, <1>4, TxFields, TailRange DEF TransactionInv, TxBooks
<1>6. \E content : files' = [files EXCEPT ![q] = content]
  <2>1. CASE Write(q, tx.result[q])
    BY <2>1 DEF Write
  <2>2. CASE Write(q, tx.kept[q])
    BY <2>2 DEF Write
  <2> QED
    BY <1>2, <1>3, <2>1, <2>2 DEF ApplyPatch, UndoPatch, NoFileTouched, workspaceVars
<1>7. q = p
  BY <1>1, <1>6
<1>8. p \in Patched
  BY <1>5, <1>7
<1>9. ASSUME p \notin foreign
      PROVE  Decode(files[p]) \in {tx.expected[p], Decode(tx.result[p])}
  <2>1. Confirmed(tx) /\ p \in DOMAIN tx.kept
    BY <1>1, <1>4, <1>8 DEF TransactionInv, TxBooks
  <2>2. /\ tx.expected[p] = Decode(tx.before[p])
        /\ files[p] \in {tx.before[p], Decode(tx.before[p]), tx.result[p]}
    BY <1>1, <1>8, <1>9, <2>1 DEF TransactionInv, TxFresh
  <2>3. tx.before[p] \in Content
    <3>1. PICK S \in SUBSET Path : tx.before \in [S -> Content]
      BY <1>1, TxFields DEF Some
    <3> QED
      BY <2>1, <3>1 DEF Confirmed
  <2> QED
    BY <2>2, <2>3, DecodeFacts
<1> QED
  BY <1>8, <1>9

(* Lemma: the same of a file a promotion writes.                           *)
LEMMA PromotionOverwrites ==
    ASSUME PrKept, PromotionNext, NEW p \in Path, files'[p] # files[p]
    PROVE  /\ pr.pc # "none"
           /\ p \in foreign \/ (p \in Promoted /\ files[p] \in {pr.expected[p], Goal(p)})
<1>1. pr \in PromotionType /\ PromotionInv /\ files \in [Path -> Content]
  BY DEF PrKept, WorkspaceTypeOK
<1>2. \/ UNCHANGED files
      \/ \E q \in Path : WriteStaged(q) \/ RemoveFile(q) \/ UncreateFile(q) \/ RestoreFile(q)
  BY DEF PromotionNext, Stage, ArchiveExpires, RejectPromotion, ConfirmPromotion,
         NextPhase, UnlinkStaged, ReportPromotion, CheckFile, BackUp, StepFails,
         VerifyFile, KillPromotion,
         NoFileTouched, HistoryBegins, Reads, Killed, workspaceVars
<1>3. PICK q \in Path : WriteStaged(q) \/ RemoveFile(q) \/ UncreateFile(q) \/ RestoreFile(q)
  BY <1>2
<1>4. pr.pc \in {"write", "remove", "uncreate", "restore"} /\ q \in pr.todo
  BY <1>3 DEF WriteStaged, RemoveFile, UncreateFile, RestoreFile, PrTurn
<1>5. q \in Promoted
  BY <1>1, <1>4 DEF PromotionInv, PrBooks
<1>6. \E content : files' = [files EXCEPT ![q] = content]
  BY <1>2, <1>3
  DEF WriteStaged, RemoveFile, UncreateFile, RestoreFile, PutBack, Write,
      NoFileTouched, workspaceVars
<1>7. q = p
  BY <1>1, <1>6
<1>8. p \in Promoted
  BY <1>5, <1>7
<1>9. ASSUME p \notin foreign
      PROVE  files[p] \in {pr.expected[p], Goal(p)}
  BY <1>1, <1>4, <1>8, <1>9 DEF PromotionInv, PrFresh, Moving, Undoing
<1> QED
  BY <1>4, <1>8, <1>9, SMTT(240)

(* Theorem: no mover overwrites a content the user has not confirmed,      *)
(* unless another hand wrote it after the confirmation                     *)
(* (OverwritesOnlyConfirmed; the dry run of apply_patch_set, the freshness *)
(* check of confirm).                                                      *)
THEOREM OnlyConfirmed == ChangeSpec => OverwritesOnlyConfirmed
<1> DEFINE Allowed(p) ==
        files'[p] # files[p] /\ edits' = edits
        => \/ p \in foreign
           \/ /\ p \in Targets
              /\ AsRead(files[p]) \in {Mover.expected[p], AsRead(Wanted(p))}
<1>1. ChangeInv /\ [ChangeNext]_changeVars => [\A p \in Path : Allowed(p)]_changeVars
  <2> SUFFICES ASSUME ChangeInv, ChangeNext, NEW p \in Path,
                      files'[p] # files[p], edits' = edits
               PROVE  \/ p \in foreign
                      \/ /\ p \in Targets
                         /\ AsRead(files[p]) \in {Mover.expected[p], AsRead(Wanted(p))}
    OBVIOUS
  <2>1. TxKept /\ PrKept
    BY DEF ChangeInv, ChangeTypeOK, TxKept, PrKept
  <2>2. CASE pr.pc = "none" /\ TransactionNext
    <3>1. /\ Mover = tx /\ Targets = Patched /\ (p \in Patched => Wanted(p) = tx.result[p])
          /\ AsRead(files[p]) = Decode(files[p])
          /\ AsRead(Wanted(p)) = Decode(Wanted(p))
      BY <2>2 DEF Mover, Targets, Wanted, Patched, AsRead
    <3> QED
      BY <2>1, <2>2, <3>1, TransactionOverwrites
  <2>3. CASE PromotionNext
    <3>1. /\ pr.pc # "none"
          /\ p \in foreign \/ (p \in Promoted /\ files[p] \in {pr.expected[p], Goal(p)})
      BY <2>1, <2>3, PromotionOverwrites
    <3>2. /\ Mover = pr /\ Targets = Promoted /\ (p \in Promoted => Wanted(p) = Goal(p))
          /\ AsRead(files[p]) = files[p] /\ AsRead(Wanted(p)) = Wanted(p)
      BY <3>1 DEF Mover, Targets, Wanted, Promoted, Goal, AsRead
    <3> QED
      BY <3>1, <3>2
  <2>4. ASSUME NEW q \in Path, NEW content \in Content, Edit(q, content)
        PROVE  FALSE
    BY <2>1, <2>4 DEF Edit, TxKept, WorkspaceTypeOK
  <2> QED
    BY <2>2, <2>3, <2>4 DEF ChangeNext
<1> QED
  BY <1>1, ChangeInvariant, PTL DEF ChangeSpec, OverwritesOnlyConfirmed
===============================================================================
