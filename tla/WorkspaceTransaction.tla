------------------------- MODULE WorkspaceTransaction -------------------------
(***************************************************************************)
(* A list of patches, one per file, checked, confirmed by the user,        *)
(* applied file by file, verified, and rolled back when anything fails     *)
(* (workspace_transaction.py, transactions.py, post_write.py).  Between    *)
(* the proposal and the user's answer only the patches and the hashes they *)
(* expect are kept, in a gate.  The process that applies them may be       *)
(* killed; the gate is still there and is confirmed again.                 *)
(*                                                                         *)
(* Files are read as text: line ends become "\n" and bytes that are no     *)
(* UTF-8 become U+FFFD.  Hashes are taken of what was read, and that is    *)
(* what a rollback writes back.                                            *)
(*                                                                         *)
(* A patch is what it expects of its file and what it makes of it: update  *)
(* and replace differ in what must have been read before, which is left    *)
(* to the observation ledger.                                              *)
(***************************************************************************)
EXTENDS Workspace, SequencesExt

CONSTANT Decoded   \* what a file's content says when it is read as text

ASSUME DecodedAssumption ==
    /\ Decoded \in [Texts -> Texts]
    /\ \A text \in Texts : Decoded[Decoded[text]] = Decoded[text]

VARIABLE tx

NoTransaction ==
    [pc |-> "none", order |-> <<>>, expected |-> Nothing, result |-> Nothing,
     kept |-> Nothing, todo |-> <<>>, applied |-> <<>>, clean |-> TRUE,
     outcome |-> "none", before |-> Nothing, killed |-> FALSE]

TransactionType ==
    [pc : {"none", "gate", "check", "apply", "verify", "reread", "undo",
           "report", "done"},
     order    : Seq(Path),      \* the files, in the order of the patches
     expected : Some(Content),  \* file_hash_expected; Absent for a create
     result   : Some(Content),  \* result_content; Absent for a delete
     kept     : Some(Content),  \* original_content
     todo     : Seq(Path),      \* what is left of this phase
     applied  : Seq(Path),      \* applied_patches
     clean    : BOOLEAN,        \* nothing has failed in this phase
     outcome  : {"none", "success", "stale", "undone", "broken", "escaped"},
     before   : Some(Content),  \* history: files when first confirmed
     killed   : BOOLEAN]        \* history

TransactionInit == tx = NoTransaction

Turn(pc, p) == tx.pc = pc /\ tx.todo # <<>> /\ p = Head(tx.todo)

(* open(..., errors="replace").read(); hash_texto tells no more of a file.  *)
Decode(content) == IF content = Absent THEN Absent ELSE Decoded[content]

GoesTo(pc, todo) == [tx EXCEPT !.pc = pc, !.todo = todo, !.clean = TRUE]
Ends(outcome)    == [tx EXCEPT !.pc = "report", !.todo = <<>>, !.outcome = outcome]

(* The first file of the phase is done; the last one decides what is next. *)
Onward(t, next) ==
    LET left == [t EXCEPT !.todo = Tail(tx.todo)]
    IN  IF left.todo # <<>> THEN left ELSE next

-------------------------------------------------------------------------------
(* prepare: a dry run against the files as they are.                       *)
PatchLists == UNION {{s \in [1..n -> Path] : IsInjective(s)} : n \in Path}

Propose(order, result) ==
    /\ tx.pc = "none"
    /\ DOMAIN result = Range(order)
    /\ \A p \in DOMAIN result : files[p] = Absent => result[p] # Absent
    /\ tx' = [tx EXCEPT !.pc = "gate", !.order = order, !.result = result,
                        !.expected = [p \in DOMAIN result |-> Decode(files[p])]]
    /\ NoFileTouched

RejectPatches ==
    /\ tx.pc = "gate"
    /\ tx' = [tx EXCEPT !.pc = "done"]
    /\ NoFileTouched

(* confirm: apply_patch_set first makes the dry run again.                 *)
ConfirmPatches ==
    /\ tx.pc = "gate"
    /\ tx' = [GoesTo("check", tx.order) EXCEPT
                 !.applied = <<>>, !.kept = Nothing,
                 !.before = IF tx.killed THEN @ ELSE files]
    /\ IF tx.killed THEN NoFileTouched ELSE HistoryBegins

(* Mutant of Fresh: only the existence of the file is looked at.           *)
FreshExists(p) == (files[p] = Absent) = (tx.expected[p] = Absent)

Fresh(p) == Decode(files[p]) = tx.expected[p]

CheckPatch(p) ==
    /\ Turn("check", p)
    /\ LET kept == Also(tx.kept, p, Decode(files[p]))
       IN  tx' = IF ~Fresh(p) THEN Ends("stale")
                 ELSE Onward([tx EXCEPT !.kept = kept],
                            [GoesTo("apply", tx.order) EXCEPT !.kept = kept])
    /\ Reads(p)

-------------------------------------------------------------------------------
(* apply_patch_set: each file is written, or removed if it is still there. *)
(* A failure rolls back what was applied before it.                        *)
ApplyPatch(p) ==
    /\ Turn("apply", p)
    /\ tx.result[p] = Absent => files[p] # Absent
    /\ tx' = LET applied == Append(tx.applied, p)
             IN  Onward([tx EXCEPT !.applied = applied],
                       [GoesTo("verify", <<>>) EXCEPT !.applied = applied])
    /\ Write(p, tx.result[p])

(* rollback_patch_set goes backwards.                                      *)
RollBack == GoesTo("undo", Reverse(tx.applied))

ApplyFails(p) ==
    /\ Turn("apply", p)
    /\ tx' = RollBack
    /\ NoFileTouched

(* run_compileall_for_changes works on a copy of the changed files, then   *)
(* the project's tests run: they pass or fail.  An exception of the first, *)
(* which creates a directory, leaves confirm; the registry makes a failure *)
(* of it.                                                                  *)
VerifyPatches ==
    /\ tx.pc = "verify"
    /\ tx' \in {GoesTo("reread", tx.applied), RollBack, Ends("escaped")}
    /\ NoFileTouched

(* Mutant of RereadPatch: the reread looks only at files that are there.   *)
RereadPresent(p) ==
    /\ Turn("reread", p)
    /\ LET clean == tx.clean /\ (files[p] = Absent \/ Decode(files[p]) = Decode(tx.result[p]))
       IN  tx' = Onward([tx EXCEPT !.clean = clean],
                       IF clean THEN Ends("success") ELSE RollBack)
    /\ Reads(p)

(* verify_expected_outputs: every file is read, then the verdict.          *)
RereadPatch(p) ==
    /\ Turn("reread", p)
    /\ LET clean == tx.clean /\ Decode(files[p]) = Decode(tx.result[p])
       IN  tx' = Onward([tx EXCEPT !.clean = clean],
                       IF clean THEN Ends("success") ELSE RollBack)
    /\ Reads(p)

-------------------------------------------------------------------------------
(* rollback_patch_set: the original, as it was read, is written back and   *)
(* read again, or the created file removed; a failure of either is noted   *)
(* and the next file is restored.                                          *)
UndoPatch(p) ==
    /\ Turn("undo", p)
    /\ \E clean \in {tx.clean, FALSE} :
          /\ tx' = [tx EXCEPT !.todo = Tail(@), !.clean = clean]
          /\ \/ Write(p, tx.kept[p])
             \/ ~clean /\ NoFileTouched

UndoneAll ==
    /\ tx.pc = "undo" /\ tx.todo = <<>>
    /\ tx' = Ends(IF tx.clean THEN "undone" ELSE "broken")
    /\ NoFileTouched

(* confirm_pending records the result and clears the gate.                 *)
ReportPatches ==
    /\ tx.pc = "report"
    /\ tx' = [tx EXCEPT !.pc = "done"]
    /\ NoFileTouched

KillTransaction ==
    /\ tx.pc \notin {"none", "gate", "done"}
    /\ Killed
    /\ tx' = [Ends("none") EXCEPT !.pc = "gate", !.killed = TRUE]

TransactionNext ==
    \/ \E order \in PatchLists : \E result \in [Range(order) -> Content] :
           Propose(order, result)
    \/ RejectPatches \/ ConfirmPatches \/ VerifyPatches \/ UndoneAll \/ ReportPatches
    \/ \E p \in Path : \/ CheckPatch(p) \/ ApplyPatch(p) \/ ApplyFails(p)
                       \/ RereadPatch(p) \/ UndoPatch(p)
    \/ KillTransaction
===============================================================================
