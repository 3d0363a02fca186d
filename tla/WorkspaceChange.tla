---------------------------- MODULE WorkspaceChange ----------------------------
(***************************************************************************)
(* A mover, which is a transaction or a promotion, and everybody else: any *)
(* file may be written by another hand before, between and after its       *)
(* steps.  The two movers make the user the same promises, stated here     *)
(* once for both.                                                          *)
(***************************************************************************)
EXTENDS WorkspaceTransaction, SandboxPromotion

changeVars == <<workspaceVars, tx, pr>>

ChangeInit == WorkspaceInit /\ TransactionInit /\ PromotionInit

ChangeNext ==
    \/ pr.pc = "none" /\ TransactionNext /\ UNCHANGED pr
    \/ tx.pc = "none" /\ PromotionNext /\ UNCHANGED tx
    \/ /\ \E p \in Path, content \in Content : Edit(p, content)
       /\ UNCHANGED <<tx, pr>>

ChangeSpec == ChangeInit /\ [][ChangeNext]_changeVars

-------------------------------------------------------------------------------
(* The mover of this behaviour, as the user knows it: what it has been     *)
(* confirmed to change, from what, into what, and what it tells of it.     *)
Mover    == IF pr.pc = "none" THEN tx ELSE pr
Ended    == Mover.pc \in {"report", "done"}
Targets  == IF pr.pc = "none" THEN Range(tx.order) ELSE DOMAIN pr.expected
Before   == Mover.before
Wanted(p) == IF p \notin Targets THEN Before[p]
             ELSE IF pr.pc = "none" THEN tx.result[p]
             ELSE IF p \in Staged THEN pr.staged[p] ELSE Absent

(* Every variable has its type.                                            *)
ChangeTypeOK ==
    /\ WorkspaceTypeOK
    /\ tx \in TransactionType
    /\ pr \in PromotionType

(* What the hashes of the mover tell of a content: a transaction hashes    *)
(* text, a promotion hashes bytes.                                         *)
AsRead(content) == IF pr.pc = "none" THEN Decode(content) ELSE content

(* A file that was put back: byte for byte, or as the transaction had read *)
(* it.                                                                     *)
PutBackAs(p) == {Before[p]} \union (IF p \in Targets THEN {AsRead(Before[p])} ELSE {})

(* A mover that was told to stop half way: the process was killed, an      *)
(* exception left confirm, or a restoration failed and the report says so. *)
Interrupted == Mover.killed \/ Mover.outcome \in {"escaped", "broken"}

(* However a confirmed mover ends without success, the user can tell what  *)
(* he has: a file that no other hand wrote since the confirmation is as it *)
(* was, whichever write, removal, test or verification failed and in       *)
(* whatever order; a file of a transaction may have lost its line ends and *)
(* its undecodable bytes, and no other file has changed at all.  Only an   *)
(* interrupted mover may also leave some files as they were confirmed, and *)
(* even then there is no third content (rollback_patch_set, the except     *)
(* clause of the promotion's confirm).                                     *)
FailedLeavesNoTrace ==
    Ended /\ Mover.outcome # "success" /\ DOMAIN Before = Path
    => \A p \in Path \ foreign :
           files[p] \in PutBackAs(p) \union (IF Interrupted THEN {Wanted(p)} ELSE {})

(* A mover that reports success says what is on the disk: every file is as *)
(* the user confirmed it, or as it was if the proposal does not name it.   *)
(* If another hand wrote a file of the proposal before the mover last read *)
(* it, it still reads as confirmed (verify_expected_outputs, the exact     *)
(* post-promotion verification).                                           *)
SuccessIsOnDisk ==
    Ended /\ Mover.outcome = "success"
    => /\ \A p \in Path \ foreign : files[p] = Wanted(p)
       /\ \A p \in Targets \ late : AsRead(files[p]) = AsRead(Wanted(p))

(* No mover ever writes over a content the user has not confirmed: what it *)
(* replaces is what the proposal expected or what the proposal itself put  *)
(* there, unless another hand wrote the file after the confirmation (the   *)
(* dry run of apply_patch_set, the freshness check of confirm).            *)
OverwritesOnlyConfirmed ==
    [][\A p \in Path :
          files'[p] # files[p] /\ edits' = edits
          => \/ p \in foreign
             \/ /\ p \in Targets
                /\ AsRead(files[p]) \in {Mover.expected[p], AsRead(Wanted(p))}]_changeVars
===============================================================================
