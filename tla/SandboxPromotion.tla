--------------------------- MODULE SandboxPromotion ---------------------------
(***************************************************************************)
(* The promotion of a sandbox into the workspace (sandbox_promotion.py).   *)
(* prepare exports a snapshot of the sandbox to a staged archive, with a   *)
(* manifest of what it will create, replace and delete.  Once the user     *)
(* confirms, the files are checked, backed up, written, removed and        *)
(* verified, one by one, and restored when anything fails.  The archive is *)
(* removed when the confirmation ends, however it ends.                    *)
(*                                                                         *)
(* Nobody else writes the staging directory: the hashes of the archive and *)
(* the manifest, checked before anything is done, are left out.            *)
(***************************************************************************)
EXTENDS Workspace

VARIABLE pr

NoPromotion ==
    [pc |-> "none", staged |-> Nothing, expected |-> Nothing, archive |-> FALSE,
     todo |-> {}, created |-> {}, backup |-> Nothing, clean |-> TRUE,
     outcome |-> "none", before |-> Nothing, killed |-> FALSE]

PromotionType ==
    [pc : {"none", "gate", "check", "backup", "write", "remove", "verify",
           "uncreate", "restore", "unlink", "report", "done"},
     staged   : Some(Texts),    \* staged_files
     expected : Some(Content),  \* expected_workspace_hashes
     archive  : BOOLEAN,        \* the staged archive and manifest exist
     todo     : SUBSET Path,    \* what is left of this phase
     created  : SUBSET Path,
     backup   : Some(Texts),    \* backed_up
     clean    : BOOLEAN,        \* nothing has failed in this phase
     outcome  : {"none", "success", "failed", "broken"},
     before   : Some(Content),  \* history: files when first confirmed
     killed   : BOOLEAN]        \* history

PromotionInit == pr = NoPromotion

(* The plan of _scan_plan.                                                 *)
Staged   == DOMAIN pr.staged
Deletes  == DOMAIN pr.expected \ Staged
Changes  == {p \in Staged : pr.staged[p] # pr.expected[p]}
Replaces == {p \in Changes : pr.expected[p] # Absent}

(* The expected hashes are read back in the order of the names; otherwise  *)
(* the staged files come first, then the files to delete.                  *)
Earlier(q, p) ==
    \/ q < p /\ (pr.pc = "check" \/ (q \in Staged <=> p \in Staged))
    \/ pr.pc # "check" /\ q \in Staged /\ p \notin Staged

PrTurn(pc, p) ==
    pr.pc = pc /\ p \in pr.todo /\ \A q \in pr.todo : ~Earlier(q, p)

PrAtEnd(pc)        == pr.pc = pc /\ pr.todo = {}
PrGoesTo(pc, todo) == [pr EXCEPT !.pc = pc, !.todo = todo, !.clean = TRUE]
PrEnds(outcome)    == [pr EXCEPT !.pc = "unlink", !.todo = {}, !.outcome = outcome]
PrDone(p)          == [pr EXCEPT !.todo = @ \ {p}]

-------------------------------------------------------------------------------
(* prepare: merge writes the staged files, mirror also deletes the others. *)
(* Without a change there is no proposal, and the archive goes at once.    *)
Stage(staged, mirror) ==
    LET inside  == DOMAIN staged
        deletes == {p \in Path \ inside : mirror /\ files[p] # Absent}
    IN  /\ pr.pc = "none" /\ inside # {}
        /\ deletes # {} \/ \E p \in inside : staged[p] # files[p]
        /\ pr' = [pr EXCEPT !.pc = "gate", !.staged = staged, !.archive = TRUE,
                            !.expected = [p \in inside \union deletes |-> files[p]]]
        /\ NoFileTouched

(* _gc_staging, in the prepare of another promotion: the archive is older  *)
(* than two hours.                                                         *)
ArchiveExpires ==
    /\ pr.pc = "gate" /\ pr.archive
    /\ pr' = [pr EXCEPT !.archive = FALSE]
    /\ NoFileTouched

(* cancel removes the archive.                                             *)
RejectPromotion ==
    /\ pr.pc = "gate"
    /\ pr' = [pr EXCEPT !.pc = "done", !.archive = FALSE]
    /\ NoFileTouched

ConfirmPromotion ==
    /\ pr.pc = "gate"
    /\ pr' = LET start == IF pr.archive
                          THEN PrGoesTo("check", DOMAIN pr.expected)
                          ELSE PrEnds("failed")
             IN  [start EXCEPT !.created = {}, !.backup = Nothing,
                               !.before = IF pr.killed THEN @ ELSE files]
    /\ IF pr.killed THEN NoFileTouched ELSE HistoryBegins

CheckFile(p) ==
    /\ PrTurn("check", p)
    /\ pr' = IF files[p] = pr.expected[p] THEN PrDone(p) ELSE PrEnds("failed")
    /\ Reads(p)

(* A phase ends, and the next begins.                                      *)
NextPhase ==
    /\ \/ PrAtEnd("check")    /\ pr' = PrGoesTo("backup", Replaces \union Deletes)
       \/ PrAtEnd("backup")   /\ pr' = PrGoesTo("write", Changes)
       \/ PrAtEnd("write")    /\ pr' = PrGoesTo("remove", Deletes)
       \/ PrAtEnd("remove")   /\ pr' = PrGoesTo("verify", Staged \union Deletes)
       \/ PrAtEnd("verify")   /\ pr' = PrEnds("success")
       \/ PrAtEnd("uncreate") /\ pr' = [pr EXCEPT !.pc = "restore", !.todo = DOMAIN pr.backup]
       \/ PrAtEnd("restore")  /\ pr' = PrEnds(IF pr.clean THEN "failed" ELSE "broken")
    /\ NoFileTouched

-------------------------------------------------------------------------------
(* Mutant of Unwind: what was replaced is restored, what was created stays.*)
UnwindBackups(created) == PrGoesTo("uncreate", {})

(* The except clause: first what was created is removed.                   *)
Unwind(created) == [PrGoesTo("uncreate", created) EXCEPT !.created = created]

(* Mutant of BackUp: a file that is gone is backed up all the same.        *)
BackUpAnyway(p) ==
    /\ PrTurn("backup", p)
    /\ pr' = [PrDone(p) EXCEPT !.backup = Also(@, p, files[p])]
    /\ NoFileTouched

BackUp(p) ==
    /\ PrTurn("backup", p)
    /\ pr' = IF files[p] = Absent THEN PrDone(p)
             ELSE [PrDone(p) EXCEPT !.backup = Also(@, p, files[p])]
    /\ NoFileTouched

(* A file that is not there is noted as created, then written.             *)
Created(p) == pr.created \union (IF files[p] = Absent THEN {p} ELSE {})

WriteStaged(p) ==
    /\ PrTurn("write", p)
    /\ pr' = [PrDone(p) EXCEPT !.created = Created(p)]
    /\ Write(p, pr.staged[p])

RemoveFile(p) ==
    /\ PrTurn("remove", p)
    /\ pr' = PrDone(p)
    /\ Write(p, Absent)

StepFails(p) ==
    /\ \/ PrTurn("write", p) /\ pr' = Unwind(Created(p))
       \/ \E pc \in {"backup", "write", "remove"} : PrTurn(pc, p) /\ pr' = Unwind(pr.created)
    /\ NoFileTouched

(* Exact verification of every staged file, then of every deletion.        *)
VerifyFile(p) ==
    /\ PrTurn("verify", p)
    /\ LET wanted == IF p \in Staged THEN pr.staged[p] ELSE Absent
       IN  pr' = IF files[p] = wanted THEN PrDone(p) ELSE Unwind(pr.created)
    /\ Reads(p)

(* The removals and the restorations: a failure is noted, and the next     *)
(* file has its turn.                                                      *)
PutBack(p, content) ==
    \/ Write(p, content) /\ pr' = PrDone(p)
    \/ NoFileTouched /\ pr' = [PrDone(p) EXCEPT !.clean = FALSE]

UncreateFile(p) == PrTurn("uncreate", p) /\ PutBack(p, Absent)

RestoreFile(p) == PrTurn("restore", p) /\ PutBack(p, pr.backup[p])

(* The finally clause removes the archive; confirm_pending records the     *)
(* result and clears the gate.                                             *)
UnlinkStaged ==
    /\ pr.pc = "unlink"
    /\ pr' = [pr EXCEPT !.pc = "report", !.archive = FALSE]
    /\ NoFileTouched

ReportPromotion ==
    /\ pr.pc = "report"
    /\ pr' = [pr EXCEPT !.pc = "done"]
    /\ NoFileTouched

KillPromotion ==
    /\ pr.pc \notin {"none", "gate", "done"}
    /\ Killed
    /\ pr' = [pr EXCEPT !.pc = "gate", !.todo = {}, !.outcome = "none", !.killed = TRUE]

PromotionNext ==
    \/ \E staged \in Some(Texts), mirror \in BOOLEAN : Stage(staged, mirror)
    \/ ArchiveExpires \/ RejectPromotion \/ ConfirmPromotion
    \/ NextPhase \/ UnlinkStaged \/ ReportPromotion
    \/ \E p \in Path : \/ CheckFile(p) \/ BackUp(p) \/ WriteStaged(p) \/ RemoveFile(p)
                       \/ StepFails(p) \/ VerifyFile(p)
                       \/ UncreateFile(p) \/ RestoreFile(p)
    \/ KillPromotion
===============================================================================
