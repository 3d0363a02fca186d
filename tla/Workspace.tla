------------------------------- MODULE Workspace -------------------------------
(***************************************************************************)
(* The user's files, and the hands that write them.  A mover (a workspace  *)
(* transaction or the promotion of a sandbox) changes several files once   *)
(* the user has confirmed it.  Nothing locks the files: the user, a test   *)
(* run, a job of another conversation may write any of them at any moment  *)
(* (Edit), and a second mover is one more of these hands.  The write of    *)
(* one file is atomic (a temporary file and os.replace); nothing larger    *)
(* is.                                                                     *)
(*                                                                         *)
(* The content of a file is what its hash tells apart.  Directories, the   *)
(* path policy and the protected resources are left out.                   *)
(***************************************************************************)
EXTENDS Naturals, Sequences

CONSTANTS
    MaxPath,   \* the files are 1..MaxPath, in the order of their names
    Texts,     \* what a file may contain
    Absent,    \* there is no such file
    MaxEdits,  \* bound: writes of other hands
    MaxKills   \* bound: kills of the process that runs the mover

ASSUME WorkspaceAssumption ==
    /\ MaxPath \in Nat \ {0} /\ Absent \notin Texts
    /\ MaxEdits \in Nat /\ MaxKills \in Nat

VARIABLES
    files,    \* the content of each file
    foreign,  \* history: what other hands wrote since the confirmation
    late,     \* history: what they wrote since the mover last read it
    edits,    \* writes of other hands so far
    kills     \* kills so far

workspaceVars == <<files, foreign, late, edits, kills>>

Path    == 1..MaxPath
Content == Texts \union {Absent}

(* What is said of some of the files: nothing yet, and one file more.      *)
Some(values) == UNION {[S -> values] : S \in SUBSET Path}

Nothing == [p \in {} |-> Absent]

Also(said, p, value) ==
    [q \in DOMAIN said \union {p} |-> IF q = p THEN value ELSE said[q]]

WorkspaceTypeOK ==
    /\ files \in [Path -> Content]
    /\ foreign \subseteq Path /\ late \subseteq foreign
    /\ edits \in 0..MaxEdits /\ kills \in 0..MaxKills

WorkspaceInit ==
    /\ files \in [Path -> Content]
    /\ foreign = {} /\ late = {} /\ edits = 0 /\ kills = 0

(* What a step of a mover does to the files: it writes or removes one,     *)
(* reads one, or none.                                                     *)
Write(p, content) ==
    /\ files' = [files EXCEPT ![p] = content]
    /\ UNCHANGED <<foreign, late, edits, kills>>

Reads(p) ==
    /\ late' = late \ {p}
    /\ UNCHANGED <<files, foreign, edits, kills>>

NoFileTouched == UNCHANGED workspaceVars

(* The history begins at the user's confirmation.                          *)
HistoryBegins ==
    /\ foreign' = {} /\ late' = {}
    /\ UNCHANGED <<files, edits, kills>>

(* Another hand writes, or removes, a file.                                *)
Edit(p, content) ==
    /\ edits < MaxEdits /\ content # files[p]
    /\ files' = [files EXCEPT ![p] = content]
    /\ foreign' = foreign \union {p} /\ late' = late \union {p}
    /\ edits' = edits + 1
    /\ UNCHANGED kills

Killed ==
    /\ kills < MaxKills
    /\ kills' = kills + 1
    /\ UNCHANGED <<files, foreign, late, edits>>
===============================================================================
