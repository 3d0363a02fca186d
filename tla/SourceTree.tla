------------------------------ MODULE SourceTree -------------------------------
(***************************************************************************)
(* The files a session looks at, and what every look at them yields.  One  *)
(* file stands for those whose content is read, one protected file for     *)
(* those whose content is refused, the listing of the tree for the rest.   *)
(* Nothing locks them: another hand may write between any two reads.       *)
(*                                                                         *)
(* A revision is what the hash of a file tells apart.  The token of the    *)
(* tree is the hash of every path, size and time of change: `writes'       *)
(* counts them.  One thing is idealised here, by name: a write that keeps  *)
(* the size of the file and falls in the same tick of the file system's    *)
(* clock as the one before leaves the token as it was, and here it does    *)
(* not.                                                                    *)
(***************************************************************************)
EXTENDS Naturals, FiniteSets

CONSTANTS
    Revisions,   \* contents of the file
    Lines,       \* how many lines each has
    Matched,     \* the lines of each that the search finds
    Located,     \* the lines of each where the symbol is defined
    Listings,    \* what the tree may hold
    MaxEdits     \* bound: writes of other hands

ASSUME SourceAssumption ==
    /\ Lines \in [Revisions -> Nat]
    /\ Matched \in [Revisions -> SUBSET Nat]
    /\ Located \in [Revisions -> SUBSET Nat]
    /\ \A r \in Revisions : IsFiniteSet(Matched[r]) /\ IsFiniteSet(Located[r])
    /\ MaxEdits \in Nat

VARIABLES
    file,     \* the content of the file: revisao_arquivo_projeto
    listing,  \* what a walk through the tree finds
    writes,   \* the state of the tree's metadata: _source_tree_freshness_token
    edits     \* writes of other hands so far

sourceVars == <<file, listing, writes, edits>>

SourceTypeOK ==
    /\ file \in Revisions /\ listing \in Listings
    /\ writes \in Nat \ {0} /\ edits \in 0..MaxEdits

SourceInit ==
    /\ file \in Revisions /\ listing \in Listings
    /\ writes = 1 /\ edits = 0

Rewrite(revision) ==
    /\ file' = revision /\ writes' = writes + 1
    /\ UNCHANGED listing

(* Another hand writes the file, or changes what else the tree holds.      *)
EditFile(revision) ==
    /\ edits < MaxEdits /\ revision # file
    /\ edits' = edits + 1
    /\ Rewrite(revision)

EditElsewhere(found) ==
    /\ edits < MaxEdits /\ found # listing
    /\ listing' = found /\ writes' = writes + 1 /\ edits' = edits + 1
    /\ UNCHANGED file
===============================================================================
