------------------------------ MODULE MCWorkspace ------------------------------
(***************************************************************************)
(* A text, the same text with other line ends, and another text.           *)
(***************************************************************************)
EXTENDS WorkspaceChange

LineEnds == [text \in Texts |-> IF text = "crlf" THEN "lf" ELSE text]
===============================================================================
