----------------------------- MODULE MCObservation -----------------------------
(* Two revisions of one file, two states of the rest of the tree.          *)
EXTENDS Observation

MCRevisions == {"a", "b"}
MCLines     == [r \in MCRevisions |-> IF r = "a" THEN 5 ELSE 3]
MCMatched   == [r \in MCRevisions |-> IF r = "a" THEN {1, 5} ELSE {}]
MCLocated   == [r \in MCRevisions |-> IF r = "a" THEN {2, 4} ELSE {3}]

MCSymmetry == Permutations(Listings)

Asked(path, first, last) == [path |-> path, span |-> Span(first, last)]

MCRequests ==
    {Asked("file", 1, 0), Asked("file", 3, 4), Asked("file", 1, 4),
     Asked("secret", 1, 0), Asked("secret", 1, 2)}
===============================================================================
