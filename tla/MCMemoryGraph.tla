----------------------------- MODULE MCMemoryGraph -----------------------------
(* A task, a note and a relation between them, learned before; or nothing. *)
EXTENDS MemoryGraph

MCSymmetry == Permutations(Sessions)

MCLearned ==
    {<<>>,
     <<WithText(Op("remember", 1, 0, 0), "task", {0}),
       WithText(Op("remember", 2, 0, 0), "note", {0}),
       Op("relate", 1, 0, 2)>>}

MCAuthored ==
    <<{"remember", "revise", "archive", "supersede", "task_status", "relate",
       "revise_relation", "retire_relation"},
      {"revise", "task_status"}>>

MCSupported == {Pin("node", 1, 0), Pin("node", 2, 2), Pin("edge", 1, 0)}

MCSelectors == {[ids |-> {}, neighbours |-> FALSE], [ids |-> {1}, neighbours |-> TRUE]}
===============================================================================
