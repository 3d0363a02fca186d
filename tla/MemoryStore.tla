------------------------------ MODULE MemoryStore ------------------------------
(***************************************************************************)
(* The tables of the Memory Graph and the changes a changeset makes to     *)
(* them: nodes, tasks, relations (edges), the anchors that pin what a      *)
(* memory rests on, the events that are its history, and the text index    *)
(* the recall searches.  A graph is one value; a changeset maps a graph to *)
(* the next one, or is refused as a whole.                                 *)
(*                                                                         *)
(* The text of a node is the set of the changes that went into it.  Scope, *)
(* tags, retention and the epistemic fields are plain columns, left out.   *)
(***************************************************************************)
EXTENDS Integers, SequencesExt

CONSTANT States    \* the states a task may be given

OpenStates == {"active", "blocked"}
DoneStates == {"resolved", "cancelled"}

ASSUME StoreAssumption == States \subseteq OpenStates \union DoneStates

EmptyGraph == [nodes |-> <<>>, tasks |-> <<>>, edges |-> <<>>,
               anchors |-> {}, events |-> {}, index |-> {},
               new |-> {}, dirty |-> {}]

(* A table with a row added, or written over.                              *)
Put(table, id, row) ==
    [x \in DOMAIN table \union {id} |-> IF x = id THEN row ELSE table[x]]

HasNode(g, id) == id \in DOMAIN g.nodes
HasEdge(g, id) == id \in DOMAIN g.edges
HasTask(g, id) == id \in DOMAIN g.tasks
IsCurrent(g, id) == HasNode(g, id) /\ g.nodes[id].status = "current"

Node(domain, kind, text) ==
    [domain |-> domain, kind |-> kind, text |-> text, status |-> "current", revision |-> 1]
Edge(source, target) ==
    [source |-> source, target |-> target, status |-> "current", revision |-> 1]

Event(entity, id, revision) == [entity |-> entity, id |-> id, revision |-> revision]
Noted(g, entity, id, revision) ==
    [g EXCEPT !.events = @ \union {Event(entity, id, revision)}]

(* Mutant of ExpectRevision: whatever revision is there is written over.   *)
WriteOver(row, expected) == TRUE

(* A change is written on the revision its author names, and on no other.  *)
ExpectRevision(row, expected) == row.revision = expected

(* A revision exists if it is the present one or an event tells of it.     *)
SourceRevisionExists(g, entity, id, revision) ==
    /\ revision >= 1
    /\ \/ entity = "node" /\ HasNode(g, id)
       \/ entity = "edge" /\ HasEdge(g, id)
    /\ \/ entity = "node" /\ g.nodes[id].revision = revision
       \/ entity = "edge" /\ g.edges[id].revision = revision
       \/ Event(entity, id, revision) \in g.events

-------------------------------------------------------------------------------
(* A relation gets an identity of its own.                                 *)
NewEdge(g) == Cardinality(DOMAIN g.edges) + 1

(* The operations.  `on` is the node or relation, `at` the revision its    *)
(* author expects, `to` the other node (or the state of a task), `pins`    *)
(* what it rests on.                                                       *)
Op(op, on, at, to) ==
    [op |-> op, on |-> on, at |-> at, to |-> to, kind |-> "none", text |-> {}, pins |-> {}]

WithText(o, kind, text) == [o EXCEPT !.kind = kind, !.text = text]
WithPins(o, pins) == [o EXCEPT !.pins = pins]

Pin(entity, id, revision) == [entity |-> entity, id |-> id, revision |-> revision]

(* Mutant of InsertAnchors: what is pinned is not looked for.              *)
InsertUnchecked(g, entity, id, pins, revision) ==
    [ok |-> TRUE,
     graph |-> [g EXCEPT !.anchors = @ \union
                  {[entity |-> entity, id |-> id, at |-> revision, pin |-> p] : p \in pins}]]

(* The anchors of a revision: what is pinned must have been there.         *)
InsertAnchors(g, entity, id, pins, revision) ==
    [ok |-> \A p \in pins : SourceRevisionExists(g, p.entity, p.id, p.revision),
     graph |-> [g EXCEPT !.anchors = @ \union
                  {[entity |-> entity, id |-> id, at |-> revision, pin |-> p] : p \in pins}]]

(* The anchors a revision shows: its own, or those of the last revision    *)
(* before it that has any.                                                 *)
AnchorsFor(g, entity, id, revision) ==
    LET own == {a \in g.anchors : a.entity = entity /\ a.id = id /\ a.at <= revision}
    IN  {a \in own : \A b \in own : b.at <= a.at}

(* The memories a memory rests on as they are: what it is pinned to is     *)
(* still the present revision, so that its trust follows from theirs.      *)
PinnedCurrent(g, id) ==
    {a.pin.id : a \in {a \in AnchorsFor(g, "node", id, g.nodes[id].revision) :
        /\ a.pin.entity = "node"
        /\ HasNode(g, a.pin.id)
        /\ g.nodes[a.pin.id].revision = a.pin.revision}}

(* Mutant of CreateTaskState: a task without a state.                      *)
NoTaskState(g, id) == g

(* A task begins active, at the first revision of its state.               *)
CreateTaskState(g, id) ==
    Noted([g EXCEPT !.tasks = Put(@, id, [state |-> "active", revision |-> 1])],
          "task", id, 1)

Refused(g) == [ok |-> FALSE, graph |-> g]
Accepted(g) == [ok |-> TRUE, graph |-> g]

(* The domain of a node is written when it is created, and never again.    *)
CreateNode(g, o) ==
    LET domain == IF o.kind = "task" THEN "task" ELSE "knowledge"
        row    == [g EXCEPT !.nodes = Put(@, o.on, Node(domain, o.kind, o.text))]
        held   == InsertAnchors(row, "node", o.on, o.pins, 1)
        task   == IF o.kind = "task" THEN CreateTaskState(held.graph, o.on) ELSE held.graph
    IN  IF HasNode(g, o.on) \/ ~held.ok THEN Refused(g)
        ELSE Accepted([Noted(task, "node", o.on, 1) EXCEPT !.new = @ \union {o.on}])

UpdateNode(g, o) ==
    LET node == [g.nodes[o.on] EXCEPT !.revision = @ + 1,
                                      !.kind = IF o.kind = "none" THEN @ ELSE o.kind,
                                      !.text = IF o.text = {} THEN @ ELSE o.text]
        row  == [g EXCEPT !.nodes = Put(@, o.on, node)]
        held == InsertAnchors(row, "node", o.on, o.pins, node.revision)
        task == IF node.kind = "task" /\ ~HasTask(g, o.on)
                THEN CreateTaskState(held.graph, o.on) ELSE held.graph
    IN  IF \/ ~IsCurrent(g, o.on)
           \/ ~ExpectRevision(g.nodes[o.on], o.at)
           \/ HasTask(g, o.on) /\ node.kind # "task"
           \/ ~held.ok
        THEN Refused(g)
        ELSE Accepted([Noted(task, "node", o.on, node.revision) EXCEPT !.dirty = @ \union {o.on}])

(* Mutant of MayLeave: the state of the task is not looked at.             *)
LeaveAnytime(g, id) == TRUE

(* A task leaves only when it is done.                                     *)
MayLeave(g, id) == HasTask(g, id) => g.tasks[id].state \in DoneStates

(* Archive and supersede.  A superseded node gets a relation to the node   *)
(* that takes its place, which may be of any status, itself included.      *)
LeaveNode(g, o) ==
    LET status == IF o.op = "archive" THEN "archived" ELSE "superseded"
        node == [g.nodes[o.on] EXCEPT !.status = status, !.revision = @ + 1]
        row  == [g EXCEPT !.nodes = Put(@, o.on, node)]
        edge == NewEdge(g)
        link == Noted([row EXCEPT !.edges = Put(@, edge, Edge(o.on, o.to))], "edge", edge, 1)
        gone == IF o.op = "supersede" THEN link ELSE row
    IN  IF \/ ~IsCurrent(g, o.on)
           \/ ~ExpectRevision(g.nodes[o.on], o.at)
           \/ ~MayLeave(g, o.on)
           \/ o.op = "supersede" /\ ~HasNode(row, o.to)
        THEN Refused(g)
        ELSE Accepted([Noted(gone, "node", o.on, node.revision) EXCEPT !.dirty = @ \union {o.on}])

(* Mutant of SetTaskStatus: the state moves and no event tells of it.      *)
SetTaskQuietly(g, o) ==
    LET task == g.tasks[o.on]
        moved == [g EXCEPT !.tasks =
                     Put(@, o.on, [state |-> o.to, revision |-> task.revision + 1])]
    IN  IF \/ ~IsCurrent(g, o.on)
           \/ g.nodes[o.on].kind # "task"
           \/ ~HasTask(g, o.on)
           \/ ~ExpectRevision(task, o.at)
        THEN Refused(g)
        ELSE IF task.state = o.to THEN Accepted(g) ELSE Accepted(moved)

(* The state of a task has a revision of its own.  The state it has is no  *)
(* change; a task that was done may be opened again.                       *)
SetTaskStatus(g, o) ==
    LET task == g.tasks[o.on]
        moved == [g EXCEPT !.tasks =
                     Put(@, o.on, [state |-> o.to, revision |-> task.revision + 1])]
    IN  IF \/ ~IsCurrent(g, o.on)
           \/ g.nodes[o.on].kind # "task"
           \/ ~HasTask(g, o.on)
           \/ ~ExpectRevision(task, o.at)
        THEN Refused(g)
        ELSE IF task.state = o.to THEN Accepted(g)
        ELSE Accepted(Noted(moved, "task", o.on, task.revision + 1))

(* Both ends of a relation must be there, whatever their status.           *)
CreateEdge(g, o) ==
    LET edge == NewEdge(g)
        row  == [g EXCEPT !.edges = Put(@, edge, Edge(o.on, o.to))]
        held == InsertAnchors(row, "edge", edge, o.pins, 1)
    IN  IF ~HasNode(g, o.on) \/ ~HasNode(g, o.to) \/ ~held.ok THEN Refused(g)
        ELSE Accepted(Noted(held.graph, "edge", edge, 1))

(* A relation is revised, or retired.                                      *)
ChangeEdge(g, o) ==
    LET status == IF o.op = "retire_relation" THEN "retired" ELSE "current"
        edge == [g.edges[o.on] EXCEPT !.status = status, !.revision = @ + 1]
        row  == [g EXCEPT !.edges = Put(@, o.on, edge)]
        held == InsertAnchors(row, "edge", o.on, o.pins, edge.revision)
    IN  IF \/ ~HasEdge(g, o.on)
           \/ g.edges[o.on].status # "current"
           \/ ~ExpectRevision(g.edges[o.on], o.at)
           \/ ~held.ok
        THEN Refused(g)
        ELSE Accepted(Noted(held.graph, "edge", o.on, edge.revision))

Applied(g, o) ==
    CASE o.op = "remember" -> CreateNode(g, o)
      [] o.op = "revise" -> UpdateNode(g, o)
      [] o.op \in {"archive", "supersede"} -> LeaveNode(g, o)
      [] o.op = "task_status" -> SetTaskStatus(g, o)
      [] o.op = "relate" -> CreateEdge(g, o)
      [] o.op \in {"revise_relation", "retire_relation"} -> ChangeEdge(g, o)

-------------------------------------------------------------------------------
IndexRow(g, id) == [id |-> id, text |-> g.nodes[id].text]

(* Mutant of RefreshIndex: only rows that are written anew are deleted.    *)
RefreshWritten(g) ==
    LET written == {n \in g.new \union g.dirty : IsCurrent(g, n)}
        kept == {r \in g.index : r.id \notin written}
    IN  [g EXCEPT !.index = kept \union {IndexRow(g, id) : id \in written},
                  !.new = {}, !.dirty = {}]

(* The index is written once for a changeset: the rows of the nodes it     *)
(* changed are deleted, and those that are current are written anew.       *)
RefreshIndex(g) ==
    LET kept == {r \in g.index : r.id \notin g.dirty \ g.new}
        anew == {IndexRow(g, id) : id \in {n \in g.new \union g.dirty : IsCurrent(g, n)}}
    IN  [g EXCEPT !.index = kept \union anew, !.new = {}, !.dirty = {}]

(* What the first operations lead to, up to the one that is refused.       *)
StepsOf(g, ops) ==
    LET step[i \in 0 .. Len(ops)] ==
          IF i = 0 THEN Accepted(g)
          ELSE IF step[i - 1].ok THEN Applied(step[i - 1].graph, ops[i])
          ELSE step[i - 1]
    IN  step

(* A changeset is one transaction: the first operation that is refused     *)
(* takes all of them back.                                                 *)
ApplyGraphOperations(g, ops) ==
    LET last == StepsOf(g, ops)[Len(ops)]
    IN  IF last.ok THEN Accepted(RefreshIndex(last.graph)) ELSE Refused(g)

-------------------------------------------------------------------------------
(* A recall: the nodes that match, then those one relation away from them. *)
Matched(g, ids, wanted) ==
    {n \in DOMAIN g.nodes : IsCurrent(g, n) /\ (n \in ids \/ (wanted /\ \E r \in g.index : r.id = n))}

Neighbours(g, matched) ==
    {n \in DOMAIN g.nodes \ matched : IsCurrent(g, n) /\
        \E e \in DOMAIN g.edges : /\ g.edges[e].status = "current"
                                  /\ \/ g.edges[e].source = n /\ g.edges[e].target \in matched
                                     \/ g.edges[e].target = n /\ g.edges[e].source \in matched}

Ascending(ids) ==
    [k \in 1 .. Cardinality(ids) |->
        CHOOSE n \in ids : Cardinality({m \in ids : m < n}) = k - 1]
Latest(ids) ==
    [k \in 1 .. Cardinality(ids) |->
        CHOOSE n \in ids : Cardinality({m \in ids : m > n}) = k - 1]

(* The latest first; neighbours after, by their identity.                  *)
RecallItems(g, ids, wanted, neighbours) ==
    LET matched == Matched(g, ids, wanted) IN
    Latest(matched) \o (IF neighbours THEN Ascending(Neighbours(g, matched)) ELSE <<>>)

(* The events of a node, a relation or a task: its history.                *)
HistoryOf(g, entity, id) ==
    {e.revision : e \in {e \in g.events : e.entity = entity /\ e.id = id}}

===============================================================================
