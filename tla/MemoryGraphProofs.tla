--------------------------- MODULE MemoryGraphProofs ---------------------------
(***************************************************************************)
(* The promises of MemoryGraph, proved for any number of sessions, memories*)
(* and turns, any sizes of pages, and any changesets learned before.       *)
(*                                                                         *)
(* The graph alone has an invariant that every operation of a changeset    *)
(* keeps (GraphHolds); what a session was shown, and what its delta was    *)
(* written on, is an earlier state of the graph (SessionHolds, DeltaFits): *)
(* if the revision is still the one that was shown, so are the words.      *)
(***************************************************************************)
EXTENDS MemoryGraph, FiniteSetTheorems, SequenceTheorems, WellFoundedInduction,
        TLAPS

(* The rows of the tables.                                                 *)
NodeT == [domain : {"knowledge", "task"}, kind : {"note", "task"}, text : SUBSET Nat,
          status : {"current", "archived", "superseded"}, revision : Nat \ {0}]
EdgeT == [source : Nat, target : Nat, status : {"current", "retired"},
          revision : Nat \ {0}]

Tables(g) ==
    g \in [nodes : {g.nodes}, tasks : {g.tasks}, edges : {g.edges},
           anchors : {g.anchors}, events : {g.events}, index : {g.index},
           new : {g.new}, dirty : {g.dirty}]

GraphTyped(g) ==
    /\ Tables(g)
    /\ DOMAIN g.nodes \subseteq Nat \ {0}
    /\ \A n \in DOMAIN g.nodes : g.nodes[n] \in NodeT
    /\ \A n \in DOMAIN g.tasks : g.tasks[n] \in TaskRow
    /\ \A e \in DOMAIN g.edges : g.edges[e] \in EdgeT
    /\ \E k \in Nat : DOMAIN g.edges = 1..k

(* The tables fit one another: a task has its state, an open one is a      *)
(* current node, and a relation has its ends.                              *)
Linked(g) ==
    /\ DOMAIN g.tasks = {n \in DOMAIN g.nodes : g.nodes[n].kind = "task"}
    /\ \A n \in DOMAIN g.tasks :
          g.tasks[n].state \in OpenStates => g.nodes[n].status = "current"
    /\ \A e \in DOMAIN g.edges :
          HasNode(g, g.edges[e].source) /\ HasNode(g, g.edges[e].target)

(* The events of a table are those of the revisions of its rows.           *)
Told(table, entity, events) ==
    \A n, r : Event(entity, n, r) \in events <=>
                 n \in DOMAIN table /\ r \in 1..table[n].revision

Exists(g, entity, id, revision) ==
    \/ entity = "node" /\ HasNode(g, id) /\ revision \in 1..g.nodes[id].revision
    \/ entity = "edge" /\ HasEdge(g, id) /\ revision \in 1..g.edges[id].revision

Recorded(g) ==
    /\ \A e \in g.events : e = Event(e.entity, e.id, e.revision)
    /\ Told(g.nodes, "node", g.events)
    /\ Told(g.edges, "edge", g.events)
    /\ Told(g.tasks, "task", g.events)
    /\ \A a \in g.anchors : /\ Exists(g, a.entity, a.id, a.at)
                            /\ Exists(g, a.pin.entity, a.pin.id, a.pin.revision)

(* A memory rests on memories of a lower rank, except itself.              *)
Ranked(g) ==
    \E top \in Nat : \E rank \in [DOMAIN g.nodes -> 0..top] :
        \A n \in DOMAIN g.nodes : \A m \in PinnedCurrent(g, n) :
            m # n => rank[m] < rank[n]

(* The index is current but for the nodes a changeset has written so far.  *)
Indexed(g) ==
    /\ g.new \union g.dirty \subseteq DOMAIN g.nodes
    /\ \A x \in g.index : x.id \in DOMAIN g.nodes /\ x.id \notin g.new
    /\ \A n \in DOMAIN g.nodes : n \notin g.new \union g.dirty =>
          /\ \A x \in g.index : x.id = n => IsCurrent(g, n) /\ x = IndexRow(g, n)
          /\ IsCurrent(g, n) => IndexRow(g, n) \in g.index

(* What every operation of a changeset keeps.                              *)
GraphHolds(g) == GraphTyped(g) /\ Linked(g) /\ Recorded(g) /\ Ranked(g) /\ Indexed(g)

(* A graph that comes after another: rows stay, and a row that changed has *)
(* a later revision.  No word of a memory is lost.                         *)
Later(g, r) ==
    \A n \in DOMAIN g.nodes :
        /\ n \in DOMAIN r.nodes
        /\ g.nodes[n].revision <= r.nodes[n].revision
        /\ g.nodes[n].revision = r.nodes[n].revision => r.nodes[n] = g.nodes[n]

(* The operations as they come.                                            *)
Ops == {"remember", "revise", "archive", "supersede", "task_status", "relate",
        "revise_relation", "retire_relation"}

OpTyped(o) ==
    /\ o.op \in Ops /\ o.kind \in {"none", "note", "task"} /\ o.text \in SUBSET Nat
    /\ o.op = "remember" => o.on \in Nat \ {0} /\ o.kind # "none"
    /\ o.op = "task_status" => o.to \in States

WordsIn(g) == UNION {g.nodes[n].text : n \in DOMAIN g.nodes}

-------------------------------------------------------------------------------
Places == {"off", "version", "run", "think", "apply", "bind", "operate", "page",
           "free", "wait", "done"}

(* What a session was shown is an earlier state of the memory.             *)
SeenEarlier(t, g) ==
    \A n \in DOMAIN t.seen.nodes :
        /\ t.seen.nodes[n] \in NodeT
        /\ HasNode(g, n)
        /\ t.seen.nodes[n].text \subseteq g.nodes[n].text
        /\ t.seen.nodes[n].revision <= g.nodes[n].revision
        /\ t.seen.nodes[n].revision = g.nodes[n].revision
              => t.seen.nodes[n] = g.nodes[n]

(* What it was told of its recalls, and where its cursors stand.           *)
ToldExactly(t, chosen) ==
    /\ \A id \in DOMAIN t.told :
          /\ id \in 1..Len(chosen)
          /\ Len(t.told[id]) \in 0..Len(chosen[id])
          /\ t.told[id] = SubSeq(chosen[id], 1, Len(t.told[id]))
    /\ \A id \in t.whole : id \in DOMAIN t.told /\ t.told[id] = chosen[id]
    /\ \A f \in t.open :
          /\ f.snapshot \in DOMAIN t.told
          /\ f.after = Len(t.told[f.snapshot])
          /\ f.after < Len(chosen[f.snapshot])
          /\ \A h \in t.open : h.snapshot = f.snapshot => h = f

Shaped(t) ==
    t \in [pc : {t.pc}, view : {t.view}, overview : {t.overview}, seen : {t.seen},
           refs : {t.refs}, delta : {t.delta}, recall : {t.recall}, open : {t.open},
           task : {t.task}, epoch : {t.epoch}, told : {t.told}, whole : {t.whole}]

SessionHolds(t, g, chosen) ==
    /\ Shaped(t) /\ t.pc \in Places /\ t.epoch \in 0..MaxEpoch
    /\ SeenEarlier(t, g)
    /\ ToldExactly(t, chosen)
    /\ t.pc = "page" => t.recall \in 1..Len(chosen) /\ t.recall \notin DOMAIN t.told

(* An operation holds words only if it is the first of its delta: the new  *)
(* ones (its number), and those the memory had when it was shown.          *)
OpFits(o, g, number, given) ==
    /\ OpTyped(o)
    /\ o.op = "remember" => o.on \in 1..given /\ o.text = {number}
    /\ o.op = "revise" /\ o.text # {} =>
          /\ HasNode(g, o.on)
          /\ o.at \in Nat /\ o.at <= g.nodes[o.on].revision
          /\ o.text \subseteq g.nodes[o.on].text \union {number}
          /\ o.at = g.nodes[o.on].revision =>
                o.text = g.nodes[o.on].text \union {number}
    /\ o.op \notin {"remember", "revise"} => o.text = {}

(* A delta is of one operation or two.                                     *)
DeltaFits(d, g, count, given, rejected) ==
    /\ d.number \in 1..count /\ d.number \notin rejected /\ d.number \notin WordsIn(g)
    /\ Len(d.ops) \in {1, 2} /\ DOMAIN d.ops = 1..Len(d.ops)
    /\ \A i \in 1..Len(d.ops) : OpFits(d.ops[i], g, d.number, given)
    /\ Len(d.ops) = 2 => d.ops[2].op \notin {"remember", "revise"}

(* The file is there before anyone uses it.                                *)
StoreHolds ==
    /\ store \in {"absent", "bare", "ready"}
    /\ store # "ready" =>
          /\ graph = EmptyGraph /\ DOMAIN snapshots = {}
          /\ \A s \in Sessions : /\ session[s].pc \in {"off", "version"}
                                 /\ pending[s] = NoPending

CountersHold ==
    /\ deltas \in Nat /\ named \in Nat /\ waits \in 0..MaxWaits /\ faults \in 0..MaxFaults
    /\ refused \subseteq 1..deltas

Once(items, ids) ==
    /\ items \in Seq(ids)
    /\ \A j, k \in 1..Len(items) : items[j] = items[k] => j = k

(* The selections, as they are in the store and as they were made.         *)
SelectionsHold ==
    /\ selected \in Seq(Seq(Nat))
    /\ \A i \in 1..Len(selected) : Once(selected[i], Nat)
    /\ \A id \in DOMAIN snapshots : id \in 1..Len(selected)
                                    /\ snapshots[id].items = selected[id]

GraphIsKept ==
    /\ GraphHolds(graph) /\ graph.new = {} /\ graph.dirty = {}
    /\ DOMAIN graph.nodes \subseteq 1..named
    /\ WordsIn(graph) \subseteq (0..deltas) \ refused
    /\ \A a \in accepted : HasNode(graph, a.id) /\ a.text \in graph.nodes[a.id].text

SessionsHold ==
    /\ session = [s \in Sessions |-> session[s]]
    /\ pending = [s \in Sessions |-> pending[s]]
    /\ \A s \in Sessions :
          /\ SessionHolds(session[s], graph, selected)
          /\ pending[s] # NoPending =>
                SessionHolds(pending[s], graph, selected) /\ pending[s].pc = "run"
          /\ session[s].pc = "wait" => pending[s] # NoPending
          /\ session[s].pc = "apply" =>
                DeltaFits(session[s].delta, graph, deltas, named, refused)
          /\ \A t \in Sessions :
                session[s].pc = "apply" /\ session[t].pc = "apply" /\ s # t
                => session[s].delta.number # session[t].delta.number

MemoryIInv ==
    CountersHold /\ StoreHolds /\ SelectionsHold /\ GraphIsKept /\ SessionsHold

-------------------------------------------------------------------------------
(* The history of a table when a row is written: the next revision of it,  *)
(* or the first one of a new row.                                          *)
LEMMA HistoryGrows ==
    ASSUME NEW table, NEW entity, NEW events, NEW id, NEW row, NEW more,
           Told(table, entity, events),
           \A n \in DOMAIN table : table[n].revision \in Nat \ {0},
           row.revision = IF id \in DOMAIN table THEN table[id].revision + 1 ELSE 1,
           \A n, r : Event(entity, n, r) \in more <=> n = id /\ r = row.revision
    PROVE  Told(Put(table, id, row), entity, events \union more)
<1> DEFINE to == Put(table, id, row)
<1>1. /\ DOMAIN to = DOMAIN table \union {id} /\ to[id] = row
      /\ \A n \in DOMAIN table : n # id => to[n] = table[n]
  BY DEF Put
<1> HIDE DEF to
<1>2. ASSUME NEW n, NEW r
      PROVE  Event(entity, n, r) \in events \union more <=>
                 n \in DOMAIN to /\ r \in 1..to[n].revision
  <2>1. Event(entity, n, r) \in events <=> n \in DOMAIN table /\ r \in 1..table[n].revision
    BY DEF Told
  <2>2. CASE n # id
    BY <2>1, <2>2, <1>1
  <2>3. CASE n = id /\ id \in DOMAIN table
    <3>1. r \in 1..to[n].revision <=> r \in 1..table[n].revision \/ r = row.revision
      BY <2>3, <1>1
    <3>2. QED
      BY <2>1, <2>3, <1>1, <3>1
  <2>4. CASE n = id /\ id \notin DOMAIN table
    <3>1. r \in 1..to[n].revision <=> r = row.revision
      BY <2>4, <1>1
    <3>2. QED
      BY <2>1, <2>4, <1>1, <3>1
  <2>5. QED
    BY <2>2, <2>3, <2>4
<1>3. QED
  BY <1>2 DEF Told, to

LEMMA HistoryStays ==
    ASSUME NEW table, NEW entity, NEW events, NEW more,
           Told(table, entity, events), \A n, r : Event(entity, n, r) \notin more
    PROVE  Told(table, entity, events \union more)
BY DEF Told

-------------------------------------------------------------------------------
(* What the operations do, table by table.                                 *)
AnchorsOf(entity, id, at, pins) ==
    {[entity |-> entity, id |-> id, at |-> at, pin |-> p] : p \in pins}

(* What is pinned was there, or is the row that is being written.          *)
PinsThere(pins, nodes, edges, events) ==
    \A p \in pins :
        /\ p.revision >= 1
        /\ \/ /\ p.entity = "node" /\ p.id \in DOMAIN nodes
              /\ nodes[p.id].revision = p.revision \/ Event("node", p.id, p.revision) \in events
           \/ /\ p.entity = "edge" /\ p.id \in DOMAIN edges
              /\ edges[p.id].revision = p.revision \/ Event("edge", p.id, p.revision) \in events

FirstState == [state |-> "active", revision |-> 1]

(* An event is added, and nothing else changes; the same of anchors.       *)
LEMMA NotedIs ==
    ASSUME NEW g, Tables(g), NEW entity, NEW id, NEW revision
    PROVE  LET r == Noted(g, entity, id, revision) IN
           /\ Tables(r)
           /\ r.nodes = g.nodes /\ r.tasks = g.tasks /\ r.edges = g.edges
           /\ r.anchors = g.anchors
           /\ r.events = g.events \union {Event(entity, id, revision)}
           /\ r.index = g.index /\ r.new = g.new /\ r.dirty = g.dirty
BY DEF Noted, Tables

LEMMA InsertAnchorsIs ==
    ASSUME NEW g, Tables(g), NEW entity, NEW id, NEW pins, NEW revision
    PROVE  LET i == InsertAnchors(g, entity, id, pins, revision)
               r == i.graph
           IN  /\ i.ok => PinsThere(pins, g.nodes, g.edges, g.events)
               /\ Tables(r)
               /\ r.nodes = g.nodes /\ r.tasks = g.tasks /\ r.edges = g.edges
               /\ r.anchors = g.anchors \union AnchorsOf(entity, id, revision, pins)
               /\ r.events = g.events
               /\ r.index = g.index /\ r.new = g.new /\ r.dirty = g.dirty
<1> DEFINE r == InsertAnchors(g, entity, id, pins, revision).graph
<1>1. r = [g EXCEPT !.anchors = g.anchors \union AnchorsOf(entity, id, revision, pins)]
  BY DEF InsertAnchors, AnchorsOf
<1>2. InsertAnchors(g, entity, id, pins, revision).ok
          => PinsThere(pins, g.nodes, g.edges, g.events)
  BY DEF InsertAnchors, PinsThere, SourceRevisionExists, HasNode, HasEdge
<1> HIDE DEF r
<1>3. /\ Tables(r)
      /\ r.nodes = g.nodes /\ r.tasks = g.tasks /\ r.edges = g.edges
      /\ r.anchors = g.anchors \union AnchorsOf(entity, id, revision, pins)
      /\ r.events = g.events
      /\ r.index = g.index /\ r.new = g.new /\ r.dirty = g.dirty
  BY <1>1 DEF Tables
<1>4. QED
  BY <1>2, <1>3 DEF r

(* A task gets its first state.                                            *)
LEMMA CreateTaskStateIs ==
    ASSUME NEW g, Tables(g), NEW id
    PROVE  LET r == CreateTaskState(g, id) IN
           /\ Tables(r)
           /\ r.nodes = g.nodes /\ r.edges = g.edges /\ r.anchors = g.anchors
           /\ r.tasks = Put(g.tasks, id, FirstState)
           /\ r.events = g.events \union {Event("task", id, 1)}
           /\ r.index = g.index /\ r.new = g.new /\ r.dirty = g.dirty
<1> DEFINE h == [g EXCEPT !.tasks = Put(g.tasks, id, FirstState)]
<1>1. CreateTaskState(g, id) = Noted(h, "task", id, 1)
  BY DEF CreateTaskState, FirstState
<1>2. /\ Tables(h)
      /\ h.nodes = g.nodes /\ h.edges = g.edges /\ h.anchors = g.anchors
      /\ h.tasks = Put(g.tasks, id, FirstState) /\ h.events = g.events
      /\ h.index = g.index /\ h.new = g.new /\ h.dirty = g.dirty
  BY DEF Tables
<1> HIDE DEF h
<1>3. QED
  BY <1>1, <1>2, NotedIs

(* The graph after a node is written: born is whether it becomes a task by *)
(* that, gone whether another node takes its place.                        *)
NewEvents(g, id, revision, born, gone) ==
    {Event("node", id, revision)}
    \union (IF born THEN {Event("task", id, 1)} ELSE {})
    \union (IF gone THEN {Event("edge", NewEdge(g), 1)} ELSE {})

NodeWritten(g, r, id, row, pins, born, gone, to) ==
    /\ Tables(r)
    /\ r.nodes = Put(g.nodes, id, row)
    /\ PinsThere(pins, r.nodes, g.edges, g.events)
    /\ r.anchors = g.anchors \union AnchorsOf("node", id, row.revision, pins)
    /\ r.tasks = IF born THEN Put(g.tasks, id, FirstState) ELSE g.tasks
    /\ r.edges = IF gone THEN Put(g.edges, NewEdge(g), Edge(id, to)) ELSE g.edges
    /\ r.events = g.events \union NewEvents(g, id, row.revision, born, gone)
    /\ r.index = g.index

LEMMA CreateNodeIs ==
    ASSUME NEW g, Tables(g), NEW o, CreateNode(g, o).ok
    PROVE  LET r == CreateNode(g, o).graph
               row == Node(IF o.kind = "task" THEN "task" ELSE "knowledge", o.kind, o.text)
           IN  /\ ~HasNode(g, o.on)
               /\ NodeWritten(g, r, o.on, row, o.pins, o.kind = "task", FALSE, 0)
               /\ r.new = g.new \union {o.on} /\ r.dirty = g.dirty
<1> DEFINE row == Node(IF o.kind = "task" THEN "task" ELSE "knowledge", o.kind, o.text)
           nodes == Put(g.nodes, o.on, row)
           g1 == [g EXCEPT !.nodes = nodes]
           held == InsertAnchors(g1, "node", o.on, o.pins, 1)
           h == held.graph
           t == IF o.kind = "task" THEN CreateTaskState(h, o.on) ELSE h
           n == Noted(t, "node", o.on, 1)
           r == [n EXCEPT !.new = @ \union {o.on}]
<1>1. CreateNode(g, o) = IF HasNode(g, o.on) \/ ~held.ok THEN Refused(g) ELSE Accepted(r)
  BY DEF CreateNode
<1>2. /\ Tables(g1)
      /\ g1.nodes = nodes /\ g1.tasks = g.tasks /\ g1.edges = g.edges
      /\ g1.anchors = g.anchors /\ g1.events = g.events
      /\ g1.index = g.index /\ g1.new = g.new /\ g1.dirty = g.dirty
  BY DEF Tables
<1>w. row.revision = 1
  BY DEF Node
<1> HIDE DEF g1, nodes, row
<1>3. /\ held.ok => PinsThere(o.pins, nodes, g.edges, g.events)
      /\ Tables(h)
      /\ h.nodes = nodes /\ h.tasks = g.tasks /\ h.edges = g.edges
      /\ h.anchors = g.anchors \union AnchorsOf("node", o.on, 1, o.pins)
      /\ h.events = g.events
      /\ h.index = g.index /\ h.new = g.new /\ h.dirty = g.dirty
  BY <1>2, InsertAnchorsIs
<1> HIDE DEF h, held
<1>4. /\ Tables(t) /\ t.nodes = nodes /\ t.edges = g.edges /\ t.anchors = h.anchors
      /\ t.tasks = (IF o.kind = "task" THEN Put(g.tasks, o.on, FirstState) ELSE g.tasks)
      /\ t.events = (IF o.kind = "task"
                     THEN g.events \union {Event("task", o.on, 1)} ELSE g.events)
      /\ t.index = g.index /\ t.new = g.new /\ t.dirty = g.dirty
  <2>1. CASE o.kind = "task"
    <3>1. t = CreateTaskState(h, o.on)
      BY <2>1
    <3> HIDE DEF t
    <3>2. QED
      BY <2>1, <3>1, <1>3, CreateTaskStateIs
  <2>2. CASE o.kind # "task"
    BY <2>2, <1>3
  <2>3. QED
    BY <2>1, <2>2
<1> HIDE DEF t
<1>5. /\ Tables(n) /\ n.nodes = nodes /\ n.edges = g.edges /\ n.anchors = h.anchors
      /\ n.tasks = t.tasks /\ n.events = t.events \union {Event("node", o.on, 1)}
      /\ n.index = g.index /\ n.new = g.new /\ n.dirty = g.dirty
  BY <1>4, NotedIs
<1> HIDE DEF n
<1>6. /\ Tables(r) /\ r.nodes = n.nodes /\ r.edges = n.edges /\ r.anchors = n.anchors
      /\ r.tasks = n.tasks /\ r.events = n.events /\ r.index = n.index
      /\ r.new = n.new \union {o.on} /\ r.dirty = n.dirty
  BY <1>5 DEF Tables
<1> HIDE DEF r
<1>7. ~HasNode(g, o.on) /\ held.ok /\ CreateNode(g, o).graph = r
  BY <1>1 DEF Refused, Accepted
<1>8. r.events = g.events \union NewEvents(g, o.on, 1, o.kind = "task", FALSE)
  BY <1>4, <1>5, <1>6 DEF NewEvents
<1>9. NodeWritten(g, r, o.on, row, o.pins, o.kind = "task", FALSE, 0)
  BY <1>3, <1>4, <1>5, <1>6, <1>7, <1>8, <1>w, ZenonT(240) DEF NodeWritten, nodes
<1>10. QED
  BY <1>3, <1>4, <1>5, <1>6, <1>7, <1>9 DEF row

(* A node is revised.                                                      *)
Revised(g, o) ==
    [g.nodes[o.on] EXCEPT !.revision = @ + 1,
                          !.kind = IF o.kind = "none" THEN @ ELSE o.kind,
                          !.text = IF o.text = {} THEN @ ELSE o.text]

LEMMA UpdateNodeIs ==
    ASSUME NEW g, Tables(g), NEW o, UpdateNode(g, o).ok
    PROVE  LET r == UpdateNode(g, o).graph
               row == Revised(g, o)
               born == row.kind = "task" /\ ~HasTask(g, o.on)
           IN  /\ IsCurrent(g, o.on) /\ g.nodes[o.on].revision = o.at
               /\ HasTask(g, o.on) => row.kind = "task"
               /\ NodeWritten(g, r, o.on, row, o.pins, born, FALSE, 0)
               /\ r.new = g.new /\ r.dirty = g.dirty \union {o.on}
<1> DEFINE row == Revised(g, o)
           nodes == Put(g.nodes, o.on, row)
           revision == row.revision
           g1 == [g EXCEPT !.nodes = nodes]
           held == InsertAnchors(g1, "node", o.on, o.pins, revision)
           h == held.graph
           born == row.kind = "task" /\ ~HasTask(g, o.on)
           t == IF born THEN CreateTaskState(h, o.on) ELSE h
           n == Noted(t, "node", o.on, revision)
           r == [n EXCEPT !.dirty = @ \union {o.on}]
<1>1. UpdateNode(g, o) =
          IF \/ ~IsCurrent(g, o.on)
             \/ ~ExpectRevision(g.nodes[o.on], o.at)
             \/ HasTask(g, o.on) /\ row.kind # "task"
             \/ ~held.ok
          THEN Refused(g) ELSE Accepted(r)
  BY ZenonT(240) DEF UpdateNode, Revised
<1> HIDE DEF r
<1>2. /\ IsCurrent(g, o.on) /\ ExpectRevision(g.nodes[o.on], o.at)
      /\ (HasTask(g, o.on) => row.kind = "task")
      /\ held.ok /\ UpdateNode(g, o).graph = r
  <2> HIDE DEF held, row
  <2>1. QED
    BY <1>1 DEF Refused, Accepted, ExpectRevision, IsCurrent
<1>5. /\ Tables(g1)
      /\ g1.nodes = nodes /\ g1.tasks = g.tasks /\ g1.edges = g.edges
      /\ g1.anchors = g.anchors /\ g1.events = g.events
      /\ g1.index = g.index /\ g1.new = g.new /\ g1.dirty = g.dirty
  BY DEF Tables
<1> HIDE DEF nodes, row, revision, g1
<1>6. /\ PinsThere(o.pins, nodes, g.edges, g.events)
      /\ Tables(h)
      /\ h.nodes = nodes /\ h.tasks = g.tasks /\ h.edges = g.edges
      /\ h.anchors = g.anchors \union AnchorsOf("node", o.on, revision, o.pins)
      /\ h.events = g.events
      /\ h.index = g.index /\ h.new = g.new /\ h.dirty = g.dirty
  BY <1>2, <1>5, InsertAnchorsIs
<1> HIDE DEF h, held, born
<1>7. /\ Tables(t) /\ t.nodes = nodes /\ t.edges = g.edges /\ t.anchors = h.anchors
      /\ t.tasks = (IF born THEN Put(g.tasks, o.on, FirstState) ELSE g.tasks)
      /\ t.events = (IF born THEN g.events \union {Event("task", o.on, 1)} ELSE g.events)
      /\ t.index = g.index /\ t.new = g.new /\ t.dirty = g.dirty
  <2>1. CASE born
    <3>1. t = CreateTaskState(h, o.on)
      BY <2>1
    <3> HIDE DEF t
    <3>2. QED
      BY <2>1, <3>1, <1>6, CreateTaskStateIs
  <2>2. CASE ~born
    BY <2>2, <1>6
  <2>3. QED
    BY <2>1, <2>2
<1> HIDE DEF t
<1>8. /\ Tables(n) /\ n.nodes = nodes /\ n.edges = g.edges /\ n.anchors = h.anchors
      /\ n.tasks = t.tasks /\ n.events = t.events \union {Event("node", o.on, revision)}
      /\ n.index = g.index /\ n.new = g.new /\ n.dirty = g.dirty
  BY <1>7, NotedIs
<1> HIDE DEF n
<1>9. /\ Tables(r) /\ r.nodes = n.nodes /\ r.edges = n.edges /\ r.anchors = n.anchors
      /\ r.tasks = n.tasks /\ r.events = n.events /\ r.index = n.index
      /\ r.dirty = n.dirty \union {o.on} /\ r.new = n.new
  BY <1>8 DEF Tables, r
<1>10. r.events = g.events \union NewEvents(g, o.on, revision, born, FALSE)
  BY <1>7, <1>8, <1>9 DEF NewEvents
<1>11. NodeWritten(g, r, o.on, row, o.pins, born, FALSE, 0)
  BY <1>6, <1>7, <1>8, <1>9, <1>10 DEF NodeWritten, nodes, revision
<1>12. g.nodes[o.on].revision = o.at
  BY <1>2 DEF ExpectRevision
<1>13. QED
  BY <1>2, <1>6, <1>7, <1>8, <1>9, <1>11, <1>12 DEF row, born

(* A node is archived or superseded.                                       *)
Left(g, o) ==
    [g.nodes[o.on] EXCEPT !.status = IF o.op = "archive" THEN "archived" ELSE "superseded",
                          !.revision = @ + 1]

LEMMA LeaveNodeIs ==
    ASSUME NEW g, Tables(g), NEW o, LeaveNode(g, o).ok
    PROVE  LET r == LeaveNode(g, o).graph
               row == Left(g, o)
               gone == o.op = "supersede"
           IN  /\ IsCurrent(g, o.on) /\ g.nodes[o.on].revision = o.at
               /\ MayLeave(g, o.on)
               /\ gone => HasNode(g, o.to)
               /\ NodeWritten(g, r, o.on, row, {}, FALSE, gone, o.to)
               /\ r.new = g.new /\ r.dirty = g.dirty \union {o.on}
<1> DEFINE row == Left(g, o)
           nodes == Put(g.nodes, o.on, row)
           revision == row.revision
           g1 == [g EXCEPT !.nodes = nodes]
           edge == NewEdge(g)
           g2 == [g1 EXCEPT !.edges = Put(@, edge, Edge(o.on, o.to))]
           link == Noted(g2, "edge", edge, 1)
           gone == o.op = "supersede"
           t == IF gone THEN link ELSE g1
           n == Noted(t, "node", o.on, revision)
           r == [n EXCEPT !.dirty = @ \union {o.on}]
<1>1. LeaveNode(g, o) =
          IF \/ ~IsCurrent(g, o.on)
             \/ ~ExpectRevision(g.nodes[o.on], o.at)
             \/ ~MayLeave(g, o.on)
             \/ gone /\ ~HasNode(g1, o.to)
          THEN Refused(g) ELSE Accepted(r)
  BY DEF LeaveNode, Left
<1> HIDE DEF r
<1>2. /\ IsCurrent(g, o.on) /\ ExpectRevision(g.nodes[o.on], o.at)
      /\ MayLeave(g, o.on) /\ (gone => HasNode(g1, o.to))
      /\ LeaveNode(g, o).graph = r
  <2> HIDE DEF row, g1
  <2>1. QED
    BY <1>1 DEF Refused, Accepted, ExpectRevision, IsCurrent, MayLeave, HasNode
<1>3. /\ Tables(g1)
      /\ g1.nodes = nodes /\ g1.tasks = g.tasks /\ g1.edges = g.edges
      /\ g1.anchors = g.anchors /\ g1.events = g.events
      /\ g1.index = g.index /\ g1.new = g.new /\ g1.dirty = g.dirty
  BY DEF Tables
<1>4. gone => HasNode(g, o.to)
  BY <1>2, <1>3 DEF HasNode, IsCurrent, Put
<1> HIDE DEF nodes, row, revision, g1, edge
<1>5. /\ Tables(g2)
      /\ g2.nodes = nodes /\ g2.tasks = g.tasks
      /\ g2.edges = Put(g.edges, edge, Edge(o.on, o.to))
      /\ g2.anchors = g.anchors /\ g2.events = g.events
      /\ g2.index = g.index /\ g2.new = g.new /\ g2.dirty = g.dirty
  BY <1>3 DEF Tables
<1> HIDE DEF g2
<1>6. /\ Tables(link)
      /\ link.nodes = nodes /\ link.tasks = g.tasks
      /\ link.edges = Put(g.edges, edge, Edge(o.on, o.to))
      /\ link.anchors = g.anchors /\ link.events = g.events \union {Event("edge", edge, 1)}
      /\ link.index = g.index /\ link.new = g.new /\ link.dirty = g.dirty
  BY <1>5, NotedIs
<1> HIDE DEF link, gone
<1>7. /\ Tables(t) /\ t.nodes = nodes /\ t.tasks = g.tasks /\ t.anchors = g.anchors
      /\ t.edges = (IF gone THEN Put(g.edges, edge, Edge(o.on, o.to)) ELSE g.edges)
      /\ t.events = (IF gone THEN g.events \union {Event("edge", edge, 1)} ELSE g.events)
      /\ t.index = g.index /\ t.new = g.new /\ t.dirty = g.dirty
  <2>1. CASE gone
    BY <2>1, <1>6
  <2>2. CASE ~gone
    BY <2>2, <1>3
  <2>3. QED
    BY <2>1, <2>2
<1> HIDE DEF t
<1>8. /\ Tables(n) /\ n.nodes = nodes /\ n.tasks = g.tasks /\ n.anchors = g.anchors
      /\ n.edges = t.edges /\ n.events = t.events \union {Event("node", o.on, revision)}
      /\ n.index = g.index /\ n.new = g.new /\ n.dirty = g.dirty
  BY <1>7, NotedIs
<1> HIDE DEF n
<1>9. /\ Tables(r) /\ r.nodes = n.nodes /\ r.edges = n.edges /\ r.anchors = n.anchors
      /\ r.tasks = n.tasks /\ r.events = n.events /\ r.index = n.index
      /\ r.dirty = n.dirty \union {o.on} /\ r.new = n.new
  BY <1>8 DEF Tables, r
<1>10. r.events = g.events \union NewEvents(g, o.on, revision, FALSE, gone)
  BY <1>7, <1>8, <1>9 DEF NewEvents, edge
<1>11. PinsThere({}, r.nodes, g.edges, g.events) /\ AnchorsOf("node", o.on, revision, {}) = {}
  BY DEF PinsThere, AnchorsOf
<1>12. NodeWritten(g, r, o.on, row, {}, FALSE, gone, o.to)
  BY <1>7, <1>8, <1>9, <1>10, <1>11 DEF NodeWritten, nodes, revision, edge
<1>13. g.nodes[o.on].revision = o.at
  BY <1>2 DEF ExpectRevision
<1>14. QED
  BY <1>2, <1>4, <1>8, <1>9, <1>12, <1>13 DEF row, gone

(* The state of a task is written.                                         *)
TaskWritten(g, r, id, row) ==
    /\ Tables(r)
    /\ r.tasks = Put(g.tasks, id, row)
    /\ r.events = g.events \union {Event("task", id, row.revision)}
    /\ r.nodes = g.nodes /\ r.edges = g.edges /\ r.anchors = g.anchors
    /\ r.index = g.index /\ r.new = g.new /\ r.dirty = g.dirty

LEMMA SetTaskStatusIs ==
    ASSUME NEW g, Tables(g), NEW o, SetTaskStatus(g, o).ok
    PROVE  LET r == SetTaskStatus(g, o).graph
               row == [state |-> o.to, revision |-> g.tasks[o.on].revision + 1]
           IN  /\ IsCurrent(g, o.on) /\ HasTask(g, o.on)
               /\ r = g \/ TaskWritten(g, r, o.on, row)
<1> DEFINE row == [state |-> o.to, revision |-> g.tasks[o.on].revision + 1]
           tasks == Put(g.tasks, o.on, row)
           g1 == [g EXCEPT !.tasks = tasks]
           r == Noted(g1, "task", o.on, row.revision)
<1>1. SetTaskStatus(g, o) =
          IF \/ ~IsCurrent(g, o.on)
             \/ g.nodes[o.on].kind # "task"
             \/ ~HasTask(g, o.on)
             \/ ~ExpectRevision(g.tasks[o.on], o.at)
          THEN Refused(g)
          ELSE IF g.tasks[o.on].state = o.to THEN Accepted(g) ELSE Accepted(r)
  BY DEF SetTaskStatus
<1> HIDE DEF r
<1>2. /\ IsCurrent(g, o.on) /\ HasTask(g, o.on)
      /\ SetTaskStatus(g, o).graph = g \/ SetTaskStatus(g, o).graph = r
  BY <1>1 DEF Refused, Accepted, ExpectRevision, IsCurrent, HasTask
<1>3. /\ Tables(g1)
      /\ g1.nodes = g.nodes /\ g1.tasks = tasks /\ g1.edges = g.edges
      /\ g1.anchors = g.anchors /\ g1.events = g.events
      /\ g1.index = g.index /\ g1.new = g.new /\ g1.dirty = g.dirty
  BY DEF Tables
<1> HIDE DEF g1, tasks, row
<1>4. TaskWritten(g, r, o.on, row)
  BY <1>3, NotedIs DEF r, TaskWritten, tasks
<1>5. QED
  BY <1>2, <1>4 DEF row

(* A relation is written.                                                  *)
EdgeWritten(g, r, id, row, pins) ==
    /\ Tables(r)
    /\ r.edges = Put(g.edges, id, row)
    /\ PinsThere(pins, g.nodes, r.edges, g.events)
    /\ r.anchors = g.anchors \union AnchorsOf("edge", id, row.revision, pins)
    /\ r.events = g.events \union {Event("edge", id, row.revision)}
    /\ r.nodes = g.nodes /\ r.tasks = g.tasks
    /\ r.index = g.index /\ r.new = g.new /\ r.dirty = g.dirty

(* The row of a relation is written, and nothing else yet.                 *)
RowOnly(g, h, id, row) ==
    /\ Tables(h)
    /\ h.nodes = g.nodes /\ h.tasks = g.tasks /\ h.edges = Put(g.edges, id, row)
    /\ h.anchors = g.anchors /\ h.events = g.events
    /\ h.index = g.index /\ h.new = g.new /\ h.dirty = g.dirty

LEMMA RowOnlyIs ==
    ASSUME NEW g, Tables(g), NEW id, NEW row
    PROVE  RowOnly(g, [g EXCEPT !.edges = Put(@, id, row)], id, row)
BY DEF RowOnly, Tables

(* The part that creating and changing a relation share.                   *)
LEMMA WriteEdgeIs ==
    ASSUME NEW g, NEW h, NEW id, NEW row, RowOnly(g, h, id, row), NEW pins,
           InsertAnchors(h, "edge", id, pins, row.revision).ok
    PROVE  EdgeWritten(g, Noted(InsertAnchors(h, "edge", id, pins, row.revision).graph,
                                "edge", id, row.revision), id, row, pins)
<1> DEFINE edges == Put(g.edges, id, row)
           revision == row.revision
           held == InsertAnchors(h, "edge", id, pins, revision)
           k == held.graph
           r == Noted(k, "edge", id, revision)
<1>0. Tables(h)
  BY DEF RowOnly
<1>1. /\ held.ok => PinsThere(pins, h.nodes, h.edges, h.events)
      /\ Tables(k)
      /\ k.nodes = h.nodes /\ k.tasks = h.tasks /\ k.edges = h.edges
      /\ k.anchors = h.anchors \union AnchorsOf("edge", id, revision, pins)
      /\ k.events = h.events
      /\ k.index = h.index /\ k.new = h.new /\ k.dirty = h.dirty
  BY <1>0, InsertAnchorsIs
<1> HIDE DEF k, held, edges
<1>2. /\ PinsThere(pins, g.nodes, edges, g.events)
      /\ Tables(k)
      /\ k.nodes = g.nodes /\ k.tasks = g.tasks /\ k.edges = edges
      /\ k.anchors = g.anchors \union AnchorsOf("edge", id, revision, pins)
      /\ k.events = g.events
      /\ k.index = g.index /\ k.new = g.new /\ k.dirty = g.dirty
  BY <1>1 DEF RowOnly, edges, held
<1>3. /\ Tables(r)
      /\ r.nodes = k.nodes /\ r.tasks = k.tasks /\ r.edges = k.edges
      /\ r.anchors = k.anchors
      /\ r.events = k.events \union {Event("edge", id, revision)}
      /\ r.index = k.index /\ r.new = k.new /\ r.dirty = k.dirty
  BY <1>2, NotedIs
<1> HIDE DEF r
<1>4. EdgeWritten(g, r, id, row, pins)
  BY <1>2, <1>3 DEF EdgeWritten, edges
<1>5. QED
  BY <1>4 DEF r, k, held

LEMMA CreateEdgeIs ==
    ASSUME NEW g, Tables(g), NEW o, CreateEdge(g, o).ok
    PROVE  /\ HasNode(g, o.on) /\ HasNode(g, o.to)
           /\ EdgeWritten(g, CreateEdge(g, o).graph, NewEdge(g), Edge(o.on, o.to), o.pins)
<1> DEFINE edge == NewEdge(g)
           row == Edge(o.on, o.to)
           h == [g EXCEPT !.edges = Put(@, edge, row)]
           held == InsertAnchors(h, "edge", edge, o.pins, 1)
           r == Noted(held.graph, "edge", edge, 1)
<1>1. CreateEdge(g, o) =
          IF ~HasNode(g, o.on) \/ ~HasNode(g, o.to) \/ ~held.ok
          THEN Refused(g) ELSE Accepted(r)
  BY DEF CreateEdge
<1> HIDE DEF r, held
<1>2. HasNode(g, o.on) /\ HasNode(g, o.to) /\ held.ok /\ CreateEdge(g, o).graph = r
  BY <1>1 DEF Refused, Accepted, HasNode
<1>3. row.revision = 1
  BY DEF Edge
<1>5. RowOnly(g, h, edge, row)
  BY RowOnlyIs
<1> HIDE DEF row, h, edge
<1>4. EdgeWritten(g, Noted(held.graph, "edge", edge, 1), edge, row, o.pins)
  BY <1>2, <1>3, <1>5, WriteEdgeIs DEF held
<1>6. QED
  BY <1>2, <1>4 DEF r, row, edge

(* A relation is revised or retired: its ends stay.                        *)
Altered(g, o) ==
    [g.edges[o.on] EXCEPT !.status = IF o.op = "retire_relation" THEN "retired" ELSE "current",
                          !.revision = @ + 1]

LEMMA ChangeEdgeIs ==
    ASSUME NEW g, Tables(g), NEW o, ChangeEdge(g, o).ok
    PROVE  /\ HasEdge(g, o.on)
           /\ EdgeWritten(g, ChangeEdge(g, o).graph, o.on, Altered(g, o), o.pins)
<1> DEFINE row == Altered(g, o)
           revision == row.revision
           h == [g EXCEPT !.edges = Put(@, o.on, row)]
           held == InsertAnchors(h, "edge", o.on, o.pins, revision)
           r == Noted(held.graph, "edge", o.on, revision)
<1>1. ChangeEdge(g, o) =
          IF \/ ~HasEdge(g, o.on)
             \/ g.edges[o.on].status # "current"
             \/ ~ExpectRevision(g.edges[o.on], o.at)
             \/ ~held.ok
          THEN Refused(g) ELSE Accepted(r)
  BY DEF ChangeEdge, Altered
<1> HIDE DEF r, held
<1>2. HasEdge(g, o.on) /\ held.ok /\ ChangeEdge(g, o).graph = r
  BY <1>1 DEF Refused, Accepted, HasEdge, ExpectRevision
<1>3. RowOnly(g, h, o.on, row)
  BY RowOnlyIs
<1> HIDE DEF row, h
<1>4. EdgeWritten(g, Noted(held.graph, "edge", o.on, revision), o.on, row, o.pins)
  BY <1>2, <1>3, WriteEdgeIs DEF held
<1>5. QED
  BY <1>2, <1>4 DEF r, row

-------------------------------------------------------------------------------
(* What each of these writes does to the invariant of the graph.           *)

(* The tables only grow.                                                   *)
Grown(g, r) ==
    /\ \A n \in DOMAIN g.nodes : n \in DOMAIN r.nodes
                                 /\ g.nodes[n].revision <= r.nodes[n].revision
    /\ \A e \in DOMAIN g.edges : e \in DOMAIN r.edges
                                 /\ g.edges[e].revision <= r.edges[e].revision

Revisions(g) ==
    /\ \A n \in DOMAIN g.nodes : g.nodes[n].revision \in Nat \ {0}
    /\ \A e \in DOMAIN g.edges : g.edges[e].revision \in Nat \ {0}

LEMMA RevisionsAre ==
    ASSUME NEW g, GraphTyped(g) PROVE Revisions(g)
BY DEF GraphTyped, Revisions, NodeT, EdgeT

(* A revision that exists goes on to exist.                                *)
LEMMA ExistsStays ==
    ASSUME NEW g, NEW r, Revisions(g), Revisions(r), Grown(g, r),
           NEW entity, NEW id, NEW revision, Exists(g, entity, id, revision)
    PROVE  Exists(r, entity, id, revision)
<1>1. CASE entity = "node" /\ HasNode(g, id) /\ revision \in 1..g.nodes[id].revision
  BY <1>1 DEF Exists, Revisions, Grown, HasNode
<1>2. CASE entity = "edge" /\ HasEdge(g, id) /\ revision \in 1..g.edges[id].revision
  BY <1>2 DEF Exists, Revisions, Grown, HasEdge
<1>3. QED
  BY <1>1, <1>2 DEF Exists

(* What was pinned exists after the write.                                 *)
LEMMA PinsExist ==
    ASSUME NEW g, NEW r, Revisions(g), Revisions(r), Grown(g, r),
           Told(g.nodes, "node", g.events), Told(g.edges, "edge", g.events),
           NEW pins, NEW nodes, nodes \in {g.nodes, r.nodes},
           NEW edges, edges \in {g.edges, r.edges},
           PinsThere(pins, nodes, edges, g.events), NEW p \in pins
    PROVE  Exists(r, p.entity, p.id, p.revision)
<1>1. CASE p.entity = "node"
  <2>1. /\ p.id \in DOMAIN nodes /\ p.revision >= 1
        /\ nodes[p.id].revision = p.revision \/ Event("node", p.id, p.revision) \in g.events
    BY <1>1 DEF PinsThere
  <2>2. CASE Event("node", p.id, p.revision) \in g.events
    <3>1. p.id \in DOMAIN g.nodes /\ p.revision \in 1..g.nodes[p.id].revision
      BY <2>2 DEF Told
    <3>2. QED
      BY <1>1, <3>1, ExistsStays DEF Exists, HasNode
  <2>3. CASE nodes[p.id].revision = p.revision /\ nodes = r.nodes
    BY <1>1, <2>1, <2>3 DEF Exists, HasNode, Revisions
  <2>4. CASE nodes[p.id].revision = p.revision /\ nodes = g.nodes
    <3>1. p.id \in DOMAIN g.nodes /\ p.revision \in 1..g.nodes[p.id].revision
      BY <2>1, <2>4 DEF Revisions
    <3>2. QED
      BY <1>1, <3>1, ExistsStays DEF Exists, HasNode
  <2>5. QED
    BY <2>1, <2>2, <2>3, <2>4
<1>2. CASE p.entity # "node"
  <2>1. /\ p.entity = "edge" /\ p.id \in DOMAIN edges /\ p.revision >= 1
        /\ edges[p.id].revision = p.revision \/ Event("edge", p.id, p.revision) \in g.events
    BY <1>2 DEF PinsThere
  <2>2. CASE Event("edge", p.id, p.revision) \in g.events
    <3>1. p.id \in DOMAIN g.edges /\ p.revision \in 1..g.edges[p.id].revision
      BY <2>2 DEF Told
    <3>2. QED
      BY <2>1, <3>1, ExistsStays DEF Exists, HasEdge
  <2>3. CASE edges[p.id].revision = p.revision /\ edges = r.edges
    BY <2>1, <2>3 DEF Exists, HasEdge, Revisions
  <2>4. CASE edges[p.id].revision = p.revision /\ edges = g.edges
    <3>1. p.id \in DOMAIN g.edges /\ p.revision \in 1..g.edges[p.id].revision
      BY <2>1, <2>4 DEF Revisions
    <3>2. QED
      BY <2>1, <3>1, ExistsStays DEF Exists, HasEdge
  <2>5. QED
    BY <2>1, <2>2, <2>3, <2>4
<1>3. QED
  BY <1>1, <1>2

(* The anchors after the write of a row.                                   *)
LEMMA AnchorsExist ==
    ASSUME NEW g, NEW r, Revisions(g), Revisions(r), Grown(g, r), Recorded(g),
           NEW entity, NEW id, NEW at, Exists(r, entity, id, at),
           NEW pins, NEW nodes, nodes \in {g.nodes, r.nodes},
           NEW edges, edges \in {g.edges, r.edges},
           PinsThere(pins, nodes, edges, g.events),
           r.anchors = g.anchors \union AnchorsOf(entity, id, at, pins)
    PROVE  \A a \in r.anchors : /\ Exists(r, a.entity, a.id, a.at)
                                /\ Exists(r, a.pin.entity, a.pin.id, a.pin.revision)
<1> TAKE a \in r.anchors
<1>1. CASE a \in g.anchors
  <2>1. Exists(g, a.entity, a.id, a.at) /\ Exists(g, a.pin.entity, a.pin.id, a.pin.revision)
    BY <1>1 DEF Recorded
  <2>2. QED
    BY <2>1, ExistsStays
<1>2. CASE a \notin g.anchors
  <2>1. PICK p \in pins : a = [entity |-> entity, id |-> id, at |-> at, pin |-> p]
    BY <1>2 DEF AnchorsOf
  <2>2. Exists(r, p.entity, p.id, p.revision)
    BY PinsExist DEF Recorded
  <2>3. QED
    BY <2>1, <2>2
<1>3. QED
  BY <1>1, <1>2

(* The identity of a new relation.                                         *)
LEMMA NewEdgeIsNew ==
    ASSUME NEW g, GraphTyped(g)
    PROVE  /\ NewEdge(g) \in Nat \ {0} /\ NewEdge(g) \notin DOMAIN g.edges
           /\ DOMAIN g.edges \union {NewEdge(g)} = 1..NewEdge(g)
<1>1. PICK k \in Nat : DOMAIN g.edges = 1..k
  BY DEF GraphTyped
<1>2. Cardinality(1..k) = k
  BY FS_Interval
<1>3. NewEdge(g) = k + 1
  BY <1>1, <1>2 DEF NewEdge
<1>4. QED
  BY <1>1, <1>3

(* The ranks stay if the nodes and what they rest on do.                   *)
LEMMA RankedStays ==
    ASSUME NEW g, NEW r, Ranked(g), r.nodes = g.nodes, NEW id, NEW at, NEW pins,
           r.anchors = g.anchors \/ r.anchors = g.anchors \union AnchorsOf("edge", id, at, pins)
    PROVE  Ranked(r)
<1>1. \A n, m : AnchorsFor(r, "node", n, m) = AnchorsFor(g, "node", n, m)
  BY DEF AnchorsFor, AnchorsOf
<1>2. \A n \in DOMAIN g.nodes : PinnedCurrent(r, n) = PinnedCurrent(g, n)
  BY <1>1 DEF PinnedCurrent, HasNode
<1>3. QED
  BY <1>2 DEF Ranked

(* A node is written: what CreateNode, UpdateNode and LeaveNode have in    *)
(* common, and what their guards make sure of.                             *)
NodeStep(g, r, id, row, pins, born, gone, to) ==
    /\ NodeWritten(g, r, id, row, pins, born, gone, to)
    /\ id \in Nat \ {0} /\ row \in NodeT
    /\ row.revision = IF HasNode(g, id) THEN g.nodes[id].revision + 1 ELSE 1
    /\ HasNode(g, id) => IsCurrent(g, id)
    /\ born \in BOOLEAN /\ gone \in BOOLEAN
    /\ born => ~HasTask(g, id) /\ row.status = "current"
    /\ row.kind = "task" <=> born \/ HasTask(g, id)
    /\ HasTask(g, id) => g.tasks[id].state \in DoneStates \/ row.status = "current"
    /\ gone => HasNode(g, to)
    /\ \/ ~HasNode(g, id) /\ r.new = g.new \union {id} /\ r.dirty = g.dirty
       \/ HasNode(g, id) /\ r.new = g.new /\ r.dirty = g.dirty \union {id}

(* The tables before and after.                                            *)
NodeTables(g, r, id, row, born, gone, to) ==
    /\ DOMAIN r.nodes = DOMAIN g.nodes \union {id} /\ r.nodes[id] = row
    /\ \A n \in DOMAIN g.nodes : n # id => r.nodes[n] = g.nodes[n]
    /\ born => /\ id \notin DOMAIN g.tasks
               /\ DOMAIN r.tasks = DOMAIN g.tasks \union {id}
               /\ r.tasks[id] = FirstState
               /\ \A n \in DOMAIN g.tasks : r.tasks[n] = g.tasks[n]
    /\ ~born => r.tasks = g.tasks
    /\ gone => /\ DOMAIN r.edges = DOMAIN g.edges \union {NewEdge(g)}
               /\ NewEdge(g) \notin DOMAIN g.edges
               /\ r.edges[NewEdge(g)] = Edge(id, to)
               /\ \A e \in DOMAIN g.edges : r.edges[e] = g.edges[e]
    /\ ~gone => r.edges = g.edges

LEMMA NodeStepTables ==
    ASSUME NEW g, GraphHolds(g), NEW r, NEW id, NEW row, NEW pins, NEW born, NEW gone, NEW to,
           NodeStep(g, r, id, row, pins, born, gone, to)
    PROVE  NodeTables(g, r, id, row, born, gone, to)
<1>1. r.nodes = Put(g.nodes, id, row)
  BY DEF NodeStep, NodeWritten
<1>2. (born => r.tasks = Put(g.tasks, id, FirstState)) /\ (~born => r.tasks = g.tasks)
  BY DEF NodeStep, NodeWritten
<1>3. /\ (gone => r.edges = Put(g.edges, NewEdge(g), Edge(id, to)))
      /\ (~gone => r.edges = g.edges)
  BY DEF NodeStep, NodeWritten
<1>4. NewEdge(g) \notin DOMAIN g.edges
  BY NewEdgeIsNew DEF GraphHolds
<1>5. born => id \notin DOMAIN g.tasks
  BY DEF NodeStep, HasTask
<1>6. QED
  BY <1>1, <1>2, <1>3, <1>4, <1>5 DEF Put, NodeTables

LEMMA NodeStepTyped ==
    ASSUME NEW g, GraphHolds(g), NEW r, NEW id, NEW row, NEW pins, NEW born, NEW gone, NEW to,
           NodeStep(g, r, id, row, pins, born, gone, to)
    PROVE  GraphTyped(r)
<1>t. NodeTables(g, r, id, row, born, gone, to)
  BY NodeStepTables
<1>0. GraphTyped(g)
  BY DEF GraphHolds
<1>1. Tables(r)
  BY DEF NodeStep, NodeWritten
<1>2. DOMAIN r.nodes \subseteq Nat \ {0} /\ \A n \in DOMAIN r.nodes : r.nodes[n] \in NodeT
  BY <1>0, <1>t DEF GraphTyped, NodeStep, NodeTables
<1>3. \A n \in DOMAIN r.tasks : r.tasks[n] \in TaskRow
  <2>1. FirstState \in TaskRow
    BY DEF FirstState, TaskRow, OpenStates
  <2>2. \A n \in DOMAIN g.tasks : g.tasks[n] \in TaskRow
    BY <1>0 DEF GraphTyped
  <2>3. QED
    BY <2>1, <2>2, <1>t DEF NodeTables
<1>4. \A e \in DOMAIN r.edges : r.edges[e] \in EdgeT
  <2>1. \A e \in DOMAIN g.edges : g.edges[e] \in EdgeT
    BY <1>0 DEF GraphTyped
  <2>2. gone => Edge(id, to) \in EdgeT
    BY <1>0 DEF Edge, EdgeT, NodeStep, HasNode, GraphTyped
  <2>3. QED
    BY <2>1, <2>2, <1>t DEF NodeTables
<1>5. \E k \in Nat : DOMAIN r.edges = 1..k
  <2>1. CASE gone
    BY <2>1, <1>0, <1>t, NewEdgeIsNew, ZenonT(240) DEF NodeTables
  <2>2. CASE ~gone
    BY <2>2, <1>0, <1>t DEF GraphTyped, NodeTables
  <2>3. QED
    BY <2>1, <2>2
<1>6. QED
  BY <1>1, <1>2, <1>3, <1>4, <1>5 DEF GraphTyped

LEMMA NodeStepLater ==
    ASSUME NEW g, GraphHolds(g), NEW r, NEW id, NEW row, NEW pins, NEW born, NEW gone, NEW to,
           NodeStep(g, r, id, row, pins, born, gone, to)
    PROVE  Grown(g, r) /\ Later(g, r)
<1>t. NodeTables(g, r, id, row, born, gone, to)
  BY NodeStepTables
<1>0. Revisions(g)
  BY RevisionsAre DEF GraphHolds
<1>1. HasNode(g, id) => row.revision = g.nodes[id].revision + 1
  BY DEF NodeStep
<1>2. \A e \in DOMAIN g.edges : e \in DOMAIN r.edges /\ r.edges[e] = g.edges[e]
  BY <1>t DEF NodeTables
<1>3. \A n \in DOMAIN g.nodes : n \in DOMAIN r.nodes /\ (n # id => r.nodes[n] = g.nodes[n])
  BY <1>t DEF NodeTables
<1>4. r.nodes[id] = row
  BY <1>t DEF NodeTables
<1>5. Grown(g, r)
  BY <1>0, <1>1, <1>2, <1>3, <1>4 DEF Grown, Revisions, HasNode
<1>6. Later(g, r)
  BY <1>0, <1>1, <1>3, <1>4 DEF Later, Revisions, HasNode
<1>7. QED
  BY <1>5, <1>6

LEMMA NodeStepLinked ==
    ASSUME NEW g, GraphHolds(g), NEW r, NEW id, NEW row, NEW pins, NEW born, NEW gone, NEW to,
           NodeStep(g, r, id, row, pins, born, gone, to)
    PROVE  Linked(r)
<1>t. NodeTables(g, r, id, row, born, gone, to)
  BY NodeStepTables
<1>0. Linked(g)
  BY DEF GraphHolds
<1>1. DOMAIN r.tasks = {n \in DOMAIN r.nodes : r.nodes[n].kind = "task"}
  <2>0. DOMAIN g.tasks = {n \in DOMAIN g.nodes : g.nodes[n].kind = "task"}
    BY <1>0 DEF Linked
  <2>1. row.kind = "task" <=> born \/ id \in DOMAIN g.tasks
    BY DEF NodeStep, HasTask
  <2>2. CASE born
    BY <2>0, <2>1, <2>2, <1>t DEF NodeTables
  <2>3. CASE ~born
    BY <2>0, <2>1, <2>3, <1>t DEF NodeTables
  <2>4. QED
    BY <2>2, <2>3
<1>2. ASSUME NEW n \in DOMAIN r.tasks, r.tasks[n].state \in OpenStates
      PROVE  r.nodes[n].status = "current"
  <2>1. CASE n = id /\ born
    BY <2>1, <1>t DEF NodeStep, NodeTables
  <2>2. CASE n = id /\ ~born
    <3>1. HasTask(g, id) /\ g.tasks[id].state \in OpenStates
      BY <2>2, <1>2, <1>t DEF HasTask, NodeTables
    <3>2. g.tasks[id].state \notin DoneStates
      BY <3>1 DEF OpenStates, DoneStates
    <3>3. row.status = "current"
      BY <3>1, <3>2 DEF NodeStep
    <3>4. QED
      BY <2>2, <3>3, <1>t DEF NodeTables
  <2>3. CASE n # id
    <3>1. n \in DOMAIN g.tasks /\ r.tasks[n] = g.tasks[n]
      BY <2>3, <1>t DEF NodeTables
    <3>2. n \in DOMAIN g.nodes /\ g.nodes[n].status = "current"
      BY <3>1, <1>0, <1>2 DEF Linked
    <3>3. QED
      BY <2>3, <3>2, <1>t DEF NodeTables
  <2>4. QED
    BY <2>1, <2>2, <2>3
<1>3. ASSUME NEW e \in DOMAIN r.edges
      PROVE  HasNode(r, r.edges[e].source) /\ HasNode(r, r.edges[e].target)
  <2>1. CASE e \in DOMAIN g.edges
    <3>1. r.edges[e] = g.edges[e]
      BY <2>1, <1>t DEF NodeTables
    <3>2. QED
      BY <2>1, <3>1, <1>0, <1>t DEF Linked, HasNode, NodeTables
  <2>2. CASE e \notin DOMAIN g.edges
    <3>1. gone /\ r.edges[e] = Edge(id, to)
      BY <2>2, <1>t DEF NodeTables
    <3>2. HasNode(g, to)
      BY <3>1 DEF NodeStep
    <3>3. QED
      BY <3>1, <3>2, <1>t DEF HasNode, Edge, NodeTables
  <2>3. QED
    BY <2>1, <2>2
<1>4. QED
  BY <1>1, <1>2, <1>3 DEF Linked

LEMMA NodeStepRecorded ==
    ASSUME NEW g, GraphHolds(g), NEW r, NEW id, NEW row, NEW pins, NEW born, NEW gone, NEW to,
           NodeStep(g, r, id, row, pins, born, gone, to)
    PROVE  Recorded(r)
<1> DEFINE more == NewEvents(g, id, row.revision, born, gone)
<1>0. Recorded(g) /\ Revisions(g) /\ Revisions(r) /\ Grown(g, r)
  BY RevisionsAre, NodeStepTyped, NodeStepLater DEF GraphHolds
<1>1. /\ NodeWritten(g, r, id, row, pins, born, gone, to)
      /\ born \in BOOLEAN /\ gone \in BOOLEAN
  BY DEF NodeStep
<1>2. r.events = g.events \union more
  BY <1>1 DEF NodeWritten
<1>3. /\ \A n, v : Event("node", n, v) \in more <=> n = id /\ v = row.revision
      /\ \A n, v : Event("task", n, v) \in more <=> born /\ n = id /\ v = 1
      /\ \A n, v : Event("edge", n, v) \in more <=> gone /\ n = NewEdge(g) /\ v = 1
      /\ \A e \in more : e = Event(e.entity, e.id, e.revision)
  BY <1>1 DEF NewEvents, Event
<1> HIDE DEF more
<1>4. \A e \in r.events : e = Event(e.entity, e.id, e.revision)
  BY <1>0, <1>2, <1>3 DEF Recorded
<1>5. Told(r.nodes, "node", r.events)
  <2>1. Told(g.nodes, "node", g.events)
    BY <1>0 DEF Recorded
  <2>2. \A n \in DOMAIN g.nodes : g.nodes[n].revision \in Nat \ {0}
    BY <1>0 DEF Revisions
  <2>3. row.revision = IF id \in DOMAIN g.nodes THEN g.nodes[id].revision + 1 ELSE 1
    BY DEF NodeStep, HasNode
  <2>4. Told(Put(g.nodes, id, row), "node", g.events \union more)
    BY <2>1, <2>2, <2>3, <1>3, HistoryGrows
  <2>5. QED
    BY <2>4, <1>1, <1>2 DEF NodeWritten
<1>6. Told(r.edges, "edge", r.events)
  <2>1. Told(g.edges, "edge", g.events)
    BY <1>0 DEF Recorded
  <2>2. CASE gone
    <3>1. \A n \in DOMAIN g.edges : g.edges[n].revision \in Nat \ {0}
      BY <1>0 DEF Revisions
    <3>2. NewEdge(g) \notin DOMAIN g.edges
      BY NewEdgeIsNew DEF GraphHolds
    <3>3. /\ Edge(id, to).revision = 1
          /\ \A n, v : Event("edge", n, v) \in more
                           <=> n = NewEdge(g) /\ v = Edge(id, to).revision
      BY <2>2, <1>3 DEF Edge
    <3>4. Told(Put(g.edges, NewEdge(g), Edge(id, to)), "edge", g.events \union more)
      BY <2>1, <3>1, <3>2, <3>3, HistoryGrows
    <3>5. QED
      BY <2>2, <3>4, <1>1, <1>2 DEF NodeWritten
  <2>3. CASE ~gone
    <3>1. \A n, v : Event("edge", n, v) \notin more
      BY <2>3, <1>3
    <3>2. Told(g.edges, "edge", g.events \union more)
      BY <2>1, <3>1, HistoryStays
    <3>3. QED
      BY <2>3, <3>2, <1>1, <1>2 DEF NodeWritten
  <2>4. QED
    BY <2>2, <2>3
<1>7. Told(r.tasks, "task", r.events)
  <2>1. Told(g.tasks, "task", g.events)
    BY <1>0 DEF Recorded
  <2>2. CASE born
    <3>1. \A n \in DOMAIN g.tasks : g.tasks[n].revision \in Nat \ {0}
      BY DEF GraphHolds, GraphTyped, TaskRow
    <3>2. id \notin DOMAIN g.tasks
      BY <2>2 DEF NodeStep, HasTask
    <3>3. /\ FirstState.revision = 1
          /\ \A n, v : Event("task", n, v) \in more <=> n = id /\ v = FirstState.revision
      BY <2>2, <1>3 DEF FirstState
    <3>4. Told(Put(g.tasks, id, FirstState), "task", g.events \union more)
      BY <2>1, <3>1, <3>2, <3>3, HistoryGrows
    <3>5. QED
      BY <2>2, <3>4, <1>1, <1>2 DEF NodeWritten
  <2>3. CASE ~born
    <3>1. \A n, v : Event("task", n, v) \notin more
      BY <2>3, <1>3
    <3>2. Told(g.tasks, "task", g.events \union more)
      BY <2>1, <3>1, HistoryStays
    <3>3. QED
      BY <2>3, <3>2, <1>1, <1>2 DEF NodeWritten
  <2>4. QED
    BY <2>2, <2>3
<1>8. \A a \in r.anchors : /\ Exists(r, a.entity, a.id, a.at)
                           /\ Exists(r, a.pin.entity, a.pin.id, a.pin.revision)
  <2>1. Exists(r, "node", id, row.revision)
    <3>1. id \in DOMAIN r.nodes /\ r.nodes[id] = row
      BY NodeStepTables DEF NodeTables
    <3>2. QED
      BY <3>1, <1>0 DEF Exists, HasNode, Revisions
  <2>2. /\ PinsThere(pins, r.nodes, g.edges, g.events)
        /\ r.anchors = g.anchors \union AnchorsOf("node", id, row.revision, pins)
    BY <1>1 DEF NodeWritten
  <2>3. QED
    BY <2>1, <2>2, <1>0, AnchorsExist
<1>9. QED
  BY <1>4, <1>5, <1>6, <1>7, <1>8 DEF Recorded

(* A node that is written gets the highest rank: whatever rests on it      *)
(* rests on an earlier revision of it, which no longer counts.             *)
LEMMA NodeStepRanked ==
    ASSUME NEW g, GraphHolds(g), NEW r, NEW id, NEW row, NEW pins, NEW born, NEW gone, NEW to,
           NodeStep(g, r, id, row, pins, born, gone, to)
    PROVE  Ranked(r)
<1>0. Recorded(g) /\ Revisions(g)
  BY RevisionsAre DEF GraphHolds
<1>1. PICK top \in Nat : \E k \in [DOMAIN g.nodes -> 0..top] :
          \A n \in DOMAIN g.nodes : \A m \in PinnedCurrent(g, n) : m # n => k[m] < k[n]
  BY DEF GraphHolds, Ranked
<1>2. PICK k \in [DOMAIN g.nodes -> 0..top] :
          \A n \in DOMAIN g.nodes : \A m \in PinnedCurrent(g, n) : m # n => k[m] < k[n]
  BY <1>1
<1> DEFINE rank == [n \in DOMAIN r.nodes |-> IF n = id THEN top + 1 ELSE k[n]]
<1>3. /\ DOMAIN r.nodes = DOMAIN g.nodes \union {id} /\ r.nodes[id] = row
      /\ \A n \in DOMAIN g.nodes : n # id => r.nodes[n] = g.nodes[n]
  BY NodeStepTables DEF NodeTables
<1>4. rank \in [DOMAIN r.nodes -> 0..(top + 1)]
  BY <1>3
<1>5. r.anchors = g.anchors \union AnchorsOf("node", id, row.revision, pins)
  BY DEF NodeStep, NodeWritten
<1>6. ASSUME NEW n \in DOMAIN r.nodes, n # id, NEW m \in PinnedCurrent(r, n)
      PROVE  m # id /\ m \in PinnedCurrent(g, n)
  <2>1. AnchorsFor(r, "node", n, r.nodes[n].revision)
            = AnchorsFor(g, "node", n, g.nodes[n].revision)
    BY <1>3, <1>5, <1>6 DEF AnchorsFor, AnchorsOf
  <2>2. PICK a \in AnchorsFor(g, "node", n, g.nodes[n].revision) :
            /\ a.pin.id = m /\ a.pin.entity = "node"
            /\ HasNode(r, m) /\ r.nodes[m].revision = a.pin.revision
    BY <2>1 DEF PinnedCurrent
  <2>3. a \in g.anchors
    BY <2>2 DEF AnchorsFor
  <2>4. m \in DOMAIN g.nodes /\ a.pin.revision \in 1..g.nodes[m].revision
    BY <2>2, <2>3, <1>0 DEF Recorded, Exists, HasNode
  <2>5. m # id
    <3>1. SUFFICES ASSUME m = id PROVE FALSE
      OBVIOUS
    <3>2. row.revision = g.nodes[id].revision + 1
      BY <2>4, <3>1 DEF NodeStep, HasNode
    <3>3. QED
      BY <3>1, <3>2, <2>2, <2>4, <1>0, <1>3 DEF Revisions
  <2>6. HasNode(g, a.pin.id) /\ g.nodes[a.pin.id].revision = a.pin.revision
    BY <2>2, <2>4, <2>5, <1>3 DEF HasNode
  <2>7. QED
    BY <2>2, <2>5, <2>6 DEF PinnedCurrent
<1>7. ASSUME NEW n \in DOMAIN r.nodes, NEW m \in PinnedCurrent(r, n), m # n
      PROVE  rank[m] < rank[n]
  <2>1. m \in DOMAIN r.nodes
    BY DEF PinnedCurrent, HasNode
  <2>2. CASE n = id
    <3>1. m \in DOMAIN g.nodes /\ rank[m] = k[m] /\ rank[n] = top + 1
      BY <2>1, <2>2, <1>3, <1>7
    <3>2. QED
      BY <3>1
  <2>3. CASE n # id
    <3>1. m # id /\ m \in PinnedCurrent(g, n)
      BY <2>3, <1>6
    <3>2. n \in DOMAIN g.nodes /\ k[m] < k[n]
      BY <2>3, <3>1, <1>2, <1>3, <1>7
    <3>3. QED
      BY <2>1, <2>3, <3>1, <3>2
  <2>4. QED
    BY <2>2, <2>3
<1> HIDE DEF rank
<1>8. \A n \in DOMAIN r.nodes : \A m \in PinnedCurrent(r, n) : m # n => rank[m] < rank[n]
  BY <1>7
<1>9. top + 1 \in Nat
  OBVIOUS
<1>10. QED
  BY <1>4, <1>8, <1>9 DEF Ranked

LEMMA NodeStepIndexed ==
    ASSUME NEW g, GraphHolds(g), NEW r, NEW id, NEW row, NEW pins, NEW born, NEW gone, NEW to,
           NodeStep(g, r, id, row, pins, born, gone, to)
    PROVE  Indexed(r)
<1>0. Indexed(g)
  BY DEF GraphHolds
<1>1. /\ DOMAIN r.nodes = DOMAIN g.nodes \union {id}
      /\ \A n \in DOMAIN g.nodes : n # id => r.nodes[n] = g.nodes[n]
  BY NodeStepTables DEF NodeTables
<1>2. /\ r.index = g.index
      /\ \/ id \notin DOMAIN g.nodes /\ r.new = g.new \union {id} /\ r.dirty = g.dirty
         \/ id \in DOMAIN g.nodes /\ r.new = g.new /\ r.dirty = g.dirty \union {id}
  BY DEF NodeStep, NodeWritten, HasNode
<1>3. r.new \union r.dirty = g.new \union g.dirty \union {id}
  BY <1>2
<1>4. \A x \in r.index : x.id \in DOMAIN r.nodes /\ x.id \notin r.new
  BY <1>0, <1>1, <1>2 DEF Indexed
<1>5. ASSUME NEW n \in DOMAIN r.nodes, n \notin r.new \union r.dirty
      PROVE  /\ \A x \in r.index : x.id = n => IsCurrent(r, n) /\ x = IndexRow(r, n)
             /\ IsCurrent(r, n) => IndexRow(r, n) \in r.index
  <2>1. n \in DOMAIN g.nodes /\ r.nodes[n] = g.nodes[n] /\ n \notin g.new \union g.dirty
    BY <1>1, <1>3, <1>5
  <2>2. IndexRow(r, n) = IndexRow(g, n) /\ (IsCurrent(r, n) <=> IsCurrent(g, n))
    BY <2>1 DEF IndexRow, IsCurrent, HasNode
  <2>3. QED
    BY <2>1, <2>2, <1>0, <1>2 DEF Indexed
<1>6. QED
  BY <1>0, <1>1, <1>3, <1>4, <1>5 DEF Indexed

LEMMA NodeStepKeeps ==
    ASSUME NEW g, GraphHolds(g), NEW r, NEW id, NEW row, NEW pins, NEW born, NEW gone, NEW to,
           NodeStep(g, r, id, row, pins, born, gone, to)
    PROVE  GraphHolds(r) /\ Later(g, r)
BY NodeStepTyped, NodeStepLinked, NodeStepRecorded, NodeStepRanked, NodeStepIndexed,
   NodeStepLater DEF GraphHolds

(* A relation is written.                                                  *)
EdgeStep(g, r, id, row, pins) ==
    /\ EdgeWritten(g, r, id, row, pins)
    /\ row \in EdgeT /\ HasNode(g, row.source) /\ HasNode(g, row.target)
    /\ HasEdge(g, id) \/ id = NewEdge(g)
    /\ row.revision = IF HasEdge(g, id) THEN g.edges[id].revision + 1 ELSE 1

LEMMA EdgeStepKeeps ==
    ASSUME NEW g, GraphHolds(g), NEW r, NEW id, NEW row, NEW pins,
           EdgeStep(g, r, id, row, pins)
    PROVE  GraphHolds(r) /\ Later(g, r)
<1>0. GraphTyped(g) /\ Linked(g) /\ Recorded(g) /\ Ranked(g) /\ Indexed(g) /\ Revisions(g)
  BY RevisionsAre DEF GraphHolds
<1>1. EdgeWritten(g, r, id, row, pins)
  BY DEF EdgeStep
<1>2. /\ r.nodes = g.nodes /\ r.tasks = g.tasks /\ r.index = g.index
      /\ r.new = g.new /\ r.dirty = g.dirty
      /\ r.events = g.events \union {Event("edge", id, row.revision)}
      /\ r.anchors = g.anchors \union AnchorsOf("edge", id, row.revision, pins)
      /\ r.edges = Put(g.edges, id, row)
  BY <1>1 DEF EdgeWritten
<1>3. /\ DOMAIN r.edges = DOMAIN g.edges \union {id} /\ r.edges[id] = row
      /\ \A e \in DOMAIN g.edges : e # id => r.edges[e] = g.edges[e]
  BY <1>2 DEF Put
<1>4. GraphTyped(r)
  <2>1. Tables(r)
    BY <1>1 DEF EdgeWritten
  <2>2. \A e \in DOMAIN r.edges : r.edges[e] \in EdgeT
    BY <1>0, <1>3 DEF EdgeStep, GraphTyped
  <2>3. \E k \in Nat : DOMAIN r.edges = 1..k
    <3>1. CASE id \in DOMAIN g.edges
      BY <3>1, <1>0, <1>3 DEF GraphTyped
    <3>2. CASE id \notin DOMAIN g.edges
      <4>1. id = NewEdge(g)
        BY <3>2 DEF EdgeStep, HasEdge
      <4>2. QED
        BY <4>1, <1>0, <1>3, NewEdgeIsNew
    <3>3. QED
      BY <3>1, <3>2
  <2>4. QED
    BY <2>1, <2>2, <2>3, <1>0, <1>2 DEF GraphTyped
<1>5. Linked(r)
  <2>1. ASSUME NEW e \in DOMAIN r.edges
        PROVE  HasNode(g, r.edges[e].source) /\ HasNode(g, r.edges[e].target)
    <3>1. CASE e = id
      BY <3>1, <1>3 DEF EdgeStep
    <3>2. CASE e # id
      BY <3>2, <1>0, <1>3 DEF Linked
    <3>3. QED
      BY <3>1, <3>2
  <2>2. QED
    BY <2>1, <1>0, <1>2 DEF Linked, HasNode
<1>6. row.revision \in Nat \ {0} /\ (id \in DOMAIN g.edges
                                       => row.revision = g.edges[id].revision + 1)
  BY DEF EdgeStep, EdgeT, HasEdge
<1>7. Revisions(r) /\ Grown(g, r)
  <2>1. Revisions(r)
    BY <1>4, RevisionsAre
  <2>2. QED
    BY <2>1, <1>0, <1>2, <1>3, <1>6 DEF Revisions, Grown
<1>8. Recorded(r)
  <2> DEFINE more == {Event("edge", id, row.revision)}
  <2>1. /\ \A n, v : Event("edge", n, v) \in more <=> n = id /\ v = row.revision
        /\ \A n, v : Event("node", n, v) \notin more /\ Event("task", n, v) \notin more
        /\ \A e \in more : e = Event(e.entity, e.id, e.revision)
    BY DEF Event
  <2>2. r.events = g.events \union more
    BY <1>2
  <2> HIDE DEF more
  <2>3. \A e \in r.events : e = Event(e.entity, e.id, e.revision)
    BY <1>0, <2>1, <2>2 DEF Recorded
  <2>4. Told(g.edges, "edge", g.events)
    BY <1>0 DEF Recorded
  <2>5. \A n \in DOMAIN g.edges : g.edges[n].revision \in Nat \ {0}
    BY <1>0 DEF Revisions
  <2>6. row.revision = IF id \in DOMAIN g.edges THEN g.edges[id].revision + 1 ELSE 1
    BY DEF EdgeStep, HasEdge
  <2>7. Told(Put(g.edges, id, row), "edge", g.events \union more)
    BY <2>1, <2>4, <2>5, <2>6, HistoryGrows
  <2>8. Told(g.nodes, "node", g.events \union more)
    BY <2>1, <1>0, HistoryStays DEF Recorded
  <2>9. Told(g.tasks, "task", g.events \union more)
    BY <2>1, <1>0, HistoryStays DEF Recorded
  <2>10. Exists(r, "edge", id, row.revision)
    BY <1>3, <1>6 DEF Exists, HasEdge
  <2>11. PinsThere(pins, g.nodes, r.edges, g.events)
    BY <1>1 DEF EdgeWritten
  <2>12. \A a \in r.anchors : /\ Exists(r, a.entity, a.id, a.at)
                              /\ Exists(r, a.pin.entity, a.pin.id, a.pin.revision)
    BY <2>10, <2>11, <1>0, <1>2, <1>7, AnchorsExist
  <2>13. QED
    BY <2>2, <2>3, <2>7, <2>8, <2>9, <2>12, <1>2 DEF Recorded
<1>9. Ranked(r)
  BY <1>0, <1>2, RankedStays
<1>10. Indexed(r)
  BY <1>0, <1>2 DEF Indexed, IsCurrent, IndexRow, HasNode
<1>11. Later(g, r)
  BY <1>0, <1>2 DEF Later, Revisions
<1>12. QED
  BY <1>4, <1>5, <1>8, <1>9, <1>10, <1>11 DEF GraphHolds

(* The state of a task of a current node is written.                       *)
TaskStep(g, r, id, row) ==
    /\ TaskWritten(g, r, id, row)
    /\ row \in TaskRow /\ HasTask(g, id) /\ IsCurrent(g, id)
    /\ row.revision = g.tasks[id].revision + 1

LEMMA TaskStepKeeps ==
    ASSUME NEW g, GraphHolds(g), NEW r, NEW id, NEW row, TaskStep(g, r, id, row)
    PROVE  GraphHolds(r) /\ Later(g, r)
<1>0. GraphTyped(g) /\ Linked(g) /\ Recorded(g) /\ Ranked(g) /\ Indexed(g) /\ Revisions(g)
  BY RevisionsAre DEF GraphHolds
<1>1. TaskWritten(g, r, id, row)
  BY DEF TaskStep
<1>2. /\ r.nodes = g.nodes /\ r.edges = g.edges /\ r.anchors = g.anchors
      /\ r.index = g.index /\ r.new = g.new /\ r.dirty = g.dirty
      /\ r.events = g.events \union {Event("task", id, row.revision)}
      /\ r.tasks = Put(g.tasks, id, row)
  BY <1>1 DEF TaskWritten
<1>3. /\ id \in DOMAIN g.tasks /\ DOMAIN r.tasks = DOMAIN g.tasks /\ r.tasks[id] = row
      /\ \A n \in DOMAIN g.tasks : n # id => r.tasks[n] = g.tasks[n]
  BY <1>2 DEF Put, TaskStep, HasTask
<1>4. GraphTyped(r)
  <2>1. Tables(r)
    BY <1>1 DEF TaskWritten
  <2>2. \A n \in DOMAIN r.tasks : r.tasks[n] \in TaskRow
    BY <1>0, <1>3 DEF TaskStep, GraphTyped
  <2>3. QED
    BY <2>1, <2>2, <1>0, <1>2 DEF GraphTyped
<1>5. Linked(r)
  <2>1. g.nodes[id].status = "current"
    BY DEF TaskStep, IsCurrent
  <2>2. QED
    BY <2>1, <1>0, <1>2, <1>3 DEF Linked, HasNode
<1>6. Grown(g, r) /\ Revisions(r)
  BY <1>0, <1>2 DEF Revisions, Grown
<1>7. Recorded(r)
  <2> DEFINE more == {Event("task", id, row.revision)}
  <2>1. /\ \A n, v : Event("task", n, v) \in more <=> n = id /\ v = row.revision
        /\ \A n, v : Event("node", n, v) \notin more /\ Event("edge", n, v) \notin more
        /\ \A e \in more : e = Event(e.entity, e.id, e.revision)
    BY DEF Event
  <2>2. r.events = g.events \union more
    BY <1>2
  <2> HIDE DEF more
  <2>3. \A e \in r.events : e = Event(e.entity, e.id, e.revision)
    BY <1>0, <2>1, <2>2 DEF Recorded
  <2>4. Told(g.tasks, "task", g.events)
    BY <1>0 DEF Recorded
  <2>5. \A n \in DOMAIN g.tasks : g.tasks[n].revision \in Nat \ {0}
    BY <1>0 DEF GraphTyped, TaskRow
  <2>6. row.revision = IF id \in DOMAIN g.tasks THEN g.tasks[id].revision + 1 ELSE 1
    BY <1>3 DEF TaskStep
  <2>7. Told(Put(g.tasks, id, row), "task", g.events \union more)
    BY <2>1, <2>4, <2>5, <2>6, HistoryGrows
  <2>8. Told(g.nodes, "node", g.events \union more)
    BY <2>1, <1>0, HistoryStays DEF Recorded
  <2>9. Told(g.edges, "edge", g.events \union more)
    BY <2>1, <1>0, HistoryStays DEF Recorded
  <2>10. \A a \in r.anchors : /\ Exists(r, a.entity, a.id, a.at)
                              /\ Exists(r, a.pin.entity, a.pin.id, a.pin.revision)
    BY <1>0, <1>2 DEF Recorded, Exists, HasNode, HasEdge
  <2>11. QED
    BY <2>2, <2>3, <2>7, <2>8, <2>9, <2>10, <1>2 DEF Recorded
<1>8. Ranked(r)
  BY <1>0, <1>2, RankedStays
<1>9. Indexed(r)
  BY <1>0, <1>2 DEF Indexed, IsCurrent, IndexRow, HasNode
<1>10. Later(g, r)
  BY <1>0, <1>2 DEF Later, Revisions
<1>11. QED
  BY <1>4, <1>5, <1>7, <1>8, <1>9, <1>10 DEF GraphHolds

-------------------------------------------------------------------------------
(* The text of a memory is what its operations wrote, each on the revision *)
(* it names.                                                               *)
TextKept(g, o, r) ==
    /\ DOMAIN r.nodes = DOMAIN g.nodes \union (IF o.op = "remember" THEN {o.on} ELSE {})
    /\ \A n \in DOMAIN g.nodes :
          n # o.on \/ o.op # "revise" \/ o.text = {} => r.nodes[n].text = g.nodes[n].text
    /\ o.op = "remember" => ~HasNode(g, o.on) /\ r.nodes[o.on].text = o.text
    /\ o.op = "revise" /\ o.text # {} => /\ HasNode(g, o.on)
                                         /\ o.at = g.nodes[o.on].revision
                                         /\ r.nodes[o.on].text = o.text

LEMMA CreateNodeKeeps ==
    ASSUME NEW g, GraphHolds(g), NEW o, OpTyped(o), o.op = "remember", CreateNode(g, o).ok
    PROVE  LET r == CreateNode(g, o).graph IN
           GraphHolds(r) /\ Later(g, r) /\ TextKept(g, o, r)
<1> DEFINE r == CreateNode(g, o).graph
           row == Node(IF o.kind = "task" THEN "task" ELSE "knowledge", o.kind, o.text)
           born == o.kind = "task"
<1>0. Tables(g) /\ Linked(g)
  BY DEF GraphHolds, GraphTyped
<1>1. /\ ~HasNode(g, o.on)
      /\ NodeWritten(g, r, o.on, row, o.pins, born, FALSE, 0)
      /\ r.new = g.new \union {o.on} /\ r.dirty = g.dirty
  BY <1>0, CreateNodeIs
<1> HIDE DEF r
<1>2. /\ row \in NodeT /\ row.revision = 1 /\ row.status = "current"
      /\ row.kind = o.kind /\ row.text = o.text
  <2> DEFINE domain == IF o.kind = "task" THEN "task" ELSE "knowledge"
  <2>1. /\ domain \in {"knowledge", "task"} /\ o.kind \in {"note", "task"}
        /\ o.text \in SUBSET Nat
    BY DEF OpTyped
  <2> HIDE DEF domain
  <2>2. QED
    BY <2>1 DEF domain, Node, NodeT
<1> HIDE DEF row
<1>3. ~HasTask(g, o.on)
  BY <1>0, <1>1 DEF Linked, HasTask, HasNode
<1>4. o.on \in Nat \ {0}
  BY DEF OpTyped
<1>5. NodeStep(g, r, o.on, row, o.pins, born, FALSE, 0)
  <2> HIDE DEF born
  <2>1. born \in BOOLEAN /\ (row.kind = "task" <=> born)
    BY <1>2 DEF born
  <2>2. QED
    BY <2>1, <1>1, <1>2, <1>3, <1>4 DEF NodeStep
<1>6. GraphHolds(r) /\ Later(g, r) /\ NodeTables(g, r, o.on, row, born, FALSE, 0)
  <2> HIDE DEF born
  <2>1. QED
    BY <1>5, NodeStepKeeps, NodeStepTables
<1>7. TextKept(g, o, r)
  BY <1>1, <1>2, <1>6 DEF TextKept, NodeTables, HasNode
<1>8. QED
  BY <1>6, <1>7 DEF r

LEMMA UpdateNodeKeeps ==
    ASSUME NEW g, GraphHolds(g), NEW o, OpTyped(o), o.op = "revise", UpdateNode(g, o).ok
    PROVE  LET r == UpdateNode(g, o).graph IN
           GraphHolds(r) /\ Later(g, r) /\ TextKept(g, o, r)
<1> DEFINE r == UpdateNode(g, o).graph
           row == Revised(g, o)
           born == row.kind = "task" /\ ~HasTask(g, o.on)
<1>0. Tables(g) /\ Linked(g) /\ GraphTyped(g)
  BY DEF GraphHolds, GraphTyped
<1>1. /\ IsCurrent(g, o.on) /\ g.nodes[o.on].revision = o.at
      /\ HasTask(g, o.on) => row.kind = "task"
      /\ NodeWritten(g, r, o.on, row, o.pins, born, FALSE, 0)
      /\ r.new = g.new /\ r.dirty = g.dirty \union {o.on}
  BY <1>0, UpdateNodeIs
<1> HIDE DEF r
<1>2. HasNode(g, o.on) /\ g.nodes[o.on].status = "current" /\ g.nodes[o.on] \in NodeT
      /\ o.on \in Nat \ {0}
  BY <1>0, <1>1 DEF IsCurrent, GraphTyped, HasNode
<1>3. /\ row \in NodeT /\ row.revision = g.nodes[o.on].revision + 1
      /\ row.status = "current"
      /\ row.text = IF o.text = {} THEN g.nodes[o.on].text ELSE o.text
  <2> DEFINE n == g.nodes[o.on]
             kind == IF o.kind = "none" THEN n.kind ELSE o.kind
             text == IF o.text = {} THEN n.text ELSE o.text
             revision == n.revision + 1
  <2>1. n \in NodeT /\ n.status = "current"
    BY <1>2
  <2>2. row = [n EXCEPT !.revision = revision, !.kind = kind, !.text = text]
    BY DEF Revised
  <2>3. kind \in {"note", "task"} /\ text \in SUBSET Nat /\ revision \in Nat \ {0}
    BY <2>1 DEF NodeT, OpTyped
  <2> HIDE DEF row, kind, text, revision
  <2>4. /\ row \in NodeT /\ row.revision = revision /\ row.kind = kind /\ row.text = text
        /\ row.status = n.status
    BY <2>1, <2>2, <2>3 DEF NodeT
  <2>5. QED
    BY <2>1, <2>4 DEF revision, text
<1> HIDE DEF row
<1>4. NodeStep(g, r, o.on, row, o.pins, born, FALSE, 0)
  <2>1. /\ born \in BOOLEAN /\ (row.kind = "task" <=> born \/ HasTask(g, o.on))
        /\ (born => ~HasTask(g, o.on))
    BY <1>1
  <2> HIDE DEF born
  <2>2. QED
    BY <2>1, <1>1, <1>2, <1>3 DEF NodeStep
<1>5. GraphHolds(r) /\ Later(g, r) /\ NodeTables(g, r, o.on, row, born, FALSE, 0)
  <2> HIDE DEF born
  <2>1. QED
    BY <1>4, NodeStepKeeps, NodeStepTables
<1>6. TextKept(g, o, r)
  <2>1. /\ DOMAIN r.nodes = DOMAIN g.nodes /\ r.nodes[o.on] = row
        /\ \A n \in DOMAIN g.nodes : n # o.on => r.nodes[n] = g.nodes[n]
    BY <1>2, <1>5 DEF NodeTables, HasNode
  <2>2. QED
    BY <2>1, <1>1, <1>2, <1>3 DEF TextKept
<1>7. QED
  BY <1>5, <1>6 DEF r

LEMMA LeaveNodeKeeps ==
    ASSUME NEW g, GraphHolds(g), NEW o, OpTyped(o), o.op \in {"archive", "supersede"},
           LeaveNode(g, o).ok
    PROVE  LET r == LeaveNode(g, o).graph IN
           GraphHolds(r) /\ Later(g, r) /\ TextKept(g, o, r)
<1> DEFINE r == LeaveNode(g, o).graph
           row == Left(g, o)
           gone == o.op = "supersede"
<1>0. Tables(g) /\ Linked(g) /\ GraphTyped(g)
  BY DEF GraphHolds, GraphTyped
<1>1. /\ IsCurrent(g, o.on) /\ g.nodes[o.on].revision = o.at
      /\ MayLeave(g, o.on)
      /\ gone => HasNode(g, o.to)
      /\ NodeWritten(g, r, o.on, row, {}, FALSE, gone, o.to)
      /\ r.new = g.new /\ r.dirty = g.dirty \union {o.on}
  BY <1>0, LeaveNodeIs
<1> HIDE DEF r
<1>2. HasNode(g, o.on) /\ g.nodes[o.on].status = "current" /\ g.nodes[o.on] \in NodeT
      /\ o.on \in Nat \ {0}
  BY <1>0, <1>1 DEF IsCurrent, GraphTyped, HasNode
<1>3. /\ row \in NodeT /\ row.revision = g.nodes[o.on].revision + 1
      /\ row.kind = g.nodes[o.on].kind /\ row.text = g.nodes[o.on].text
  <2> DEFINE n == g.nodes[o.on]
             status == IF o.op = "archive" THEN "archived" ELSE "superseded"
             revision == n.revision + 1
  <2>1. n \in NodeT
    BY <1>2
  <2>2. row = [n EXCEPT !.status = status, !.revision = revision]
    BY DEF Left
  <2>3. revision \in Nat \ {0} /\ status \in {"current", "archived", "superseded"}
    BY <2>1 DEF NodeT
  <2> HIDE DEF row, status, revision
  <2>4. /\ row \in NodeT /\ row.revision = revision /\ row.kind = n.kind
        /\ row.text = n.text
    BY <2>1, <2>2, <2>3 DEF NodeT
  <2>5. QED
    BY <2>4 DEF revision
<1> HIDE DEF row
<1>4. row.kind = "task" <=> HasTask(g, o.on)
  BY <1>0, <1>2, <1>3 DEF Linked, HasTask, HasNode
<1>5. NodeStep(g, r, o.on, row, {}, FALSE, gone, o.to)
  <2>1. gone \in BOOLEAN
    OBVIOUS
  <2>2. HasTask(g, o.on) => g.tasks[o.on].state \in DoneStates
    BY <1>1 DEF MayLeave
  <2> HIDE DEF gone
  <2>3. QED
    BY <2>1, <2>2, <1>1, <1>2, <1>3, <1>4 DEF NodeStep
<1>6. GraphHolds(r) /\ Later(g, r) /\ NodeTables(g, r, o.on, row, FALSE, gone, o.to)
  <2> HIDE DEF gone
  <2>1. QED
    BY <1>5, NodeStepKeeps, NodeStepTables
<1>7. TextKept(g, o, r)
  <2>1. /\ DOMAIN r.nodes = DOMAIN g.nodes /\ r.nodes[o.on] = row
        /\ \A n \in DOMAIN g.nodes : n # o.on => r.nodes[n] = g.nodes[n]
    BY <1>2, <1>6 DEF NodeTables, HasNode
  <2>2. QED
    BY <2>1, <1>2, <1>3 DEF TextKept
<1>8. QED
  BY <1>6, <1>7 DEF r

LEMMA SetTaskStatusKeeps ==
    ASSUME NEW g, GraphHolds(g), NEW o, OpTyped(o), o.op = "task_status",
           SetTaskStatus(g, o).ok
    PROVE  LET r == SetTaskStatus(g, o).graph IN
           GraphHolds(r) /\ Later(g, r) /\ TextKept(g, o, r)
<1> DEFINE r == SetTaskStatus(g, o).graph
           row == [state |-> o.to, revision |-> g.tasks[o.on].revision + 1]
<1>0. Tables(g) /\ GraphTyped(g) /\ Revisions(g)
  BY RevisionsAre DEF GraphHolds, GraphTyped
<1>1. /\ IsCurrent(g, o.on) /\ HasTask(g, o.on)
      /\ r = g \/ TaskWritten(g, r, o.on, row)
  BY <1>0, SetTaskStatusIs
<1> HIDE DEF r
<1>2. CASE r = g
  <2>1. Later(g, g)
    BY <1>0 DEF Later, Revisions
  <2>2. TextKept(g, o, g)
    BY DEF TextKept
  <2>3. QED
    BY <1>2, <2>1, <2>2 DEF r
<1>3. CASE TaskWritten(g, r, o.on, row)
  <2>1. row \in TaskRow
    <3>1. o.to \in OpenStates \union DoneStates
      BY StoreAssumption DEF OpTyped
    <3>2. g.tasks[o.on].revision \in Nat \ {0}
      BY <1>0, <1>1 DEF GraphTyped, HasTask, TaskRow
    <3>3. QED
      BY <3>1, <3>2 DEF TaskRow
  <2>2. TaskStep(g, r, o.on, row)
    BY <2>1, <1>1, <1>3 DEF TaskStep
  <2> HIDE DEF row
  <2>3. GraphHolds(r) /\ Later(g, r)
    BY <2>2, TaskStepKeeps
  <2>4. r.nodes = g.nodes
    BY <1>3 DEF TaskWritten
  <2>5. TextKept(g, o, r)
    BY <2>4 DEF TextKept
  <2>6. QED
    BY <2>3, <2>5 DEF r
<1>4. QED
  BY <1>1, <1>2, <1>3 DEF r

LEMMA CreateEdgeKeeps ==
    ASSUME NEW g, GraphHolds(g), NEW o, OpTyped(o), o.op = "relate", CreateEdge(g, o).ok
    PROVE  LET r == CreateEdge(g, o).graph IN
           GraphHolds(r) /\ Later(g, r) /\ TextKept(g, o, r)
<1> DEFINE r == CreateEdge(g, o).graph
           row == Edge(o.on, o.to)
<1>0. Tables(g) /\ GraphTyped(g)
  BY DEF GraphHolds, GraphTyped
<1>1. /\ HasNode(g, o.on) /\ HasNode(g, o.to)
      /\ EdgeWritten(g, r, NewEdge(g), row, o.pins)
  BY <1>0, CreateEdgeIs
<1> HIDE DEF r
<1>2. row \in EdgeT /\ row.source = o.on /\ row.target = o.to /\ row.revision = 1
  BY <1>0, <1>1 DEF Edge, EdgeT, HasNode, GraphTyped
<1>3. ~HasEdge(g, NewEdge(g))
  BY <1>0, NewEdgeIsNew DEF HasEdge
<1> HIDE DEF row
<1>4. EdgeStep(g, r, NewEdge(g), row, o.pins)
  BY <1>1, <1>2, <1>3 DEF EdgeStep
<1>5. GraphHolds(r) /\ Later(g, r)
  BY <1>4, EdgeStepKeeps
<1>6. r.nodes = g.nodes
  BY <1>1 DEF EdgeWritten
<1>7. QED
  BY <1>5, <1>6 DEF TextKept, r

LEMMA ChangeEdgeKeeps ==
    ASSUME NEW g, GraphHolds(g), NEW o, OpTyped(o), ChangeEdge(g, o).ok,
           o.op \in {"revise_relation", "retire_relation"}
    PROVE  LET r == ChangeEdge(g, o).graph IN
           GraphHolds(r) /\ Later(g, r) /\ TextKept(g, o, r)
<1> DEFINE r == ChangeEdge(g, o).graph
           row == Altered(g, o)
<1>0. Tables(g) /\ GraphTyped(g) /\ Linked(g)
  BY DEF GraphHolds, GraphTyped
<1>1. HasEdge(g, o.on) /\ EdgeWritten(g, r, o.on, row, o.pins)
  BY <1>0, ChangeEdgeIs
<1> HIDE DEF r
<1>2. /\ row \in EdgeT /\ row.revision = g.edges[o.on].revision + 1
      /\ HasNode(g, row.source) /\ HasNode(g, row.target)
  <2>1. /\ g.edges[o.on] \in EdgeT
        /\ HasNode(g, g.edges[o.on].source) /\ HasNode(g, g.edges[o.on].target)
    BY <1>0, <1>1 DEF GraphTyped, Linked, HasEdge
  <2>2. /\ row \in EdgeT /\ row.revision = g.edges[o.on].revision + 1
        /\ row.source = g.edges[o.on].source /\ row.target = g.edges[o.on].target
    <3> DEFINE e == g.edges[o.on]
               status == IF o.op = "retire_relation" THEN "retired" ELSE "current"
               revision == e.revision + 1
    <3>1. row = [e EXCEPT !.status = status, !.revision = revision]
      BY DEF Altered
    <3>2. e \in EdgeT /\ revision \in Nat \ {0} /\ status \in {"current", "retired"}
      BY <2>1 DEF EdgeT
    <3> HIDE DEF row, status, revision
    <3>3. /\ row \in EdgeT /\ row.revision = revision
          /\ row.source = e.source /\ row.target = e.target
      BY <3>1, <3>2 DEF EdgeT
    <3>4. QED
      BY <3>3 DEF revision
  <2>3. QED
    BY <2>1, <2>2
<1> HIDE DEF row
<1>3. EdgeStep(g, r, o.on, row, o.pins)
  BY <1>1, <1>2 DEF EdgeStep
<1>4. GraphHolds(r) /\ Later(g, r)
  BY <1>3, EdgeStepKeeps
<1>5. r.nodes = g.nodes
  BY <1>1 DEF EdgeWritten
<1>6. QED
  BY <1>4, <1>5 DEF TextKept, r

(* Every operation keeps the invariant of the graph.                       *)
LEMMA OperationKeeps ==
    ASSUME NEW g, GraphHolds(g), NEW o, OpTyped(o), Applied(g, o).ok
    PROVE  LET r == Applied(g, o).graph IN
           GraphHolds(r) /\ Later(g, r) /\ TextKept(g, o, r)
<1>1. CASE o.op = "remember"
  <2>1. Applied(g, o) = CreateNode(g, o)
    BY <1>1 DEF Applied
  <2>2. QED
    BY <2>1, <1>1, CreateNodeKeeps
<1>2. CASE o.op = "revise"
  <2>1. Applied(g, o) = UpdateNode(g, o)
    BY <1>2 DEF Applied
  <2>2. QED
    BY <2>1, <1>2, UpdateNodeKeeps
<1>3. CASE o.op \in {"archive", "supersede"}
  <2>1. Applied(g, o) = LeaveNode(g, o)
    BY <1>3 DEF Applied
  <2>2. QED
    BY <2>1, <1>3, LeaveNodeKeeps
<1>4. CASE o.op = "task_status"
  <2>1. Applied(g, o) = SetTaskStatus(g, o)
    BY <1>4 DEF Applied
  <2>2. QED
    BY <2>1, <1>4, SetTaskStatusKeeps
<1>5. CASE o.op = "relate"
  <2>1. Applied(g, o) = CreateEdge(g, o)
    BY <1>5 DEF Applied
  <2>2. QED
    BY <2>1, <1>5, CreateEdgeKeeps
<1>6. CASE o.op \in {"revise_relation", "retire_relation"}
  <2>1. Applied(g, o) = ChangeEdge(g, o)
    BY <1>6 DEF Applied
  <2>2. QED
    BY <2>1, <1>6, ChangeEdgeKeeps
<1>7. QED
  BY <1>1, <1>2, <1>3, <1>4, <1>5, <1>6 DEF OpTyped, Ops

-------------------------------------------------------------------------------
(* A changeset.                                                            *)

LEMMA RefreshKeeps ==
    ASSUME NEW g, GraphHolds(g)
    PROVE  LET r == RefreshIndex(g) IN
           GraphHolds(r) /\ r.nodes = g.nodes /\ r.new = {} /\ r.dirty = {}
<1> DEFINE r == RefreshIndex(g)
           kept == {x \in g.index : x.id \notin g.dirty \ g.new}
           anew == {IndexRow(g, id) : id \in {n \in g.new \union g.dirty : IsCurrent(g, n)}}
<1>0. /\ GraphTyped(g) /\ Linked(g) /\ Recorded(g) /\ Ranked(g) /\ Indexed(g)
      /\ Tables(g)
  BY DEF GraphHolds, GraphTyped
<1>1. /\ Tables(r) /\ r.nodes = g.nodes /\ r.tasks = g.tasks /\ r.edges = g.edges
      /\ r.anchors = g.anchors /\ r.events = g.events
      /\ r.index = kept \union anew /\ r.new = {} /\ r.dirty = {}
  <2> HIDE DEF kept, anew
  <2>1. r = [g EXCEPT !.index = kept \union anew, !.new = {}, !.dirty = {}]
    BY DEF RefreshIndex, kept, anew
  <2> HIDE DEF r
  <2>2. QED
    BY <2>1, <1>0 DEF Tables
<1> HIDE DEF r
<1>2. GraphTyped(r) /\ Linked(r) /\ Ranked(r)
  BY <1>0, <1>1, RankedStays DEF GraphTyped, Linked, HasNode
<1>3. Recorded(r)
  BY <1>0, <1>1 DEF Recorded, Exists, HasNode, HasEdge
<1>4. /\ \A n : IsCurrent(r, n) <=> IsCurrent(g, n)
      /\ \A n : IndexRow(r, n) = IndexRow(g, n) /\ IndexRow(g, n).id = n
  BY <1>1 DEF IsCurrent, HasNode, IndexRow
<1>5. \A x \in kept : x \in g.index /\ x.id \in DOMAIN g.nodes /\ x.id \notin g.new \union g.dirty
  BY <1>0 DEF Indexed
<1>6. \A x \in anew : /\ x = IndexRow(g, x.id) /\ IsCurrent(g, x.id)
                      /\ x.id \in DOMAIN g.nodes
  BY <1>4 DEF IsCurrent, HasNode
<1>7. ASSUME NEW n \in DOMAIN g.nodes, IsCurrent(g, n)
      PROVE  IndexRow(g, n) \in kept \union anew
  <2>1. CASE n \in g.new \union g.dirty
    BY <2>1, <1>7
  <2>2. CASE n \notin g.new \union g.dirty
    <3>1. IndexRow(g, n) \in g.index
      BY <2>2, <1>0, <1>7 DEF Indexed
    <3>2. QED
      BY <3>1, <2>2, <1>4
  <2>3. QED
    BY <2>1, <2>2
<1>8. ASSUME NEW x \in kept \union anew
      PROVE  x.id \in DOMAIN g.nodes /\ IsCurrent(g, x.id) /\ x = IndexRow(g, x.id)
  <2>1. CASE x \in kept
    <3>1. x \in g.index /\ x.id \in DOMAIN g.nodes /\ x.id \notin g.new \union g.dirty
      BY <2>1, <1>5
    <3>2. QED
      BY <3>1, <1>0 DEF Indexed
  <2>2. CASE x \in anew
    BY <2>2, <1>6
  <2>3. QED
    BY <1>8, <2>1, <2>2
<1> HIDE DEF kept, anew
<1>9. Indexed(r)
  BY <1>1, <1>4, <1>7, <1>8 DEF Indexed
<1>10. QED
  BY <1>1, <1>2, <1>3, <1>9 DEF GraphHolds, r

(* Between changesets the index is that of the current nodes.              *)
LEMMA IndexedIsCurrent ==
    ASSUME NEW g, Indexed(g), g.new = {}, g.dirty = {}
    PROVE  g.index = {IndexRow(g, n) : n \in {n \in DOMAIN g.nodes : IsCurrent(g, n)}}
<1>1. \A x \in g.index : /\ x.id \in DOMAIN g.nodes /\ IsCurrent(g, x.id)
                         /\ x = IndexRow(g, x.id)
  BY DEF Indexed
<1>2. \A n \in DOMAIN g.nodes : IsCurrent(g, n) => IndexRow(g, n) \in g.index
  BY DEF Indexed
<1>3. QED
  BY <1>1, <1>2

(* Of numbers there is a least one.                                        *)
LEMMA LeastExists ==
    ASSUME NEW S \in SUBSET Nat, S # {}
    PROVE  \E n \in S : \A m \in S : n <= m
<1> DEFINE Less == {nn \in Nat \X Nat : nn[1] < nn[2]}
<1>w. IsWellFoundedOn(Less, Nat)
  BY NatLessThanWellFounded, Zenon DEF OpToRel
<1> HIDE DEF Less
<1>2. PICK n \in S : \A m \in S : ~(<<m, n>> \in Less)
  BY <1>w, WFMin, Zenon
<1>3. \A m \in S : n <= m
  <2> TAKE m \in S
  <2>1. <<m, n>> \in Nat \X Nat /\ ~(m < n)
    BY <1>2 DEF Less
  <2>2. QED
    BY <2>1
<1>4. QED
  BY <1>3

(* One operation after another, up to one that is refused.                 *)
StepFrom(last, o) == IF last.ok THEN Applied(last.graph, o) ELSE last

Steps(f, g, ops, k) ==
    /\ f = [i \in 0..k |-> f[i]]
    /\ f[0] = Accepted(g)
    /\ \A i \in 1..k : f[i] = StepFrom(f[i - 1], ops[i])

LEMMA StepsExist ==
    ASSUME NEW g, NEW ops, NEW n \in Nat
    PROVE  \E f : Steps(f, g, ops, n)
<1> DEFINE Bad == {k \in Nat : ~ \E f : Steps(f, g, ops, k)}
<1>1. Bad = {}
  <2> SUFFICES ASSUME Bad # {} PROVE FALSE
    OBVIOUS
  <2>1. PICK k \in Bad : \A m \in Bad : k <= m
    <3>1. Bad \in SUBSET Nat
      OBVIOUS
    <3> HIDE DEF Bad
    <3>2. QED
      BY <3>1, LeastExists
  <2>2. k # 0
    <3> DEFINE f == [i \in 0..0 |-> Accepted(g)]
    <3>1. f[0] = Accepted(g) /\ DOMAIN f = 0..0
      OBVIOUS
    <3>2. f = [i \in 0..0 |-> f[i]] /\ \A i \in 1..0 : FALSE
      OBVIOUS
    <3> HIDE DEF f
    <3>3. Steps(f, g, ops, 0)
      BY <3>1, <3>2 DEF Steps
    <3>4. QED
      BY <3>3, <2>1
  <2>3. PICK f : Steps(f, g, ops, k - 1)
    <3>1. k - 1 \in Nat /\ ~(k <= k - 1)
      BY <2>1, <2>2
    <3>2. k - 1 \notin Bad
      <4> HIDE DEF Bad
      <4>1. QED
        BY <3>1, <2>1
    <3>3. QED
      BY <3>1, <3>2
  <2> DEFINE h == [i \in 0..k |-> IF i = k THEN StepFrom(f[k - 1], ops[k]) ELSE f[i]]
  <2>4. k \in Nat \ {0}
    BY <2>1, <2>2
  <2>5. /\ h = [i \in 0..k |-> h[i]] /\ h[k] = StepFrom(f[k - 1], ops[k])
        /\ \A i \in 0..k - 1 : h[i] = f[i]
    <3>1. h = [i \in 0..k |-> h[i]]
      OBVIOUS
    <3>2. h[k] = StepFrom(f[k - 1], ops[k])
      BY <2>4
    <3>3. \A i \in 0..k - 1 : h[i] = f[i]
      BY <2>4
    <3>4. QED
      BY <3>1, <3>2, <3>3
  <2> HIDE DEF h
  <2>6. h[0] = Accepted(g)
    <3>1. 0 \in 0..k - 1
      BY <2>4
    <3>2. h[0] = f[0]
      BY <3>1, <2>5
    <3>3. QED
      BY <3>2, <2>3 DEF Steps
  <2>7. ASSUME NEW i \in 1..k PROVE h[i] = StepFrom(h[i - 1], ops[i])
    <3>0. i - 1 \in 0..k - 1
      BY <2>4
    <3>1. h[i - 1] = f[i - 1]
      BY <3>0, <2>5
    <3>2. CASE i = k
      BY <3>1, <3>2, <2>5
    <3>3. CASE i # k
      <4>1. i \in 0..k - 1 /\ i \in 1..k - 1
        BY <3>3, <2>4
      <4>2. h[i] = f[i] /\ f[i] = StepFrom(f[i - 1], ops[i])
        BY <4>1, <2>3, <2>5 DEF Steps
      <4>3. QED
        BY <4>2, <3>1
    <3>4. QED
      BY <3>2, <3>3
  <2>8. Steps(h, g, ops, k)
    BY <2>5, <2>6, <2>7 DEF Steps
  <2>9. QED
    BY <2>1, <2>8
<1>2. QED
  BY <1>1

LEMMA StepsOfIs ==
    ASSUME NEW g, NEW ops, Len(ops) \in Nat
    PROVE  Steps(StepsOf(g, ops), g, ops, Len(ops))
<1> DEFINE n == Len(ops)
           Body(f, i) == IF i = 0 THEN Accepted(g)
                         ELSE IF f[i - 1].ok THEN Applied(f[i - 1].graph, ops[i])
                         ELSE f[i - 1]
           step == CHOOSE f : f = [i \in 0..n |-> Body(f, i)]
<1>1. StepsOf(g, ops) = step
  BY DEF StepsOf
<1>2. n \in Nat
  OBVIOUS
<1> HIDE DEF n
<1>3. PICK f : Steps(f, g, ops, n)
  BY <1>2, StepsExist
<1>4. step = [i \in 0..n |-> Body(step, i)]
  <2> DEFINE Is(w) == w = [i \in 0..n |-> Body(w, i)]
  <2>1. Is(f)
    <3>1. \A i \in 0..n : f[i] = Body(f, i)
      <4> TAKE i \in 0..n
      <4>1. CASE i = 0
        BY <4>1, <1>3 DEF Steps
      <4>2. CASE i # 0
        <5>1. i \in 1..n
          BY <4>2, <1>2
        <5>2. f[i] = StepFrom(f[i - 1], ops[i])
          BY <5>1, <1>3 DEF Steps
        <5>3. QED
          BY <5>2, <4>2 DEF StepFrom
      <4>3. QED
        BY <4>1, <4>2
    <3>2. f = [i \in 0..n |-> f[i]]
      BY <1>3 DEF Steps
    <3> HIDE DEF Body
    <3>3. QED
      BY <3>1, <3>2
  <2>2. step = CHOOSE w : Is(w)
    OBVIOUS
  <2> HIDE DEF Is
  <2>3. Is(step)
    BY <2>1, <2>2
  <2>4. QED
    BY <2>3, Zenon DEF Is
<1> HIDE DEF step
<1>5. \A i \in 0..n : step[i] = Body(step, i)
  <2> HIDE DEF Body
  <2>1. QED
    BY <1>4
<1>6. step = [i \in 0..n |-> step[i]]
  <2> HIDE DEF Body
  <2>1. DOMAIN step = 0..n
    BY <1>4
  <2>2. step = [i \in DOMAIN step |-> step[i]]
    BY <1>4
  <2>3. QED
    BY <2>1, <2>2
<1>7. step[0] = Accepted(g)
  BY <1>2, <1>5
<1>8. \A i \in 1..n : step[i] = StepFrom(step[i - 1], ops[i])
  BY <1>2, <1>5 DEF StepFrom
<1>9. Steps(step, g, ops, n)
  BY <1>6, <1>7, <1>8 DEF Steps
<1>10. QED
  BY <1>1, <1>9 DEF n

LEMMA LaterThenLater ==
    ASSUME NEW g, NEW h, NEW r, GraphTyped(g), GraphTyped(h), GraphTyped(r),
           Later(g, h), Later(h, r)
    PROVE  Later(g, r)
<1> SUFFICES ASSUME NEW n \in DOMAIN g.nodes
             PROVE  /\ n \in DOMAIN r.nodes
                    /\ g.nodes[n].revision <= r.nodes[n].revision
                    /\ g.nodes[n].revision = r.nodes[n].revision
                          => r.nodes[n] = g.nodes[n]
  BY DEF Later
<1>1. /\ n \in DOMAIN h.nodes /\ g.nodes[n].revision <= h.nodes[n].revision
      /\ g.nodes[n].revision = h.nodes[n].revision => h.nodes[n] = g.nodes[n]
  BY DEF Later
<1>2. /\ n \in DOMAIN r.nodes /\ h.nodes[n].revision <= r.nodes[n].revision
      /\ h.nodes[n].revision = r.nodes[n].revision => r.nodes[n] = h.nodes[n]
  BY <1>1 DEF Later
<1>3. /\ g.nodes[n].revision \in Nat /\ h.nodes[n].revision \in Nat
      /\ r.nodes[n].revision \in Nat
  BY <1>1, <1>2, RevisionsAre DEF Revisions
<1>4. QED
  BY <1>1, <1>2, <1>3

(* A changeset of one operation or two, of which the second writes no text.*)
Changed(g, ops, result) ==
    /\ result.ok \in BOOLEAN /\ (~result.ok => result.graph = g)
    /\ result.ok => /\ GraphHolds(result.graph)
                    /\ result.graph.new = {} /\ result.graph.dirty = {}
                    /\ Later(g, result.graph) /\ TextKept(g, ops[1], result.graph)

LEMMA ChangesetKeeps ==
    ASSUME NEW g, GraphHolds(g), NEW ops, Len(ops) \in {1, 2},
           \A i \in 1..Len(ops) : OpTyped(ops[i]),
           Len(ops) = 2 => ops[2].op \notin {"remember", "revise"}
    PROVE  Changed(g, ops, ApplyGraphOperations(g, ops))
<1> DEFINE n == Len(ops)
           f == StepsOf(g, ops)
           last == f[n]
           h == last.graph
           result == ApplyGraphOperations(g, ops)
<1>1. result = IF last.ok THEN Accepted(RefreshIndex(h)) ELSE Refused(g)
  BY DEF ApplyGraphOperations
<1>2. Steps(f, g, ops, n)
  BY StepsOfIs
<1> HIDE DEF f, result
<1>3. f[1] = Applied(g, ops[1])
  <2>1. 1 \in 1..n /\ 1 - 1 = 0
    OBVIOUS
  <2>2. f[1] = StepFrom(f[0], ops[1]) /\ f[0] = Accepted(g)
    BY <2>1, <1>2 DEF Steps
  <2>3. QED
    BY <2>2 DEF StepFrom, Accepted
<1>4. ASSUME last.ok
      PROVE  GraphHolds(h) /\ Later(g, h) /\ TextKept(g, ops[1], h)
  <2>1. CASE n = 1
    BY <2>1, <1>3, <1>4, OperationKeeps
  <2>2. CASE n = 2
    <3> DEFINE m == f[1].graph
    <3>1. last = IF f[1].ok THEN Applied(m, ops[2]) ELSE f[1]
      BY <2>2, <1>2 DEF Steps, StepFrom
    <3>2. f[1].ok /\ last = Applied(m, ops[2])
      BY <3>1, <1>4
    <3>3. OpTyped(ops[1]) /\ OpTyped(ops[2]) /\ ops[2].op \notin {"remember", "revise"}
      BY <2>2
    <3>4. GraphHolds(m) /\ Later(g, m) /\ TextKept(g, ops[1], m)
      BY <1>3, <3>2, <3>3, OperationKeeps
    <3> HIDE DEF m
    <3>5. GraphHolds(h) /\ Later(m, h) /\ TextKept(m, ops[2], h)
      BY <1>4, <3>2, <3>3, <3>4, OperationKeeps
    <3>6. Later(g, h)
      BY <3>4, <3>5, LaterThenLater DEF GraphHolds
    <3>7. /\ DOMAIN h.nodes = DOMAIN m.nodes
          /\ \A x \in DOMAIN m.nodes : h.nodes[x].text = m.nodes[x].text
      BY <3>3, <3>5 DEF TextKept
    <3>8. TextKept(g, ops[1], h)
      BY <3>4, <3>7 DEF TextKept, HasNode
    <3>9. QED
      BY <3>5, <3>6, <3>8
  <2>3. QED
    BY <2>1, <2>2
<1>5. CASE last.ok
  <2> DEFINE r == RefreshIndex(h)
  <2>1. result.ok = TRUE /\ result.graph = r
    BY <1>1, <1>5 DEF Accepted
  <2>2. GraphHolds(h) /\ Later(g, h) /\ TextKept(g, ops[1], h)
    BY <1>4, <1>5
  <2> HIDE DEF h
  <2>3. GraphHolds(r) /\ r.nodes = h.nodes /\ r.new = {} /\ r.dirty = {}
    BY <2>2, RefreshKeeps
  <2> HIDE DEF r
  <2>4. Later(g, r) /\ TextKept(g, ops[1], r)
    BY <2>2, <2>3 DEF Later, TextKept
  <2>5. QED
    BY <2>1, <2>3, <2>4 DEF Changed, result
<1>6. CASE ~last.ok
  BY <1>1, <1>6 DEF Refused, Changed, result
<1>7. QED
  BY <1>5, <1>6

(* What was learned before.                                                *)
LearnedHolds(g) ==
    /\ GraphHolds(g) /\ IsFiniteSet(DOMAIN g.nodes)
    /\ \A n \in DOMAIN g.nodes : g.nodes[n].text = {0}

LEMMA EmptyHolds == LearnedHolds(EmptyGraph) /\ EmptyGraph.new = {} /\ EmptyGraph.dirty = {}
<1> DEFINE g == EmptyGraph
<1>1. /\ DOMAIN g.nodes = {} /\ DOMAIN g.tasks = {} /\ DOMAIN g.edges = {}
      /\ g.anchors = {} /\ g.events = {} /\ g.index = {} /\ g.new = {} /\ g.dirty = {}
  BY DEF EmptyGraph
<1>2. Tables(g)
  BY DEF EmptyGraph, Tables
<1> HIDE DEF g
<1>3. GraphTyped(g)
  <2>1. 0 \in Nat /\ DOMAIN g.edges = 1..0
    BY <1>1
  <2>2. QED
    BY <2>1, <1>1, <1>2 DEF GraphTyped
<1>4. Linked(g) /\ Recorded(g) /\ Indexed(g)
  BY <1>1 DEF Linked, Recorded, Indexed, Told
<1>5. Ranked(g)
  <2> DEFINE k == [n \in {} |-> 0]
  <2>1. 0 \in Nat /\ k \in [DOMAIN g.nodes -> 0..0]
    BY <1>1
  <2> HIDE DEF k
  <2>2. QED
    BY <2>1, <1>1 DEF Ranked
<1>6. QED
  BY <1>1, <1>3, <1>4, <1>5, FS_EmptySet DEF GraphHolds, LearnedHolds, g

LEMMA LearnedOne ==
    ASSUME NEW g, LearnedHolds(g), NEW o, IsLearned(o), Applied(g, o).ok
    PROVE  LearnedHolds(Applied(g, o).graph)
<1> DEFINE r == Applied(g, o).graph
<1>1. CASE /\ o.on \in Nat \ {0} /\ o.kind \in {"note", "task"}
           /\ o = WithText(Op("remember", o.on, 0, 0), o.kind, {0})
  <2>1. o.op = "remember" /\ o.text = {0}
    BY <1>1 DEF WithText, Op
  <2>2. OpTyped(o)
    BY <1>1, <2>1 DEF OpTyped, Ops
  <2>3. GraphHolds(r) /\ TextKept(g, o, r)
    BY <2>2, OperationKeeps DEF LearnedHolds
  <2> HIDE DEF r
  <2>4. DOMAIN r.nodes = DOMAIN g.nodes \union {o.on}
    BY <2>1, <2>3 DEF TextKept
  <2>5. IsFiniteSet(DOMAIN r.nodes)
    BY <2>4, FS_AddElement DEF LearnedHolds
  <2>6. QED
    BY <2>1, <2>3, <2>4, <2>5 DEF LearnedHolds, TextKept, r
<1>2. CASE o = Op("relate", o.on, 0, o.to)
  <2>1. o.op = "relate" /\ o.text = {} /\ o.kind = "none"
    BY <1>2 DEF Op
  <2>2. OpTyped(o)
    BY <2>1 DEF OpTyped, Ops
  <2>3. GraphHolds(r) /\ TextKept(g, o, r)
    BY <2>2, OperationKeeps DEF LearnedHolds
  <2> HIDE DEF r
  <2>4. DOMAIN r.nodes = DOMAIN g.nodes
    BY <2>1, <2>3 DEF TextKept
  <2>5. QED
    BY <2>1, <2>3, <2>4 DEF LearnedHolds, TextKept, r
<1>3. QED
  BY <1>1, <1>2 DEF IsLearned

LEMMA LearnedKeeps ==
    ASSUME NEW l \in Learned
    PROVE  LET g == ApplyGraphOperations(EmptyGraph, l).graph IN
           LearnedHolds(g) /\ g.new = {} /\ g.dirty = {}
<1> DEFINE n == Len(l)
           f == StepsOf(EmptyGraph, l)
           h == f[n].graph
           result == ApplyGraphOperations(EmptyGraph, l)
<1>1. result = IF f[n].ok THEN Accepted(RefreshIndex(h)) ELSE Refused(EmptyGraph)
  BY DEF ApplyGraphOperations
<1>2. n \in Nat /\ \A i \in 1..n : IsLearned(l[i])
  BY LearnedAssumption
<1>3. Steps(f, EmptyGraph, l, n)
  BY <1>2, StepsOfIs
<1> HIDE DEF f, result, n
<1> DEFINE Bad == {k \in 0..n : f[k].ok /\ ~LearnedHolds(f[k].graph)}
<1>4. Bad = {}
  <2> SUFFICES ASSUME Bad # {} PROVE FALSE
    OBVIOUS
  <2>1. PICK k \in Bad : \A m \in Bad : k <= m
    <3>1. Bad \in SUBSET Nat
      BY <1>2
    <3> HIDE DEF Bad
    <3>2. QED
      BY <3>1, LeastExists
  <2>2. k # 0
    BY <2>1, <1>3, EmptyHolds DEF Steps, Accepted
  <2>3. k \in 1..n /\ k - 1 \in 0..n /\ ~(k <= k - 1)
    BY <2>1, <2>2, <1>2
  <2>4. f[k] = StepFrom(f[k - 1], l[k])
    BY <2>3, <1>3 DEF Steps
  <2>5. f[k].ok /\ ~LearnedHolds(f[k].graph)
    BY <2>1
  <2>6. k - 1 \notin Bad
    <3> HIDE DEF Bad
    <3>1. QED
      BY <2>1, <2>3
  <2>7. f[k - 1].ok
    BY <2>4, <2>5 DEF StepFrom
  <2>8. LearnedHolds(f[k - 1].graph) /\ f[k] = Applied(f[k - 1].graph, l[k])
    BY <2>3, <2>4, <2>6, <2>7 DEF StepFrom
  <2>9. QED
    BY <2>3, <2>5, <2>8, <1>2, LearnedOne
<1>5. CASE f[n].ok
  <2>1. LearnedHolds(h)
    BY <1>2, <1>4, <1>5
  <2> DEFINE r == RefreshIndex(h)
  <2>2. result.graph = r
    BY <1>1, <1>5 DEF Accepted
  <2> HIDE DEF h
  <2>3. GraphHolds(r) /\ r.nodes = h.nodes /\ r.new = {} /\ r.dirty = {}
    BY <2>1, RefreshKeeps DEF LearnedHolds
  <2> HIDE DEF r
  <2>4. QED
    BY <2>1, <2>2, <2>3 DEF LearnedHolds, result
<1>6. CASE ~f[n].ok
  BY <1>1, <1>6, EmptyHolds DEF Refused, result
<1>7. QED
  BY <1>5, <1>6

-------------------------------------------------------------------------------
(* What a recall selects, it selects once.                                 *)

(* In a finite order there is one for every rank.                          *)
LEMMA EveryRank ==
    ASSUME NEW S, IsFiniteSet(S), NEW under \in [S -> SUBSET S], \A l \in S : l \notin under[l],
           \A l, m \in S : l # m => \/ l \in under[m] /\ under[l] \subseteq under[m]
                                    \/ m \in under[l] /\ under[m] \subseteq under[l]
    PROVE  /\ Cardinality(S) \in Nat
           /\ \A k \in 1..Cardinality(S) : \E l \in S : Cardinality(under[l]) = k - 1
<1> DEFINE n == Cardinality(S)
           rank == [l \in S |-> Cardinality(under[l]) + 1]
<1>1. n \in Nat
  BY FS_CardinalityType
<1>2. \A l \in S : /\ IsFiniteSet(under[l]) /\ Cardinality(under[l]) \in Nat
                   /\ Cardinality(under[l]) < n
  <2> TAKE l \in S
  <2> DEFINE U == under[l]
  <2>1. U \in SUBSET S /\ U # S
    OBVIOUS
  <2> HIDE DEF U
  <2>2. IsFiniteSet(U) /\ Cardinality(U) <= n /\ (Cardinality(U) = n => U = S)
    BY <2>1, FS_Subset
  <2>3. Cardinality(U) \in Nat
    BY <2>2, FS_CardinalityType
  <2>4. QED
    BY <2>1, <2>2, <2>3, <1>1 DEF U
<1>3. ASSUME NEW l \in S, NEW m \in S, l \in under[m], under[l] \subseteq under[m]
      PROVE  Cardinality(under[l]) < Cardinality(under[m])
  <2> DEFINE U == under[l]
             W == under[m]
  <2>1. U \in SUBSET W /\ U # W
    BY <1>3
  <2>2. IsFiniteSet(W) /\ Cardinality(U) \in Nat /\ Cardinality(W) \in Nat
    BY <1>2
  <2> HIDE DEF U, W
  <2>3. Cardinality(U) <= Cardinality(W) /\ (Cardinality(W) = Cardinality(U) => W = U)
    BY <2>1, <2>2, FS_Subset
  <2>4. QED
    BY <2>1, <2>2, <2>3 DEF U, W
<1>4. rank \in [S -> 1..n]
  BY <1>1, <1>2
<1>5. \A l \in S, m \in S : rank[l] = rank[m] => l = m
  <2> TAKE l \in S, m \in S
  <2> HAVE rank[l] = rank[m]
  <2>1. Cardinality(under[l]) = Cardinality(under[m])
    BY <1>2
  <2>2. QED
    BY <1>2, <1>3, <2>1
<1>6. rank \in Injection(S, 1..n)
  BY <1>4, <1>5 DEF Injection, IsInjective
<1>7. rank \in Surjection(S, 1..n)
  <2>1. IsFiniteSet(1..n) /\ Cardinality(1..n) = n
    BY <1>1, FS_Interval
  <2> HIDE DEF rank
  <2>2. QED
    BY <1>6, <2>1, FS_Injection
<1>8. \A k \in 1..n : \E l \in S : rank[l] = k
  BY <1>7, <1>4 DEF Surjection
<1>9. ASSUME NEW k \in 1..n PROVE \E l \in S : Cardinality(under[l]) = k - 1
  <2>1. PICK l \in S : rank[l] = k
    BY <1>8
  <2>2. Cardinality(under[l]) + 1 = k /\ Cardinality(under[l]) \in Nat
    BY <2>1, <1>2
  <2>3. QED
    BY <2>2
<1>10. QED
  BY <1>1, <1>9

LEMMA AscendingOnce ==
    ASSUME NEW ids \in SUBSET Nat, IsFiniteSet(ids)
    PROVE  Once(Ascending(ids), ids)
<1> DEFINE n == Cardinality(ids)
           under == [l \in ids |-> {m \in ids : m < l}]
           a == Ascending(ids)
<1>1. n \in Nat /\ \A k \in 1..n : \E l \in ids : Cardinality(under[l]) = k - 1
  <2>1. under \in [ids -> SUBSET ids] /\ \A l \in ids : l \notin under[l]
    OBVIOUS
  <2>2. \A l, m \in ids : l # m => \/ l \in under[m] /\ under[l] \subseteq under[m]
                                   \/ m \in under[l] /\ under[m] \subseteq under[l]
    <3>1. ASSUME NEW l \in ids, NEW m \in ids, l < m
          PROVE  l \in under[m] /\ under[l] \subseteq under[m]
      <4>1. l \in under[m]
        BY <3>1
      <4>2. \A x \in ids : x < l => x < m
        BY <3>1
      <4>3. under[l] = {x \in ids : x < l} /\ under[m] = {x \in ids : x < m}
        OBVIOUS
      <4> HIDE DEF under
      <4>4. QED
        BY <4>1, <4>2, <4>3
    <3> HIDE DEF under
    <3> TAKE l, m \in ids
    <3> HAVE l # m
    <3>2. l < m \/ m < l
      OBVIOUS
    <3>3. QED
      BY <3>1, <3>2
  <2> HIDE DEF under
  <2>3. QED
    BY <2>1, <2>2, EveryRank
<1>2. a = [k \in 1..n |-> CHOOSE l \in ids : Cardinality({m \in ids : m < l}) = k - 1]
  BY DEF Ascending
<1>3. \A k \in 1..n : a[k] \in ids /\ Cardinality(under[a[k]]) = k - 1
  <2> TAKE k \in 1..n
  <2>1. \E l \in ids : Cardinality({m \in ids : m < l}) = k - 1
    BY <1>1
  <2>2. a[k] = CHOOSE l \in ids : Cardinality({m \in ids : m < l}) = k - 1
    BY <1>2
  <2> HIDE DEF a
  <2>3. a[k] \in ids /\ Cardinality({m \in ids : m < a[k]}) = k - 1
    BY <2>1, <2>2
  <2>4. QED
    BY <2>3
<1>4. DOMAIN a = 1..n /\ a \in [1..n -> ids]
  <2>1. a = [k \in 1..n |-> a[k]] /\ DOMAIN a = 1..n
    BY <1>2
  <2> HIDE DEF a
  <2>2. QED
    BY <2>1, <1>3
<1> HIDE DEF a, under, n
<1>5. a \in Seq(ids) /\ Len(a) = n
  BY <1>1, <1>4
<1>6. \A j, k \in 1..n : a[j] = a[k] => j = k
  <2> TAKE j, k \in 1..n
  <2> HAVE a[j] = a[k]
  <2>1. Cardinality(under[a[j]]) = j - 1 /\ Cardinality(under[a[k]]) = k - 1
    BY <1>3
  <2>2. j - 1 = k - 1
    BY <2>1
  <2>3. QED
    BY <2>2, <1>1
<1>7. Once(a, ids)
  BY <1>5, <1>6 DEF Once
<1>8. QED
  BY <1>7 DEF a

LEMMA LatestOnce ==
    ASSUME NEW ids \in SUBSET Nat, IsFiniteSet(ids)
    PROVE  Once(Latest(ids), ids)
<1> DEFINE n == Cardinality(ids)
           under == [l \in ids |-> {m \in ids : m > l}]
           a == Latest(ids)
<1>1. n \in Nat /\ \A k \in 1..n : \E l \in ids : Cardinality(under[l]) = k - 1
  <2>1. under \in [ids -> SUBSET ids] /\ \A l \in ids : l \notin under[l]
    OBVIOUS
  <2>2. \A l, m \in ids : l # m => \/ l \in under[m] /\ under[l] \subseteq under[m]
                                   \/ m \in under[l] /\ under[m] \subseteq under[l]
    <3>1. ASSUME NEW l \in ids, NEW m \in ids, l < m
          PROVE  m \in under[l] /\ under[m] \subseteq under[l]
      <4>1. m \in under[l]
        BY <3>1
      <4>2. \A x \in ids : x > m => x > l
        BY <3>1
      <4>3. under[m] = {x \in ids : x > m} /\ under[l] = {x \in ids : x > l}
        OBVIOUS
      <4> HIDE DEF under
      <4>4. QED
        BY <4>1, <4>2, <4>3
    <3> HIDE DEF under
    <3> TAKE l, m \in ids
    <3> HAVE l # m
    <3>2. l < m \/ m < l
      OBVIOUS
    <3>3. QED
      BY <3>1, <3>2
  <2> HIDE DEF under
  <2>3. QED
    BY <2>1, <2>2, EveryRank
<1>2. a = [k \in 1..n |-> CHOOSE l \in ids : Cardinality({m \in ids : m > l}) = k - 1]
  BY DEF Latest
<1>3. \A k \in 1..n : a[k] \in ids /\ Cardinality(under[a[k]]) = k - 1
  <2> TAKE k \in 1..n
  <2>1. \E l \in ids : Cardinality({m \in ids : m > l}) = k - 1
    BY <1>1
  <2>2. a[k] = CHOOSE l \in ids : Cardinality({m \in ids : m > l}) = k - 1
    BY <1>2
  <2> HIDE DEF a
  <2>3. a[k] \in ids /\ Cardinality({m \in ids : m > a[k]}) = k - 1
    BY <2>1, <2>2
  <2>4. QED
    BY <2>3
<1>4. DOMAIN a = 1..n /\ a \in [1..n -> ids]
  <2>1. a = [k \in 1..n |-> a[k]] /\ DOMAIN a = 1..n
    BY <1>2
  <2> HIDE DEF a
  <2>2. QED
    BY <2>1, <1>3
<1> HIDE DEF a, under, n
<1>5. a \in Seq(ids) /\ Len(a) = n
  BY <1>1, <1>4
<1>6. \A j, k \in 1..n : a[j] = a[k] => j = k
  <2> TAKE j, k \in 1..n
  <2> HAVE a[j] = a[k]
  <2>1. Cardinality(under[a[j]]) = j - 1 /\ Cardinality(under[a[k]]) = k - 1
    BY <1>3
  <2>2. j - 1 = k - 1
    BY <2>1
  <2>3. QED
    BY <2>2, <1>1
<1>7. Once(a, ids)
  BY <1>5, <1>6 DEF Once
<1>8. QED
  BY <1>7 DEF a

LEMMA RecallOnce ==
    ASSUME NEW g, DOMAIN g.nodes \in SUBSET Nat, IsFiniteSet(DOMAIN g.nodes),
           NEW ids, NEW wanted, NEW neighbours
    PROVE  Once(RecallItems(g, ids, wanted, neighbours), Nat)
<1> DEFINE matched == Matched(g, ids, wanted)
           near == Neighbours(g, matched)
           p == Latest(matched)
           q == IF neighbours THEN Ascending(near) ELSE <<>>
<1>1. RecallItems(g, ids, wanted, neighbours) = p \o q
  BY DEF RecallItems
<1>2. /\ matched \in SUBSET Nat /\ IsFiniteSet(matched)
      /\ near \in SUBSET Nat /\ IsFiniteSet(near) /\ near \intersect matched = {}
  <2>1. matched \in SUBSET DOMAIN g.nodes
    BY DEF Matched
  <2> HIDE DEF matched
  <2>2. near \in SUBSET DOMAIN g.nodes /\ near \intersect matched = {}
    BY DEF Neighbours
  <2> HIDE DEF near
  <2>3. QED
    BY <2>1, <2>2, FS_Subset
<1> HIDE DEF matched, near
<1>3. Once(p, matched) /\ Once(q, near)
  <2>1. Once(p, matched)
    BY <1>2, LatestOnce
  <2>2. Once(<<>>, near)
    BY DEF Once
  <2>3. Once(Ascending(near), near)
    BY <1>2, AscendingOnce
  <2>4. QED
    BY <2>1, <2>2, <2>3
<1> HIDE DEF p, q
<1>4. /\ p \in Seq(matched) /\ q \in Seq(near)
      /\ \A j, k \in 1..Len(p) : p[j] = p[k] => j = k
      /\ \A j, k \in 1..Len(q) : q[j] = q[k] => j = k
  BY <1>3 DEF Once
<1>5. p \in Seq(Nat) /\ q \in Seq(Nat)
  <2>1. ASSUME NEW S \in SUBSET Nat, NEW x \in Seq(S) PROVE x \in Seq(Nat)
    <3>1. x \in [1..Len(x) -> S] /\ Len(x) \in Nat
      OBVIOUS
    <3>2. x \in [1..Len(x) -> Nat]
      BY <3>1
    <3>3. QED
      BY <3>1, <3>2
  <2>2. QED
    BY <2>1, <1>2, <1>4
<1>6. /\ p \o q \in Seq(Nat) /\ Len(p \o q) = Len(p) + Len(q)
      /\ \A k \in 1..Len(p) : (p \o q)[k] = p[k] /\ p[k] \in matched
      /\ \A k \in Len(p) + 1..Len(p) + Len(q) :
            (p \o q)[k] = q[k - Len(p)] /\ q[k - Len(p)] \in near
  BY <1>4, <1>5
<1> DEFINE items == p \o q
<1> HIDE DEF items
<1>7. ASSUME NEW j \in 1..Len(items), NEW k \in 1..Len(items), items[j] = items[k]
      PROVE  j = k
  <2>0. Len(p) \in Nat /\ Len(q) \in Nat /\ Len(items) = Len(p) + Len(q)
    BY <1>5, <1>6 DEF items
  <2>1. CASE j <= Len(p) /\ k <= Len(p)
    BY <2>0, <2>1, <1>4, <1>6, <1>7 DEF items
  <2>2. CASE j <= Len(p) /\ k > Len(p)
    <3>1. items[j] \in matched /\ items[k] \in near
      BY <2>0, <2>2, <1>6 DEF items
    <3>2. QED
      BY <3>1, <1>2, <1>7
  <2>3. CASE j > Len(p) /\ k <= Len(p)
    <3>1. items[k] \in matched /\ items[j] \in near
      BY <2>0, <2>3, <1>6 DEF items
    <3>2. QED
      BY <3>1, <1>2, <1>7
  <2>4. CASE j > Len(p) /\ k > Len(p)
    <3>1. /\ items[j] = q[j - Len(p)] /\ items[k] = q[k - Len(p)]
          /\ j - Len(p) \in 1..Len(q) /\ k - Len(p) \in 1..Len(q)
      BY <2>0, <2>4, <1>6 DEF items
    <3>2. j - Len(p) = k - Len(p)
      BY <3>1, <1>4, <1>7
    <3>3. QED
      BY <3>2, <2>0
  <2>5. QED
    BY <2>0, <2>1, <2>2, <2>3, <2>4
<1>8. QED
  BY <1>1, <1>6, <1>7 DEF Once, items

-------------------------------------------------------------------------------
(* The sessions.                                                           *)

LEMMA NewSessionHolds ==
    ASSUME NEW g, NEW chosen, NEW pc \in Places \ {"page"}, NEW view
    PROVE  /\ SessionHolds([NewSession EXCEPT !.pc = pc], g, chosen)
           /\ SessionHolds([NewSession EXCEPT !.pc = pc, !.view = view], g, chosen)
           /\ [NewSession EXCEPT !.pc = pc].pc = pc
           /\ [NewSession EXCEPT !.pc = pc, !.view = view].pc = pc
<1>0. 0 \in 0..MaxEpoch /\ DOMAIN NothingSeen.nodes = {}
  BY GraphAssumption DEF NothingSeen
<1>1. ASSUME NEW t, Shaped(t), t.pc = pc, t.seen = NothingSeen, DOMAIN t.told = {},
             t.whole = {}, t.open = {}, t.epoch = 0
      PROVE  SessionHolds(t, g, chosen)
  BY <1>0, <1>1 DEF SessionHolds, SeenEarlier, ToldExactly
<1> DEFINE t == [NewSession EXCEPT !.pc = pc]
           u == [NewSession EXCEPT !.pc = pc, !.view = view]
<1>2. /\ Shaped(t) /\ t.pc = pc /\ t.seen = NothingSeen /\ DOMAIN t.told = {}
      /\ t.whole = {} /\ t.open = {} /\ t.epoch = 0
  BY DEF NewSession, Shaped
<1>3. /\ Shaped(u) /\ u.pc = pc /\ u.seen = NothingSeen /\ DOMAIN u.told = {}
      /\ u.whole = {} /\ u.open = {} /\ u.epoch = 0
  <2>1. u = [t EXCEPT !.view = view]
    BY DEF NewSession
  <2> HIDE DEF t, u
  <2>2. QED
    BY <1>2, <2>1 DEF Shaped
<1> HIDE DEF t, u
<1>4. SessionHolds(t, g, chosen) /\ SessionHolds(u, g, chosen)
  BY <1>1, <1>2, <1>3
<1>5. QED
  BY <1>2, <1>3, <1>4 DEF t, u

LEMMA OffHolds ==
    ASSUME NEW g, NEW chosen
    PROVE  SessionHolds(NewSession, g, chosen) /\ NewSession.pc = "off"
<1> DEFINE t == NewSession
<1>1. /\ Shaped(t) /\ t.pc = "off" /\ t.seen = NothingSeen /\ DOMAIN t.told = {}
      /\ t.whole = {} /\ t.open = {} /\ t.epoch = 0
  BY DEF NewSession, Shaped
<1>2. 0 \in 0..MaxEpoch /\ DOMAIN NothingSeen.nodes = {} /\ "off" \in Places
  BY GraphAssumption DEF NothingSeen, Places
<1> HIDE DEF t
<1>3. SessionHolds(t, g, chosen)
  BY <1>1, <1>2 DEF SessionHolds, SeenEarlier, ToldExactly
<1>4. QED
  BY <1>1, <1>3 DEF t

(* A session goes on with what it was told.                                *)
LEMMA SessionGoesOn ==
    ASSUME NEW u, NEW g, NEW chosen, SessionHolds(u, g, chosen),
           NEW t, Shaped(t), t.pc \in Places \ {"page"}, t.epoch \in 0..MaxEpoch,
           t.seen \in {u.seen, NothingSeen}, t.told = u.told, t.whole = u.whole,
           t.open = u.open
    PROVE  SessionHolds(t, g, chosen)
<1>1. SeenEarlier(t, g)
  <2>1. DOMAIN NothingSeen.nodes = {}
    BY DEF NothingSeen
  <2>2. CASE t.seen = NothingSeen
    BY <2>1, <2>2 DEF SeenEarlier
  <2>3. CASE t.seen = u.seen
    BY <2>3 DEF SessionHolds, SeenEarlier
  <2>4. QED
    BY <2>2, <2>3
<1>2. ToldExactly(t, chosen)
  BY DEF SessionHolds, ToldExactly
<1>3. QED
  BY <1>1, <1>2 DEF SessionHolds

LEMMA MovedIs ==
    ASSUME NEW s, Shaped(session[s]), NEW pc
    PROVE  LET t == session[s]
               m == Moved(s, pc)
           IN  /\ Shaped(m) /\ m.pc = pc /\ m.seen = NothingSeen /\ m.refs = {}
               /\ m.view = t.view /\ m.overview = t.overview /\ m.delta = t.delta
               /\ m.recall = t.recall /\ m.open = t.open /\ m.task = t.task
               /\ m.epoch = t.epoch /\ m.told = t.told /\ m.whole = t.whole
BY DEF Moved, Shaped

LEMMA MovedHolds ==
    ASSUME MemoryIInv, NEW s \in Sessions, NEW pc \in Places \ {"page"}
    PROVE  LET t == session[s]
               m == Moved(s, pc)
           IN  /\ SessionHolds(m, graph, selected)
               /\ Shaped(m) /\ m.pc = pc /\ m.seen = NothingSeen /\ m.refs = {}
               /\ m.recall = t.recall /\ m.open = t.open /\ m.task = t.task
               /\ m.epoch = t.epoch /\ m.told = t.told /\ m.whole = t.whole
<1> DEFINE m == Moved(s, pc)
<1>1. SessionHolds(session[s], graph, selected)
  BY DEF MemoryIInv, SessionsHold
<1>2. Shaped(session[s]) /\ session[s].epoch \in 0..MaxEpoch
  BY <1>1 DEF SessionHolds
<1>3. /\ Shaped(m) /\ m.pc = pc /\ m.seen = NothingSeen /\ m.refs = {}
      /\ m.recall = session[s].recall /\ m.open = session[s].open
      /\ m.task = session[s].task /\ m.epoch = session[s].epoch
      /\ m.told = session[s].told /\ m.whole = session[s].whole
  BY <1>2, MovedIs
<1> HIDE DEF m
<1>4. SessionHolds(m, graph, selected)
  BY <1>1, <1>2, <1>3, SessionGoesOn
<1>5. QED
  BY <1>3, <1>4 DEF m

(* A step of a session that writes nothing to the memory.                  *)
PendingStep(s) ==
    \/ pending' = pending
    \/ \E p : /\ pending' = [pending EXCEPT ![s] = p]
              /\ p # NoPending => SessionHolds(p, graph, selected) /\ p.pc = "run"

QuietStep(s, t) ==
    /\ UNCHANGED <<graph, named, deltas, accepted, refused, selected>>
    /\ session' = [session EXCEPT ![s] = t]
    /\ PendingStep(s)
    /\ snapshots' = snapshots \/ \E ids : snapshots' = Without(ids)
    /\ waits' \in 0..MaxWaits /\ faults' \in 0..MaxFaults
    /\ SessionHolds(t, graph, selected) /\ t.pc # "apply"
    /\ t.pc = "wait" => pending'[s] # NoPending

LEMMA WithoutIs ==
    ASSUME NEW ids
    PROVE  /\ DOMAIN Without(ids) \subseteq DOMAIN snapshots
           /\ \A id \in DOMAIN Without(ids) : Without(ids)[id] = snapshots[id]
BY DEF Without, Restrict

LEMMA QuietKeeps ==
    ASSUME MemoryIInv, NEW s \in Sessions, NEW t, QuietStep(s, t)
    PROVE  /\ CountersHold' /\ SelectionsHold' /\ GraphIsKept' /\ SessionsHold'
           /\ store' = "ready" => MemoryIInv'
<1>0. /\ UNCHANGED <<graph, named, deltas, accepted, refused, selected>>
      /\ session' = [session EXCEPT ![s] = t]
      /\ SessionHolds(t, graph, selected) /\ t.pc # "apply"
  BY DEF QuietStep
<1>1. CountersHold'
  BY <1>0 DEF MemoryIInv, CountersHold, QuietStep
<1>2. SelectionsHold'
  <2>1. /\ DOMAIN snapshots' \subseteq DOMAIN snapshots
        /\ \A id \in DOMAIN snapshots' : snapshots'[id] = snapshots[id]
    <3>1. CASE snapshots' = snapshots
      BY <3>1
    <3>2. CASE \E ids : snapshots' = Without(ids)
      BY <3>2, WithoutIs
    <3>3. QED
      BY <3>1, <3>2 DEF QuietStep
  <2>2. QED
    BY <2>1, <1>0 DEF MemoryIInv, SelectionsHold
<1>3. GraphIsKept'
  BY <1>0 DEF MemoryIInv, GraphIsKept
<1>4. SessionsHold'
  <2>0. /\ session = [r \in Sessions |-> session[r]]
        /\ pending = [r \in Sessions |-> pending[r]]
        /\ \A r \in Sessions :
              /\ SessionHolds(session[r], graph, selected)
              /\ pending[r] # NoPending =>
                    SessionHolds(pending[r], graph, selected) /\ pending[r].pc = "run"
              /\ session[r].pc = "wait" => pending[r] # NoPending
              /\ session[r].pc = "apply" =>
                    DeltaFits(session[r].delta, graph, deltas, named, refused)
    BY DEF MemoryIInv, SessionsHold
  <2>1. /\ session' = [r \in Sessions |-> session'[r]] /\ session'[s] = t
        /\ \A r \in Sessions : r # s => session'[r] = session[r]
    BY <1>0, <2>0
  <2>2. /\ pending' = [r \in Sessions |-> pending'[r]]
        /\ \A r \in Sessions : r # s => pending'[r] = pending[r]
        /\ pending'[s] # NoPending =>
              SessionHolds(pending'[s], graph, selected) /\ pending'[s].pc = "run"
    <3>1. CASE pending' = pending
      BY <3>1, <2>0
    <3>2. CASE pending' # pending
      <4>1. PICK p : /\ pending' = [pending EXCEPT ![s] = p]
                     /\ p # NoPending => SessionHolds(p, graph, selected) /\ p.pc = "run"
        BY <3>2 DEF QuietStep, PendingStep
      <4>2. /\ pending' = [r \in Sessions |-> pending'[r]] /\ pending'[s] = p
            /\ \A r \in Sessions : r # s => pending'[r] = pending[r]
        BY <4>1, <2>0
      <4>3. QED
        BY <4>1, <4>2
    <3>3. QED
      BY <3>1, <3>2
  <2>3. \A r \in Sessions :
          /\ SessionHolds(session'[r], graph, selected)
          /\ pending'[r] # NoPending =>
                SessionHolds(pending'[r], graph, selected) /\ pending'[r].pc = "run"
          /\ session'[r].pc = "wait" => pending'[r] # NoPending
          /\ session'[r].pc = "apply" =>
                DeltaFits(session'[r].delta, graph, deltas, named, refused)
    <3> TAKE r \in Sessions
    <3>1. CASE r = s
      BY <3>1, <1>0, <2>1, <2>2 DEF QuietStep
    <3>2. CASE r # s
      BY <3>2, <2>0, <2>1, <2>2
    <3>3. QED
      BY <3>1, <3>2
  <2>4. \A r, q \in Sessions :
          session'[r].pc = "apply" /\ session'[q].pc = "apply" /\ r # q
          => session'[r].delta.number # session'[q].delta.number
    BY <1>0, <2>1 DEF MemoryIInv, SessionsHold
  <2>5. QED
    BY <1>0, <2>1, <2>2, <2>3, <2>4 DEF SessionsHold
<1>5. store' = "ready" => StoreHolds'
  BY DEF StoreHolds
<1>6. QED
  BY <1>1, <1>2, <1>3, <1>4, <1>5 DEF MemoryIInv

(* A column of a session is written.                                       *)
LEMMA OverviewHolds ==
    ASSUME NEW u, NEW g, NEW chosen, SessionHolds(u, g, chosen), u.pc # "page", NEW x
    PROVE  LET t == [u EXCEPT !.overview = x] IN
           SessionHolds(t, g, chosen) /\ t.pc = u.pc
<1> DEFINE t == [u EXCEPT !.overview = x]
<1>0. Shaped(u) /\ u.pc \in Places /\ u.epoch \in 0..MaxEpoch
  BY DEF SessionHolds
<1>1. /\ Shaped(t) /\ t.pc = u.pc /\ t.epoch = u.epoch /\ t.seen = u.seen
      /\ t.told = u.told /\ t.whole = u.whole /\ t.open = u.open
  BY <1>0 DEF Shaped
<1> HIDE DEF t
<1>2. SessionHolds(t, g, chosen)
  BY <1>0, <1>1, SessionGoesOn
<1>3. QED
  BY <1>1, <1>2 DEF t

LEMMA TaskHolds ==
    ASSUME NEW u, NEW g, NEW chosen, SessionHolds(u, g, chosen), u.pc # "page", NEW x
    PROVE  LET t == [u EXCEPT !.task = x] IN
           SessionHolds(t, g, chosen) /\ t.pc = u.pc
<1> DEFINE t == [u EXCEPT !.task = x]
<1>0. Shaped(u) /\ u.pc \in Places /\ u.epoch \in 0..MaxEpoch
  BY DEF SessionHolds
<1>1. /\ Shaped(t) /\ t.pc = u.pc /\ t.epoch = u.epoch /\ t.seen = u.seen
      /\ t.told = u.told /\ t.whole = u.whole /\ t.open = u.open
  BY <1>0 DEF Shaped
<1> HIDE DEF t
<1>2. SessionHolds(t, g, chosen)
  BY <1>0, <1>1, SessionGoesOn
<1>3. QED
  BY <1>1, <1>2 DEF t

LEMMA EpochHolds ==
    ASSUME NEW u, NEW g, NEW chosen, SessionHolds(u, g, chosen), u.pc # "page",
           NEW x \in 0..MaxEpoch
    PROVE  LET t == [u EXCEPT !.epoch = x] IN
           SessionHolds(t, g, chosen) /\ t.pc = u.pc
<1> DEFINE t == [u EXCEPT !.epoch = x]
<1>0. Shaped(u) /\ u.pc \in Places /\ u.epoch \in 0..MaxEpoch
  BY DEF SessionHolds
<1>1. /\ Shaped(t) /\ t.pc = u.pc /\ t.epoch = x /\ t.seen = u.seen
      /\ t.told = u.told /\ t.whole = u.whole /\ t.open = u.open
  BY <1>0 DEF Shaped
<1> HIDE DEF t
<1>2. SessionHolds(t, g, chosen)
  BY <1>0, <1>1, SessionGoesOn
<1>3. QED
  BY <1>1, <1>2 DEF t

LEMMA PlaceHolds ==
    ASSUME NEW u, NEW g, NEW chosen, SessionHolds(u, g, chosen),
           NEW x \in Places \ {"page"}
    PROVE  LET t == [u EXCEPT !.pc = x] IN
           SessionHolds(t, g, chosen) /\ t.pc = x
<1> DEFINE t == [u EXCEPT !.pc = x]
<1>0. Shaped(u) /\ u.pc \in Places /\ u.epoch \in 0..MaxEpoch
  BY DEF SessionHolds
<1>1. /\ Shaped(t) /\ t.pc = x /\ t.epoch = u.epoch /\ t.seen = u.seen
      /\ t.told = u.told /\ t.whole = u.whole /\ t.open = u.open
  BY <1>0 DEF Shaped
<1> HIDE DEF t
<1>2. SessionHolds(t, g, chosen)
  BY <1>0, <1>1, SessionGoesOn
<1>3. QED
  BY <1>1, <1>2 DEF t

LEMMA PlaceAndRecallHolds ==
    ASSUME NEW u, NEW g, NEW chosen, SessionHolds(u, g, chosen),
           NEW x \in Places \ {"page"}
    PROVE  LET t == [u EXCEPT !.pc = x, !.recall = 0] IN
           SessionHolds(t, g, chosen) /\ t.pc = x
<1> DEFINE t == [u EXCEPT !.pc = x, !.recall = 0]
<1>0. Shaped(u) /\ u.pc \in Places /\ u.epoch \in 0..MaxEpoch
  BY DEF SessionHolds
<1>1. /\ Shaped(t) /\ t.pc = x /\ t.epoch = u.epoch /\ t.seen = u.seen
      /\ t.told = u.told /\ t.whole = u.whole /\ t.open = u.open
  BY <1>0 DEF Shaped
<1> HIDE DEF t
<1>2. SessionHolds(t, g, chosen)
  BY <1>0, <1>1, SessionGoesOn
<1>3. QED
  BY <1>1, <1>2 DEF t

(* Of the invariant, what concerns one session.                            *)
LEMMA OfSession ==
    ASSUME MemoryIInv, NEW s \in Sessions
    PROVE  /\ SessionHolds(session[s], graph, selected)
           /\ pending[s] # NoPending =>
                SessionHolds(pending[s], graph, selected) /\ pending[s].pc = "run"
           /\ session[s].pc = "wait" => pending[s] # NoPending
           /\ session[s].pc \notin {"off", "version"} => store = "ready"
           /\ waits \in 0..MaxWaits /\ faults \in 0..MaxFaults
BY DEF MemoryIInv, SessionsHold, StoreHolds, CountersHold

(* The steps of a session that write nothing.                              *)
LEMMA MakeTablesKeeps ==
    ASSUME MemoryIInv, NEW s \in Sessions, MakeTables(s)
    PROVE  MemoryIInv'
<1> DEFINE t == [session[s] EXCEPT !.pc = "version"]
<1>1. /\ store = "absent" /\ store' = "bare" /\ session' = [session EXCEPT ![s] = t]
      /\ UNCHANGED <<graph, snapshots, pending, named, deltas, waits, faults,
                     accepted, refused, selected>>
  BY DEF MakeTables, Step, counters, history
<1>2. SessionHolds(t, graph, selected) /\ t.pc = "version"
  <2>1. "version" \in Places \ {"page"}
    BY DEF Places
  <2>2. QED
    BY <2>1, OfSession, PlaceHolds
<1> HIDE DEF t
<1>3. QuietStep(s, t)
  BY <1>1, <1>2, OfSession DEF QuietStep, PendingStep
<1>4. CountersHold' /\ SelectionsHold' /\ GraphIsKept' /\ SessionsHold'
  BY <1>3, QuietKeeps
<1>5. StoreHolds'
  <2>1. /\ graph = EmptyGraph /\ DOMAIN snapshots = {}
        /\ \A r \in Sessions : session[r].pc \in {"off", "version"} /\ pending[r] = NoPending
    BY <1>1 DEF MemoryIInv, StoreHolds
  <2>2. \A r \in Sessions : session'[r].pc \in {"off", "version"}
    BY <2>1, <1>1, <1>2 DEF MemoryIInv, SessionsHold
  <2>3. QED
    BY <2>1, <2>2, <1>1 DEF StoreHolds
<1>6. QED
  BY <1>4, <1>5 DEF MemoryIInv

LEMMA WriteVersionKeeps ==
    ASSUME MemoryIInv, NEW s \in Sessions, WriteVersion(s)
    PROVE  MemoryIInv'
<1> DEFINE t == [session[s] EXCEPT !.pc = "run"]
<1>1. /\ store' = "ready" /\ session' = [session EXCEPT ![s] = t]
      /\ UNCHANGED <<graph, snapshots, pending, named, deltas, waits, faults,
                     accepted, refused, selected>>
  BY DEF WriteVersion, Step, counters, history
<1>2. SessionHolds(t, graph, selected) /\ t.pc = "run"
  <2>1. "run" \in Places \ {"page"}
    BY DEF Places
  <2>2. QED
    BY <2>1, OfSession, PlaceHolds
<1> HIDE DEF t
<1>3. QuietStep(s, t)
  BY <1>1, <1>2, OfSession DEF QuietStep, PendingStep
<1>4. QED
  BY <1>1, <1>3, QuietKeeps

LEMMA StartKeeps ==
    ASSUME MemoryIInv, NEW s \in Sessions, Start(s)
    PROVE  MemoryIInv'
<1> DEFINE t == [session[s] EXCEPT !.pc = "run"]
<1>1. /\ store' = "ready" /\ session' = [session EXCEPT ![s] = t]
      /\ UNCHANGED <<graph, snapshots, pending, named, deltas, waits, faults,
                     accepted, refused, selected>>
  BY DEF Start, Step, counters, history
<1>2. SessionHolds(t, graph, selected) /\ t.pc = "run"
  <2>1. "run" \in Places \ {"page"}
    BY DEF Places
  <2>2. QED
    BY <2>1, OfSession, PlaceHolds
<1> HIDE DEF t
<1>3. QuietStep(s, t)
  BY <1>1, <1>2, OfSession DEF QuietStep, PendingStep
<1>4. QED
  BY <1>1, <1>3, QuietKeeps

(* What is shown is the memory as it is.                                   *)
LEMMA LookKeeps ==
    ASSUME MemoryIInv, NEW s \in Sessions, Look(s)
    PROVE  MemoryIInv'
<1> DEFINE seen == Projected(s)
           refs == DOMAIN seen.tasks \union DOMAIN session[s].overview
           t == [session[s] EXCEPT !.pc = "think", !.seen = seen, !.refs = refs]
<1>1. /\ session[s].pc = "run" /\ store' = store /\ session' = [session EXCEPT ![s] = t]
      /\ UNCHANGED <<graph, snapshots, pending, named, deltas, waits, faults,
                     accepted, refused, selected>>
  BY DEF Look, Step, At, counters, history
<1>2. \A n \in DOMAIN seen.nodes : HasNode(graph, n) /\ seen.nodes[n] = graph.nodes[n]
  BY DEF Projected, Restrict
<1> HIDE DEF seen, refs
<1>3. /\ SessionHolds(session[s], graph, selected) /\ Shaped(session[s])
      /\ ToldExactly(session[s], selected) /\ session[s].epoch \in 0..MaxEpoch
  BY OfSession DEF SessionHolds
<1>4. /\ Shaped(t) /\ t.pc = "think" /\ t.seen = seen /\ t.epoch = session[s].epoch
      /\ t.told = session[s].told /\ t.whole = session[s].whole /\ t.open = session[s].open
  BY <1>3 DEF Shaped
<1> HIDE DEF t
<1>5. SeenEarlier(t, graph)
  <2>1. \A n \in DOMAIN graph.nodes : /\ graph.nodes[n] \in NodeT
                                      /\ graph.nodes[n].revision \in Nat
    BY DEF MemoryIInv, GraphIsKept, GraphHolds, GraphTyped, NodeT
  <2>2. QED
    BY <2>1, <1>2, <1>4 DEF SeenEarlier, HasNode
<1>6. SessionHolds(t, graph, selected)
  BY <1>3, <1>4, <1>5 DEF SessionHolds, ToldExactly, Places
<1>7. QuietStep(s, t)
  BY <1>1, <1>4, <1>6, OfSession DEF QuietStep, PendingStep
<1>8. QED
  BY <1>1, <1>7, OfSession, QuietKeeps

LEMMA LockedKeeps ==
    ASSUME MemoryIInv, NEW s \in Sessions, Locked(s)
    PROVE  MemoryIInv'
<1> DEFINE t == [NewSession EXCEPT !.pc = "done"]
<1>1. /\ session[s].pc = "apply" /\ store' = store /\ session' = [session EXCEPT ![s] = t]
      /\ faults < MaxFaults /\ faults' = faults + 1
      /\ UNCHANGED <<graph, snapshots, pending, named, deltas, waits, accepted, refused,
                     selected>>
  BY DEF Locked, Step, At, history
<1>2. SessionHolds(t, graph, selected) /\ t.pc = "done"
  <2>1. "done" \in Places \ {"page"}
    BY DEF Places
  <2>2. QED
    BY <2>1, NewSessionHolds
<1> HIDE DEF t
<1>3. faults' \in 0..MaxFaults
  BY <1>1, OfSession, GraphAssumption
<1>4. QuietStep(s, t)
  BY <1>1, <1>2, <1>3, OfSession DEF QuietStep, PendingStep
<1>5. QED
  BY <1>1, <1>4, OfSession, QuietKeeps

LEMMA BindKeeps ==
    ASSUME MemoryIInv, NEW s \in Sessions, Bind(s)
    PROVE  MemoryIInv'
<1> DEFINE m == Moved(s, "operate")
<1>1. PICK n : session' = [session EXCEPT ![s] = [m EXCEPT !.task = n]]
  BY DEF Bind, Step
<1>2. /\ session[s].pc \in {"think", "bind"} /\ store' = store
      /\ UNCHANGED <<graph, snapshots, pending, named, deltas, waits, faults, accepted,
                     refused, selected>>
  BY DEF Bind, counters, history
<1>3. SessionHolds(m, graph, selected) /\ m.pc = "operate"
  <2>1. "operate" \in Places \ {"page"}
    BY DEF Places
  <2>2. QED
    BY <2>1, MovedHolds
<1> HIDE DEF m
<1> DEFINE t == [m EXCEPT !.task = n]
<1>4. SessionHolds(t, graph, selected) /\ t.pc = "operate"
  BY <1>3, TaskHolds
<1> HIDE DEF t
<1>5. QuietStep(s, t)
  BY <1>1, <1>2, <1>4, OfSession DEF QuietStep, PendingStep, t
<1>6. QED
  BY <1>2, <1>5, OfSession, QuietKeeps

LEMMA OverviewKeeps ==
    ASSUME MemoryIInv, NEW s \in Sessions, Overview(s)
    PROVE  MemoryIInv'
<1> DEFINE m == Moved(s, "run")
           t == [m EXCEPT !.overview = TaskDirectory]
<1>1. /\ session' = [session EXCEPT ![s] = t]
      /\ session[s].pc \in {"think", "bind", "operate"} /\ store' = store
      /\ UNCHANGED <<graph, snapshots, pending, named, deltas, waits, faults, accepted,
                     refused, selected>>
  BY DEF Overview, Step, Ready, history
<1>2. SessionHolds(m, graph, selected) /\ m.pc = "run"
  <2>1. "run" \in Places \ {"page"}
    BY DEF Places
  <2>2. QED
    BY <2>1, MovedHolds
<1> HIDE DEF m
<1>3. SessionHolds(t, graph, selected) /\ t.pc = "run"
  BY <1>2, OverviewHolds
<1> HIDE DEF t
<1>4. QuietStep(s, t)
  BY <1>1, <1>3, OfSession DEF QuietStep, PendingStep
<1>5. QED
  BY <1>1, <1>4, OfSession, QuietKeeps

LEMMA OperateKeeps ==
    ASSUME MemoryIInv, NEW s \in Sessions, Operate(s)
    PROVE  MemoryIInv'
<1> DEFINE t == Moved(s, "run")
<1>1. /\ session' = [session EXCEPT ![s] = t]
      /\ session[s].pc \in {"think", "bind", "operate"} /\ store' = store
      /\ UNCHANGED <<graph, snapshots, pending, named, deltas, waits, faults, accepted,
                     refused, selected>>
  BY DEF Operate, Step, Ready, counters, history
<1>2. SessionHolds(t, graph, selected) /\ t.pc = "run"
  <2>1. "run" \in Places \ {"page"}
    BY DEF Places
  <2>2. QED
    BY <2>1, MovedHolds
<1> HIDE DEF t
<1>3. QuietStep(s, t)
  BY <1>1, <1>2, OfSession DEF QuietStep, PendingStep
<1>4. QED
  BY <1>1, <1>3, OfSession, QuietKeeps

LEMMA EffectKeeps ==
    ASSUME MemoryIInv, NEW s \in Sessions, Effect(s)
    PROVE  MemoryIInv'
<1> DEFINE m == Moved(s, "run")
           t == [m EXCEPT !.epoch = m.epoch + 1]
<1>1. /\ session' = [session EXCEPT ![s] = t]
      /\ session[s].pc \in {"think", "bind", "operate"} /\ store' = store
      /\ session[s].epoch < MaxEpoch
      /\ UNCHANGED <<graph, snapshots, pending, named, deltas, waits, faults, accepted,
                     refused, selected>>
  BY DEF Effect, Step, Ready, counters, history
<1>2. SessionHolds(m, graph, selected) /\ m.pc = "run" /\ m.epoch = session[s].epoch
  <2>1. "run" \in Places \ {"page"}
    BY DEF Places
  <2>2. QED
    BY <2>1, MovedHolds
<1> HIDE DEF m
<1>3. m.epoch + 1 \in 0..MaxEpoch
  BY <1>1, <1>2, GraphAssumption DEF SessionHolds
<1>4. SessionHolds(t, graph, selected) /\ t.pc = "run"
  BY <1>2, <1>3, EpochHolds
<1> HIDE DEF t
<1>5. QuietStep(s, t)
  BY <1>1, <1>4, OfSession DEF QuietStep, PendingStep
<1>6. QED
  BY <1>1, <1>5, OfSession, QuietKeeps

LEMMA ReleaseKeeps ==
    ASSUME MemoryIInv, NEW s \in Sessions, Release(s)
    PROVE  MemoryIInv'
<1> DEFINE t == [session[s] EXCEPT !.pc = "run", !.recall = 0]
<1>1. /\ session' = [session EXCEPT ![s] = t]
      /\ session[s].pc = "free" /\ store' = store
      /\ snapshots' = Without({session[s].recall})
      /\ UNCHANGED <<graph, pending, named, deltas, waits, faults, accepted, refused,
                     selected>>
  BY DEF Release, Step, At, counters, history
<1>2. SessionHolds(t, graph, selected) /\ t.pc = "run"
  <2>1. "run" \in Places \ {"page"}
    BY DEF Places
  <2>2. QED
    BY <2>1, OfSession, PlaceAndRecallHolds
<1> HIDE DEF t
<1>3. QuietStep(s, t)
  BY <1>1, <1>2, OfSession DEF QuietStep, PendingStep
<1>4. QED
  BY <1>1, <1>3, OfSession, QuietKeeps

LEMMA ConcludeKeeps ==
    ASSUME MemoryIInv, NEW s \in Sessions, Conclude(s)
    PROVE  MemoryIInv'
<1> DEFINE t == [NewSession EXCEPT !.pc = "done"]
           ids == Cursors(session[s])
<1>1. /\ session' = [session EXCEPT ![s] = t]
      /\ session[s].pc \in {"think", "bind", "operate"} /\ store' = store
      /\ snapshots' = Without(ids)
      /\ pending' = [pending EXCEPT ![s] = NoPending]
      /\ UNCHANGED <<graph, named, deltas, waits, faults, accepted, refused, selected>>
  BY DEF Conclude, Step, Ready, counters, history
<1> HIDE DEF ids
<1>2. SessionHolds(t, graph, selected) /\ t.pc = "done"
  <2>1. "done" \in Places \ {"page"}
    BY DEF Places
  <2>2. QED
    BY <2>1, NewSessionHolds
<1> HIDE DEF t
<1>3. PendingStep(s)
  BY <1>1 DEF PendingStep
<1>4. QuietStep(s, t)
  BY <1>1, <1>2, <1>3, OfSession DEF QuietStep
<1>5. QED
  BY <1>1, <1>4, OfSession, QuietKeeps

LEMMA SuspendKeeps ==
    ASSUME MemoryIInv, NEW s \in Sessions, Suspend(s)
    PROVE  MemoryIInv'
<1> DEFINE m == Moved(s, "run")
           t == [m EXCEPT !.pc = "wait"]
<1>1. /\ session' = [session EXCEPT ![s] = t]
      /\ session[s].pc \in {"think", "bind", "operate"} /\ store' = store
      /\ pending' = [pending EXCEPT ![s] = m]
      /\ waits < MaxWaits /\ waits' = waits + 1
      /\ UNCHANGED <<graph, snapshots, named, deltas, faults, accepted, refused, selected>>
  BY DEF Suspend, Step, Ready, history
<1>2. SessionHolds(m, graph, selected) /\ m.pc = "run"
  <2>1. "run" \in Places \ {"page"}
    BY DEF Places
  <2>2. QED
    BY <2>1, MovedHolds
<1> HIDE DEF m
<1>3. SessionHolds(t, graph, selected) /\ t.pc = "wait"
  <2>1. "wait" \in Places \ {"page"}
    BY DEF Places
  <2>2. QED
    BY <2>1, <1>2, PlaceHolds
<1> HIDE DEF t
<1>4. PendingStep(s)
  BY <1>1, <1>2 DEF PendingStep
<1>5. pending'[s] = m /\ m # NoPending
  <2>1. pending = [r \in Sessions |-> pending[r]]
    BY DEF MemoryIInv, SessionsHold
  <2>2. NoPending.pc = "none"
    BY DEF NoPending
  <2>3. QED
    BY <2>1, <2>2, <1>1, <1>2
<1>6. waits' \in 0..MaxWaits
  BY <1>1, OfSession, GraphAssumption
<1>7. QuietStep(s, t)
  BY <1>1, <1>3, <1>4, <1>5, <1>6, OfSession DEF QuietStep
<1>8. QED
  BY <1>1, <1>7, OfSession, QuietKeeps

LEMMA ResumeKeeps ==
    ASSUME MemoryIInv, NEW s \in Sessions, Resume(s)
    PROVE  MemoryIInv'
<1> DEFINE t == pending[s]
<1>1. /\ session' = [session EXCEPT ![s] = t]
      /\ session[s].pc = "wait" /\ store' = store
      /\ UNCHANGED <<graph, snapshots, pending, named, deltas, waits, faults, accepted,
                     refused, selected>>
  BY DEF Resume, Step, At, counters, history
<1>2. SessionHolds(t, graph, selected) /\ t.pc = "run"
  BY <1>1, OfSession
<1> HIDE DEF t
<1>3. QuietStep(s, t)
  BY <1>1, <1>2, OfSession DEF QuietStep, PendingStep
<1>4. QED
  BY <1>1, <1>3, OfSession, QuietKeeps

LEMMA KillKeeps ==
    ASSUME MemoryIInv, NEW s \in Sessions, Kill(s)
    PROVE  MemoryIInv'
<1>1. /\ session' = [session EXCEPT ![s] = IF pending[s] = NoPending THEN NewSession
                                           ELSE [pending[s] EXCEPT !.pc = "wait"]]
      /\ session[s].pc \notin {"off", "wait", "done"} /\ store' = store
      /\ faults < MaxFaults /\ faults' = faults + 1
      /\ UNCHANGED <<graph, snapshots, pending, named, deltas, waits, accepted, refused,
                     selected>>
  BY DEF Kill, Step, history
<1>2. faults' \in 0..MaxFaults
  BY <1>1, OfSession, GraphAssumption
<1>3. ASSUME NEW t, session' = [session EXCEPT ![s] = t], SessionHolds(t, graph, selected),
             t.pc # "apply", t.pc = "wait" => pending[s] # NoPending
      PROVE  /\ CountersHold' /\ SelectionsHold' /\ GraphIsKept' /\ SessionsHold'
             /\ store' = "ready" => MemoryIInv'
  <2>1. QuietStep(s, t)
    BY <1>1, <1>2, <1>3, OfSession DEF QuietStep, PendingStep
  <2>2. QED
    BY <2>1, QuietKeeps
<1>4. CASE pending[s] = NoPending
  <2> DEFINE t == NewSession
  <2>1. SessionHolds(t, graph, selected) /\ t.pc = "off"
    BY OffHolds
  <2>2. session' = [session EXCEPT ![s] = t]
    BY <1>1, <1>4
  <2> HIDE DEF t
  <2>3. /\ CountersHold' /\ SelectionsHold' /\ GraphIsKept' /\ SessionsHold'
        /\ store' = "ready" => MemoryIInv'
    BY <2>1, <2>2, <1>3
  <2>4. CASE store = "ready"
    BY <2>3, <2>4, <1>1
  <2>5. CASE store # "ready"
    <3>1. StoreHolds'
      <4>1. /\ store \in {"absent", "bare"} /\ graph = EmptyGraph /\ DOMAIN snapshots = {}
            /\ \A r \in Sessions : session[r].pc \in {"off", "version"} /\ pending[r] = NoPending
        BY <2>5 DEF MemoryIInv, StoreHolds
      <4>2. \A r \in Sessions : session'[r].pc \in {"off", "version"}
        BY <4>1, <2>1, <2>2 DEF MemoryIInv, SessionsHold
      <4>3. QED
        BY <4>1, <4>2, <1>1 DEF StoreHolds
    <3>2. QED
      BY <3>1, <2>3 DEF MemoryIInv
  <2>6. QED
    BY <2>4, <2>5
<1>5. CASE pending[s] # NoPending
  <2> DEFINE p == pending[s]
             t == [p EXCEPT !.pc = "wait"]
  <2>1. SessionHolds(p, graph, selected) /\ p.pc = "run"
    BY <1>5, OfSession
  <2>2. session' = [session EXCEPT ![s] = t]
    BY <1>1, <1>5
  <2>3. store = "ready"
    BY <1>5 DEF MemoryIInv, StoreHolds
  <2> HIDE DEF p
  <2>4. SessionHolds(t, graph, selected) /\ t.pc = "wait"
    <3>1. "wait" \in Places \ {"page"}
      BY DEF Places
    <3>2. QED
      BY <3>1, <2>1, PlaceHolds
  <2> HIDE DEF t
  <2>5. QED
    BY <2>2, <2>3, <2>4, <1>1, <1>3, <1>5
<1>6. QED
  BY <1>4, <1>5

(* A collection takes selections away and nothing else.                    *)
LEMMA CollectKeeps ==
    ASSUME MemoryIInv, CollectList \/ CollectDelete
    PROVE  MemoryIInv'
<1>1. /\ UNCHANGED <<store, graph, session, pending, named, deltas, waits, accepted,
                     refused, selected>>
      /\ faults' \in 0..MaxFaults
      /\ DOMAIN snapshots' \subseteq DOMAIN snapshots
      /\ \A id \in DOMAIN snapshots' : snapshots'[id] = snapshots[id]
  <2>1. CASE CollectList
    <3>1. faults < MaxFaults /\ faults' = faults + 1 /\ faults \in 0..MaxFaults
      BY <2>1 DEF CollectList, MemoryIInv, CountersHold
    <3>2. QED
      BY <2>1, <3>1, GraphAssumption DEF CollectList, history
  <2>2. CASE CollectDelete
    <3>1. PICK ids : snapshots' = Without(ids)
      BY <2>2 DEF CollectDelete
    <3>2. faults \in 0..MaxFaults
      BY DEF MemoryIInv, CountersHold
    <3>3. QED
      BY <2>2, <3>1, <3>2, WithoutIs DEF CollectDelete, counters, history
  <2>3. QED
    BY <2>1, <2>2
<1>2. CountersHold'
  BY <1>1 DEF MemoryIInv, CountersHold
<1>3. StoreHolds'
  BY <1>1 DEF MemoryIInv, StoreHolds
<1>4. SelectionsHold'
  BY <1>1 DEF MemoryIInv, SelectionsHold
<1>5. GraphIsKept'
  BY <1>1 DEF MemoryIInv, GraphIsKept
<1>6. SessionsHold'
  BY <1>1 DEF MemoryIInv, SessionsHold
<1>7. QED
  BY <1>2, <1>3, <1>4, <1>5, <1>6 DEF MemoryIInv

-------------------------------------------------------------------------------
(* The pages.                                                              *)

(* What was told and the page after it are the beginning of the selection. *)
Begins(items, both, n, more) ==
    /\ n \in 0..Len(items)
    /\ Len(both) = n /\ both = SubSeq(items, 1, n)
    /\ more <=> n < Len(items)

LEMMA PageGoesOn ==
    ASSUME NEW items \in Seq(Nat), NEW after \in 0..Len(items), NEW before,
           before = SubSeq(items, 1, after)
    PROVE  /\ Len(PageAfter(items, after)) \in Nat
           /\ Begins(items, before \o PageAfter(items, after),
                     after + Len(PageAfter(items, after)), Remaining(items, after) > 0)
<1> DEFINE k == IF after + PageSize < Len(items) THEN after + PageSize ELSE Len(items)
           page == PageAfter(items, after)
           n == after + Len(page)
           both == before \o page
<1>0. PageSize \in Nat \ {0} /\ Len(items) \in Nat /\ after \in Nat
  BY GraphAssumption
<1>1. Min({after + PageSize, Len(items)}) = k
  BY <1>0 DEF Min
<1>2. k \in after..Len(items)
  BY <1>0
<1>3. page = SubSeq(items, after + 1, k)
  BY <1>1 DEF PageAfter
<1> HIDE DEF k, page
<1>4. /\ page \in Seq(Nat) /\ Len(page) = k - after
      /\ \A i \in 1..k - after : page[i] = items[after + i]
  BY <1>0, <1>2, <1>3, SMTT(240)
<1>5. /\ before \in Seq(Nat) /\ Len(before) = after
      /\ \A i \in 1..after : before[i] = items[i]
  BY <1>0
<1>6. n = k
  BY <1>0, <1>2, <1>4
<1>c. /\ both \in Seq(Nat) /\ Len(both) = Len(before) + Len(page)
      /\ \A i \in 1..Len(before) + Len(page) :
            both[i] = IF i <= Len(before) THEN before[i] ELSE page[i - Len(before)]
  BY <1>4, <1>5, ConcatProperties
<1> HIDE DEF both
<1>s. Len(before) + Len(page) = k
  BY <1>0, <1>2, <1>4, <1>5
<1>7. /\ both \in Seq(Nat) /\ Len(both) = k
      /\ \A i \in 1..k : both[i] = items[i]
  <2>1. both \in Seq(Nat) /\ Len(both) = k
    BY <1>c, <1>s
  <2>2. ASSUME NEW i \in 1..k PROVE both[i] = items[i]
    <3>1. both[i] = IF i <= after THEN before[i] ELSE page[i - after]
      BY <1>c, <1>s, <1>5
    <3>2. CASE i <= after
      <4>1. i \in 1..after
        BY <3>2, <1>0, <1>2
      <4>2. QED
        BY <4>1, <3>1, <3>2, <1>5
    <3>3. CASE ~(i <= after)
      <4>1. i - after \in 1..k - after /\ after + (i - after) = i
        BY <3>3, <1>0, <1>2
      <4>2. page[i - after] = items[after + (i - after)]
        BY <4>1, <1>4
      <4>3. QED
        BY <4>1, <4>2, <3>1, <3>3
    <3>4. QED
      BY <3>2, <3>3
  <2>3. QED
    BY <2>1, <2>2
<1>8. both = SubSeq(items, 1, k)
  <2> DEFINE q == SubSeq(items, 1, k)
  <2>1. q \in Seq(Nat) /\ Len(q) = k /\ \A i \in 1..k : q[i] = items[i]
    BY <1>0, <1>2, SMTT(60)
  <2> HIDE DEF q, both
  <2>2. QED
    BY <2>1, <1>7
<1>9. Remaining(items, after) = Len(items) - n
  BY DEF Remaining, page
<1>10. /\ k \in 0..Len(items) /\ Len(page) \in Nat
       /\ (Remaining(items, after) > 0 <=> k < Len(items))
  BY <1>0, <1>2, <1>4, <1>6, <1>9
<1>11. Begins(items, both, n, Remaining(items, after) > 0)
  BY <1>6, <1>7, <1>8, <1>10 DEF Begins
<1>12. QED
  BY <1>10, <1>11 DEF page, both

(* What a session is told by a page.                                       *)
ToldBefore(s, id) == IF id \in DOMAIN session[s].told THEN session[s].told[id] ELSE <<>>

PageTold(u, t, id, both, more, f, open) ==
    /\ Shaped(t) /\ t.seen = NothingSeen /\ t.epoch = u.epoch
    /\ t.pc = IF more THEN "run" ELSE "free"
    /\ t.told = Put(u.told, id, both)
    /\ t.whole = IF more THEN u.whole ELSE u.whole \union {id}
    /\ t.open = IF more THEN open \union {f} ELSE open

LEMMA TellPageIs ==
    ASSUME NEW s, Shaped(session[s]), NEW id, NEW after, NEW view, NEW open
    PROVE  LET items == snapshots[id].items
               page == PageAfter(items, after)
           IN  PageTold(session[s], TellPage(s, id, after, view, open), id,
                        ToldBefore(s, id) \o page, Remaining(items, after) > 0,
                        Frontier(id, after + Len(page), session[s].epoch), open)
<1> DEFINE u == session[s]
           m == Moved(s, "run")
           items == snapshots[id].items
           page == PageAfter(items, after)
           told == Put(m.told, id, ToldBefore(s, id) \o page)
           seen == view \union ToSet(page)
           h == [m EXCEPT !.told = told, !.view = seen]
           more == Remaining(items, after) > 0
           f == Frontier(id, after + Len(page), u.epoch)
           new == open \union {f}
           t == TellPage(s, id, after, view, open)
<1>1. t = IF more THEN [h EXCEPT !.recall = 0, !.open = new]
          ELSE [h EXCEPT !.pc = "free", !.recall = id, !.open = open,
                         !.whole = h.whole \union {id}]
  BY DEF TellPage, ToldBefore
<1>2. /\ Shaped(m) /\ m.pc = "run" /\ m.seen = NothingSeen
      /\ m.epoch = u.epoch /\ m.told = u.told /\ m.whole = u.whole
  BY MovedIs
<1> HIDE DEF m, seen, page
<1>3. /\ Shaped(h) /\ h.pc = "run" /\ h.seen = NothingSeen
      /\ h.epoch = u.epoch /\ h.told = told /\ h.whole = u.whole
  <2> HIDE DEF told
  <2>1. QED
    BY <1>2 DEF Shaped
<1>4. told = Put(u.told, id, ToldBefore(s, id) \o page)
  BY <1>2
<1> DEFINE Goal == PageTold(u, t, id, ToldBefore(s, id) \o page, more, f, open)
<1> HIDE DEF h, f, more, told, t
<1>5. CASE more
  <2>1. t = [h EXCEPT !.recall = 0, !.open = new]
    BY <1>1, <1>5
  <2>2. /\ Shaped(t) /\ t.pc = "run" /\ t.seen = h.seen /\ t.epoch = h.epoch
        /\ t.told = h.told /\ t.whole = h.whole /\ t.open = new
    BY <2>1, <1>3 DEF Shaped
  <2>3. Goal
    BY <2>2, <1>3, <1>4, <1>5 DEF PageTold
  <2>4. QED
    BY <2>3 DEF t, more, f, page
<1>6. CASE ~more
  <2>1. t = [h EXCEPT !.pc = "free", !.recall = id, !.open = open,
                      !.whole = h.whole \union {id}]
    BY <1>1, <1>6
  <2>2. /\ Shaped(t) /\ t.pc = "free" /\ t.seen = h.seen /\ t.epoch = h.epoch
        /\ t.told = h.told /\ t.whole = h.whole \union {id} /\ t.open = open
    BY <2>1, <1>3 DEF Shaped
  <2>3. Goal
    BY <2>2, <1>3, <1>4, <1>6 DEF PageTold
  <2>4. QED
    BY <2>3 DEF t, more, f, page
<1>7. QED
  BY <1>5, <1>6

LEMMA TellPageHolds ==
    ASSUME MemoryIInv, NEW s \in Sessions, NEW id \in DOMAIN snapshots, NEW after \in Nat,
           NEW view, NEW open \in SUBSET session[s].open,
           \A f \in open : f.snapshot # id,
           id \in DOMAIN session[s].told => after = Len(session[s].told[id]),
           id \notin DOMAIN session[s].told => after = 0
    PROVE  LET t == TellPage(s, id, after, view, open) IN
           SessionHolds(t, graph, selected) /\ t.pc \in {"run", "free"}
<1> DEFINE u == session[s]
           t == TellPage(s, id, after, view, open)
           items == snapshots[id].items
           before == ToldBefore(s, id)
           page == PageAfter(items, after)
           more == Remaining(items, after) > 0
           n == after + Len(page)
           both == before \o page
           f == Frontier(id, n, u.epoch)
<1>1. /\ id \in 1..Len(selected) /\ items = selected[id]
      /\ items \in Seq(Nat) /\ Len(items) \in Nat
  BY DEF MemoryIInv, SelectionsHold, Once
<1>2. /\ Shaped(u) /\ u.epoch \in 0..MaxEpoch /\ ToldExactly(u, selected)
  BY OfSession DEF SessionHolds
<1>3. after \in 0..Len(items) /\ before = SubSeq(items, 1, after)
  <2>1. CASE id \in DOMAIN u.told
    BY <2>1, <1>1, <1>2 DEF ToldExactly, ToldBefore
  <2>2. CASE id \notin DOMAIN u.told
    <3>1. after = 0 /\ before = <<>>
      BY <2>2 DEF ToldBefore
    <3>2. SubSeq(items, 1, 0) = <<>>
      BY <1>1
    <3>3. QED
      BY <3>1, <3>2, <1>1
  <2>3. QED
    BY <2>1, <2>2
<1>a. PageTold(u, t, id, both, more, f, open)
  BY <1>2, TellPageIs
<1> HIDE DEF t, items, before
<1>b. Len(page) \in Nat /\ Begins(items, both, n, more)
  BY <1>1, <1>3, PageGoesOn
<1>6. f.snapshot = id /\ f.after = n
  BY DEF Frontier
<1>c. n >= after
  BY <1>b
<1> HIDE DEF n, both, more, f, page
<1>4. /\ Shaped(t) /\ t.seen = NothingSeen /\ t.epoch = u.epoch
      /\ t.pc = (IF more THEN "run" ELSE "free")
      /\ t.told = Put(u.told, id, both)
      /\ t.whole = (IF more THEN u.whole ELSE u.whole \union {id})
      /\ t.open = (IF more THEN open \union {f} ELSE open)
  BY <1>a DEF PageTold
<1>5. /\ n \in 0..Len(items) /\ Len(both) = n /\ both = SubSeq(items, 1, n)
      /\ more <=> n < Len(items)
  BY <1>b DEF Begins
<1>7. /\ DOMAIN t.told = DOMAIN u.told \union {id} /\ t.told[id] = both
      /\ \A x \in DOMAIN u.told : x # id => t.told[x] = u.told[x]
  BY <1>4 DEF Put
<1>8. \A x \in DOMAIN t.told : /\ x \in 1..Len(selected)
                               /\ Len(t.told[x]) \in 0..Len(selected[x])
                               /\ t.told[x] = SubSeq(selected[x], 1, Len(t.told[x]))
  <2> TAKE x \in DOMAIN t.told
  <2>1. CASE x = id
    BY <2>1, <1>1, <1>5, <1>7
  <2>2. CASE x # id
    BY <2>2, <1>2, <1>7 DEF ToldExactly
  <2>3. QED
    BY <2>1, <2>2
<1>9. \A x \in t.whole : x \in DOMAIN t.told /\ t.told[x] = selected[x]
  <2>1. ASSUME id \in u.whole \/ ~more PROVE both = items
    <3>1. CASE ~more
      <4>1. n = Len(items)
        BY <3>1, <1>1, <1>5
      <4>2. SubSeq(items, 1, Len(items)) = items
        BY <1>1
      <4>3. QED
        BY <4>1, <4>2, <1>5
    <3>2. CASE id \in u.whole
      <4>1. id \in DOMAIN u.told /\ u.told[id] = items
        BY <3>2, <1>1, <1>2 DEF ToldExactly
      <4>2. after = Len(items)
        BY <4>1
      <4>3. ~more
        BY <4>2, <1>1, <1>5, <1>c
      <4>4. QED
        BY <4>3, <3>1
    <3>3. QED
      BY <2>1, <3>1, <3>2
  <2> TAKE x \in t.whole
  <2>2. CASE x = id
    BY <2>1, <2>2, <1>1, <1>4, <1>7
  <2>3. CASE x # id
    <3>1. x \in u.whole
      BY <2>3, <1>4
    <3>2. QED
      BY <3>1, <2>3, <1>2, <1>7 DEF ToldExactly
  <2>4. QED
    BY <2>2, <2>3
<1>10. \A g \in t.open : /\ g.snapshot \in DOMAIN t.told
                         /\ g.after = Len(t.told[g.snapshot])
                         /\ g.after < Len(selected[g.snapshot])
                         /\ \A h \in t.open : h.snapshot = g.snapshot => h = g
  <2>1. ASSUME NEW g \in t.open
        PROVE  /\ g.snapshot \in DOMAIN t.told
               /\ g.after = Len(t.told[g.snapshot])
               /\ g.after < Len(selected[g.snapshot])
               /\ g \in open \/ (g = f /\ g.snapshot = id)
    <3>1. CASE g \in open
      BY <3>1, <1>2, <1>7 DEF ToldExactly
    <3>2. CASE g \notin open
      BY <3>2, <1>1, <1>4, <1>5, <1>6, <1>7, SMTT(60)
    <3>3. QED
      BY <3>1, <3>2
  <2> TAKE g \in t.open
  <2>2. \A h \in t.open : h.snapshot = g.snapshot => h = g
    BY <2>1, <1>2 DEF ToldExactly
  <2>3. QED
    BY <2>1, <2>2
<1>11. SeenEarlier(t, graph)
  BY <1>4 DEF SeenEarlier, NothingSeen
<1>12. SessionHolds(t, graph, selected) /\ t.pc \in {"run", "free"}
  BY <1>2, <1>4, <1>8, <1>9, <1>10, <1>11 DEF SessionHolds, ToldExactly, Places
<1>13. QED
  BY <1>12 DEF t

LEMMA FirstPageKeeps ==
    ASSUME MemoryIInv, NEW s \in Sessions, FirstPage(s)
    PROVE  MemoryIInv'
<1> DEFINE id == session[s].recall
           t == IF id \in DOMAIN snapshots
                THEN TellPage(s, id, 0, {}, session[s].open)
                ELSE [session[s] EXCEPT !.pc = "run", !.recall = 0]
<1>1. /\ session' = [session EXCEPT ![s] = t]
      /\ session[s].pc = "page" /\ store' = store
      /\ UNCHANGED <<graph, snapshots, pending, named, deltas, waits, faults, accepted,
                     refused, selected>>
  BY DEF FirstPage, Step, At, counters, history
<1>2. SessionHolds(t, graph, selected) /\ t.pc \in {"run", "free"}
  <2>1. CASE id \in DOMAIN snapshots
    <3>1. id \notin DOMAIN session[s].told /\ ToldExactly(session[s], selected)
      BY <1>1, OfSession DEF SessionHolds
    <3>2. \A f \in session[s].open : f.snapshot # id
      BY <3>1 DEF ToldExactly
    <3>3. 0 \in Nat
      OBVIOUS
    <3>4. t = TellPage(s, id, 0, {}, session[s].open)
      BY <2>1
    <3> HIDE DEF t
    <3>5. QED
      BY <2>1, <3>1, <3>2, <3>3, <3>4, TellPageHolds
  <2>2. CASE id \notin DOMAIN snapshots
    <3>1. "run" \in Places \ {"page"}
      BY DEF Places
    <3>2. t = [session[s] EXCEPT !.pc = "run", !.recall = 0]
      BY <2>2
    <3> HIDE DEF t
    <3>3. QED
      BY <3>1, <3>2, OfSession, PlaceAndRecallHolds, ZenonT(60)
  <2>3. QED
    BY <2>1, <2>2
<1> HIDE DEF t
<1>3. QuietStep(s, t)
  BY <1>1, <1>2, OfSession DEF QuietStep, PendingStep
<1>4. QED
  BY <1>1, <1>3, OfSession, QuietKeeps

LEMMA OpenHolds ==
    ASSUME NEW u, NEW g, NEW chosen, SessionHolds(u, g, chosen), u.pc # "page",
           NEW x \in SUBSET u.open
    PROVE  LET t == [u EXCEPT !.open = x] IN
           SessionHolds(t, g, chosen) /\ t.pc = u.pc
<1> DEFINE t == [u EXCEPT !.open = x]
<1>0. Shaped(u) /\ u.pc \in Places /\ u.epoch \in 0..MaxEpoch
  BY DEF SessionHolds
<1>1. /\ Shaped(t) /\ t.pc = u.pc /\ t.epoch = u.epoch /\ t.seen = u.seen
      /\ t.told = u.told /\ t.whole = u.whole /\ t.open = x
  BY <1>0 DEF Shaped
<1> HIDE DEF t
<1>2. SeenEarlier(t, g)
  BY <1>1 DEF SessionHolds, SeenEarlier
<1>3. ToldExactly(t, chosen)
  BY <1>1 DEF SessionHolds, ToldExactly
<1>4. SessionHolds(t, g, chosen)
  BY <1>0, <1>1, <1>2, <1>3 DEF SessionHolds
<1>5. QED
  BY <1>1, <1>4 DEF t

LEMMA ContinueKeeps ==
    ASSUME MemoryIInv, NEW s \in Sessions, Continue(s)
    PROVE  MemoryIInv'
<1>1. PICK f \in session[s].open :
        LET left == session[s].open \ {f} IN
        session' = [session EXCEPT ![s] =
                      IF f.snapshot \in DOMAIN snapshots
                      THEN TellPage(s, f.snapshot, f.after, session[s].view, left)
                      ELSE [Moved(s, "run") EXCEPT !.open = left]]
  BY DEF Continue, Step
<1>2. /\ session[s].pc \in {"think", "bind", "operate"} /\ store' = store
      /\ UNCHANGED <<graph, snapshots, pending, named, deltas, waits, faults, accepted,
                     refused, selected>>
  BY DEF Continue, Ready, counters, history
<1> DEFINE left == session[s].open \ {f}
           m == Moved(s, "run")
           t == IF f.snapshot \in DOMAIN snapshots
                THEN TellPage(s, f.snapshot, f.after, session[s].view, left)
                ELSE [m EXCEPT !.open = left]
<1>3. session' = [session EXCEPT ![s] = t]
  BY <1>1
<1>4. SessionHolds(t, graph, selected) /\ t.pc \in {"run", "free"}
  <2>1. CASE f.snapshot \in DOMAIN snapshots
    <3>1. ToldExactly(session[s], selected)
      BY OfSession DEF SessionHolds
    <3>2. /\ f.snapshot \in DOMAIN session[s].told
          /\ f.after = Len(session[s].told[f.snapshot]) /\ f.after \in Nat
          /\ \A h \in left : h.snapshot # f.snapshot
      BY <3>1 DEF ToldExactly
    <3>3. t = TellPage(s, f.snapshot, f.after, session[s].view, left)
      BY <2>1
    <3> HIDE DEF t
    <3>4. QED
      BY <2>1, <3>2, <3>3, TellPageHolds
  <2>2. CASE f.snapshot \notin DOMAIN snapshots
    <3>1. "run" \in Places \ {"page"}
      BY DEF Places
    <3>2. t = [m EXCEPT !.open = left]
      BY <2>2
    <3>3. SessionHolds(m, graph, selected) /\ m.pc = "run" /\ m.open = session[s].open
      BY <3>1, MovedHolds
    <3> HIDE DEF t, m
    <3>4. QED
      BY <3>2, <3>3, OpenHolds
  <2>3. QED
    BY <2>1, <2>2
<1> HIDE DEF t
<1>5. QuietStep(s, t)
  BY <1>2, <1>3, <1>4, OfSession DEF QuietStep, PendingStep
<1>6. QED
  BY <1>2, <1>5, OfSession, QuietKeeps

-------------------------------------------------------------------------------
(* A recall: one more selection.                                           *)
LEMMA SessionMore ==
    ASSUME NEW t, NEW g, NEW chosen \in Seq(Seq(Nat)), SessionHolds(t, g, chosen),
           NEW items \in Seq(Nat)
    PROVE  SessionHolds(t, g, Append(chosen, items))
<1> DEFINE more == Append(chosen, items)
<1>1. /\ Len(chosen) \in Nat /\ Len(more) = Len(chosen) + 1
      /\ \A id \in 1..Len(chosen) : id \in 1..Len(more) /\ more[id] = chosen[id]
  OBVIOUS
<1> HIDE DEF more
<1>2. ToldExactly(t, chosen) /\ (t.pc = "page" => t.recall \in 1..Len(chosen))
  BY DEF SessionHolds
<1>3. ToldExactly(t, more)
  <2>1. \A id \in DOMAIN t.told :
          /\ id \in 1..Len(more)
          /\ Len(t.told[id]) \in 0..Len(more[id])
          /\ t.told[id] = SubSeq(more[id], 1, Len(t.told[id]))
    BY <1>1, <1>2 DEF ToldExactly
  <2>2. \A id \in t.whole : id \in DOMAIN t.told /\ t.told[id] = more[id]
    BY <1>1, <1>2 DEF ToldExactly
  <2>3. \A f \in t.open : /\ f.snapshot \in DOMAIN t.told
                          /\ f.after = Len(t.told[f.snapshot])
                          /\ f.after < Len(more[f.snapshot])
                          /\ \A h \in t.open : h.snapshot = f.snapshot => h = f
    BY <1>1, <1>2 DEF ToldExactly
  <2>4. QED
    BY <2>1, <2>2, <2>3 DEF ToldExactly
<1>4. SessionHolds(t, g, more)
  BY <1>1, <1>2, <1>3 DEF SessionHolds
<1>5. QED
  BY <1>4 DEF more

LEMMA ActivateKeeps ==
    ASSUME MemoryIInv, NEW s \in Sessions, Activate(s)
    PROVE  MemoryIInv'
<1> DEFINE id == Len(selected) + 1
           m == Moved(s, "page")
           t == [m EXCEPT !.recall = id]
<1>1. /\ session' = [session EXCEPT ![s] = t]
      /\ session[s].pc \in {"think", "bind", "operate"}
      /\ UNCHANGED <<store, graph, pending, named, deltas, waits, faults, accepted, refused>>
  BY DEF Activate, Step, Ready, counters
<1>2. PICK r \in Selectors :
        LET items == RecallItems(graph, r.ids, r.ids = {}, r.neighbours) IN
        /\ snapshots' = Put(snapshots, id, [items |-> items, owner |-> s])
        /\ selected' = Append(selected, items)
  BY DEF Activate
<1> DEFINE items == RecallItems(graph, r.ids, r.ids = {}, r.neighbours)
<1>3. Once(items, Nat)
  <2>1. /\ DOMAIN graph.nodes \in SUBSET (1..named) /\ named \in Nat
    BY DEF MemoryIInv, GraphIsKept, CountersHold
  <2>2. IsFiniteSet(1..named)
    BY <2>1, FS_Interval
  <2>3. DOMAIN graph.nodes \in SUBSET Nat /\ IsFiniteSet(DOMAIN graph.nodes)
    BY <2>1, <2>2, FS_Subset
  <2>4. QED
    BY <2>3, RecallOnce
<1>4. /\ snapshots' = Put(snapshots, id, [items |-> items, owner |-> s])
      /\ selected' = Append(selected, items) /\ items \in Seq(Nat)
  BY <1>2, <1>3 DEF Once
<1> HIDE DEF items
<1>5. /\ selected \in Seq(Seq(Nat)) /\ Len(selected) \in Nat /\ id = Len(selected) + 1
      /\ \A i \in 1..Len(selected) : Once(selected[i], Nat)
      /\ \A i \in DOMAIN snapshots : i \in 1..Len(selected)
                                     /\ snapshots[i].items = selected[i]
  BY DEF MemoryIInv, SelectionsHold
<1>6. /\ selected' \in Seq(Seq(Nat)) /\ Len(selected') = id
      /\ \A i \in 1..Len(selected) : selected'[i] = selected[i]
      /\ selected'[id] = items
  BY <1>4, <1>5
<1>7. CountersHold' /\ GraphIsKept'
  BY <1>1 DEF MemoryIInv, CountersHold, GraphIsKept
<1>8. StoreHolds'
  BY <1>1, OfSession DEF MemoryIInv, StoreHolds
<1>9. SelectionsHold'
  <2>1. \A i \in 1..Len(selected') : Once(selected'[i], Nat)
    <3> TAKE i \in 1..Len(selected')
    <3>1. i = id \/ i \in 1..Len(selected)
      BY <1>5, <1>6
    <3>2. QED
      BY <3>1, <1>3, <1>5, <1>6 DEF items
  <2>2. /\ DOMAIN snapshots' = DOMAIN snapshots \union {id} /\ snapshots'[id].items = items
        /\ \A i \in DOMAIN snapshots : i # id => snapshots'[i] = snapshots[i]
    BY <1>4 DEF Put
  <2>3. \A i \in DOMAIN snapshots' : i \in 1..Len(selected')
                                     /\ snapshots'[i].items = selected'[i]
    <3> TAKE i \in DOMAIN snapshots'
    <3>1. CASE i = id
      BY <3>1, <2>2, <1>5, <1>6
    <3>2. CASE i # id
      <4>1. /\ i \in 1..Len(selected) /\ snapshots'[i] = snapshots[i]
            /\ snapshots[i].items = selected[i]
        BY <3>2, <2>2, <1>5
      <4>2. selected'[i] = selected[i] /\ i \in 1..Len(selected')
        BY <4>1, <1>5, <1>6
      <4>3. QED
        BY <4>1, <4>2
    <3>3. QED
      BY <3>1, <3>2
  <2>4. QED
    BY <2>1, <2>3, <1>6 DEF SelectionsHold
<1>10. SessionHolds(t, graph, selected') /\ t.pc = "page"
  <2> DEFINE u == session[s]
  <2>1. /\ SessionHolds(u, graph, selected') /\ Shaped(u) /\ u.epoch \in 0..MaxEpoch
        /\ ToldExactly(u, selected)
    <3>1. SessionHolds(u, graph, selected)
      BY OfSession
    <3> HIDE DEF u
    <3>2. SessionHolds(u, graph, selected')
      BY <3>1, <1>4, <1>5, SessionMore
    <3>3. QED
      BY <3>1, <3>2 DEF SessionHolds
  <2>2. /\ Shaped(m) /\ m.pc = "page" /\ m.seen = NothingSeen /\ m.open = u.open
        /\ m.epoch = u.epoch /\ m.told = u.told /\ m.whole = u.whole
    BY <2>1, MovedIs
  <2> HIDE DEF m, u, id
  <2>3. /\ Shaped(t) /\ t.pc = "page" /\ t.seen = NothingSeen /\ t.open = u.open
        /\ t.epoch = u.epoch /\ t.told = u.told /\ t.whole = u.whole /\ t.recall = id
    BY <2>2 DEF Shaped
  <2> HIDE DEF t
  <2>4. SeenEarlier(t, graph)
    BY <2>3 DEF SeenEarlier, NothingSeen
  <2>5. ToldExactly(t, selected')
    BY <2>1, <2>3 DEF SessionHolds, ToldExactly
  <2>6. t.recall \in 1..Len(selected')
    BY <1>5, <1>6, <2>3
  <2>7. t.recall \notin DOMAIN t.told
    <3>1. ~(id \in 1..Len(selected))
      BY <1>5
    <3>2. QED
      BY <3>1, <2>1, <2>3 DEF ToldExactly
  <2>8. QED
    BY <2>1, <2>3, <2>4, <2>5, <2>6, <2>7 DEF SessionHolds, Places
<1> HIDE DEF t
<1>11. SessionsHold'
  <2>0. /\ session = [r1 \in Sessions |-> session[r1]]
        /\ pending = [r1 \in Sessions |-> pending[r1]]
        /\ \A r1 \in Sessions :
              /\ SessionHolds(session[r1], graph, selected)
              /\ pending[r1] # NoPending =>
                    SessionHolds(pending[r1], graph, selected) /\ pending[r1].pc = "run"
              /\ session[r1].pc = "wait" => pending[r1] # NoPending
              /\ session[r1].pc = "apply" =>
                    DeltaFits(session[r1].delta, graph, deltas, named, refused)
    BY DEF MemoryIInv, SessionsHold
  <2>1. /\ session' = [r1 \in Sessions |-> session'[r1]] /\ session'[s] = t
        /\ \A r1 \in Sessions : r1 # s => session'[r1] = session[r1]
    BY <1>1, <2>0
  <2>2. \A r1 \in Sessions :
          /\ SessionHolds(session'[r1], graph, selected')
          /\ pending[r1] # NoPending =>
                SessionHolds(pending[r1], graph, selected') /\ pending[r1].pc = "run"
          /\ session'[r1].pc = "wait" => pending[r1] # NoPending
          /\ session'[r1].pc = "apply" =>
                DeltaFits(session'[r1].delta, graph, deltas, named, refused)
    <3> TAKE r1 \in Sessions
    <3>1. /\ SessionHolds(session[r1], graph, selected')
          /\ pending[r1] # NoPending => SessionHolds(pending[r1], graph, selected')
      BY <1>4, <1>5, <2>0, SessionMore
    <3>2. CASE r1 = s
      BY <3>1, <3>2, <1>10, <2>0, <2>1
    <3>3. CASE r1 # s
      BY <3>1, <3>3, <2>0, <2>1
    <3>4. QED
      BY <3>2, <3>3
  <2>3. \A r1, q \in Sessions :
          session'[r1].pc = "apply" /\ session'[q].pc = "apply" /\ r1 # q
          => session'[r1].delta.number # session'[q].delta.number
    BY <1>10, <2>1 DEF MemoryIInv, SessionsHold
  <2>4. QED
    BY <1>1, <2>0, <2>1, <2>2, <2>3 DEF SessionsHold
<1>12. QED
  BY <1>7, <1>8, <1>9, <1>11 DEF MemoryIInv

(* A session goes on to write, or has written: the others keep what they   *)
(* have.                                                                   *)
LEMMA SessionsGoOn ==
    ASSUME SessionsHold, NEW s \in Sessions, NEW t,
           session' = [session EXCEPT ![s] = t], pending' = pending,
           \A x : SessionHolds(x, graph, selected) => SessionHolds(x, graph', selected'),
           \A r \in Sessions \ {s} : session[r].pc = "apply" =>
              DeltaFits(session[r].delta, graph', deltas', named', refused'),
           SessionHolds(t, graph', selected'), t.pc # "wait",
           t.pc = "apply" =>
              /\ DeltaFits(t.delta, graph', deltas', named', refused')
              /\ \A r \in Sessions \ {s} : session[r].pc = "apply" =>
                    session[r].delta.number # t.delta.number
    PROVE  SessionsHold'
<1>0. /\ session = [r \in Sessions |-> session[r]]
      /\ pending = [r \in Sessions |-> pending[r]]
      /\ \A r \in Sessions :
            /\ SessionHolds(session[r], graph, selected)
            /\ pending[r] # NoPending =>
                  SessionHolds(pending[r], graph, selected) /\ pending[r].pc = "run"
            /\ session[r].pc = "wait" => pending[r] # NoPending
  BY DEF SessionsHold
<1>1. /\ session' = [r \in Sessions |-> session'[r]] /\ session'[s] = t
      /\ \A r \in Sessions : r # s => session'[r] = session[r]
  BY <1>0
<1>2. \A r \in Sessions :
        /\ SessionHolds(session'[r], graph', selected')
        /\ pending[r] # NoPending =>
              SessionHolds(pending[r], graph', selected') /\ pending[r].pc = "run"
        /\ session'[r].pc = "wait" => pending[r] # NoPending
        /\ session'[r].pc = "apply" =>
              DeltaFits(session'[r].delta, graph', deltas', named', refused')
  <2> TAKE r \in Sessions
  <2>1. /\ SessionHolds(session[r], graph', selected')
        /\ pending[r] # NoPending => SessionHolds(pending[r], graph', selected')
    BY <1>0
  <2>2. CASE r = s
    BY <2>1, <2>2, <1>0, <1>1
  <2>3. CASE r # s
    BY <2>1, <2>3, <1>0, <1>1
  <2>4. QED
    BY <2>2, <2>3
<1>3. \A r, q \in Sessions :
        session'[r].pc = "apply" /\ session'[q].pc = "apply" /\ r # q
        => session'[r].delta.number # session'[q].delta.number
  <2> TAKE r, q \in Sessions
  <2> HAVE session'[r].pc = "apply" /\ session'[q].pc = "apply" /\ r # q
  <2>1. CASE r = s
    BY <2>1, <1>1
  <2>2. CASE q = s
    BY <2>2, <1>1
  <2>3. CASE r # s /\ q # s
    BY <2>3, <1>1 DEF SessionsHold
  <2>4. QED
    BY <2>1, <2>2, <2>3
<1>4. QED
  BY <1>0, <1>1, <1>2, <1>3 DEF SessionsHold

-------------------------------------------------------------------------------
(* What the model may write fits the memory it was shown.                  *)
OpShaped(o) ==
    o \in [op : {o.op}, on : {o.on}, at : {o.at}, to : {o.to}, kind : {o.kind},
           text : {o.text}, pins : {o.pins}]

LEMMA OpIs ==
    ASSUME NEW op, NEW on, NEW at, NEW to
    PROVE  LET o == Op(op, on, at, to) IN
           /\ OpShaped(o) /\ o.op = op /\ o.on = on /\ o.at = at /\ o.to = to
           /\ o.kind = "none" /\ o.text = {}
BY DEF Op, OpShaped

LEMMA WithTextIs ==
    ASSUME NEW o, OpShaped(o), NEW kind, NEW text
    PROVE  LET w == WithText(o, kind, text) IN
           /\ OpShaped(w) /\ w.op = o.op /\ w.on = o.on /\ w.at = o.at /\ w.to = o.to
           /\ w.kind = kind /\ w.text = text
BY DEF WithText, OpShaped

LEMMA WithPinsIs ==
    ASSUME NEW o, OpShaped(o), NEW pins
    PROVE  LET w == WithPins(o, pins) IN
           /\ OpShaped(w) /\ w.op = o.op /\ w.on = o.on /\ w.at = o.at /\ w.to = o.to
           /\ w.kind = o.kind /\ w.text = o.text
BY DEF WithPins, OpShaped

LEMMA OpFitsToo ==
    ASSUME NEW o, NEW w, w.op = o.op, w.on = o.on, w.at = o.at, w.to = o.to,
           w.kind = o.kind, w.text = o.text,
           NEW g, NEW number, NEW given, OpFits(o, g, number, given)
    PROVE  OpFits(w, g, number, given)
BY DEF OpFits, OpTyped

(* An operation without words always does.                                 *)
LEMMA QuietOpFits ==
    ASSUME NEW o, o.op \in Ops \ {"remember"}, o.kind \in {"none", "note", "task"},
           o.text = {}, o.op = "task_status" => o.to \in States,
           NEW g, NEW number, NEW given
    PROVE  OpFits(o, g, number, given)
BY DEF OpFits, OpTyped

Fits(o) ==
    /\ OpShaped(o)
    /\ OpFits(o, graph, deltas + 1, IF o.op = "remember" THEN Fresh ELSE named)

LEMMA RememberFits ==
    ASSUME deltas \in Nat, named \in Nat, NEW kind \in {"note", "task"}
    PROVE  Fits(Remember(kind)) /\ Remember(kind).op = "remember"
<1> DEFINE p == Op("remember", Fresh, 0, 0)
           o == WithText(p, kind, {deltas + 1})
<1>1. OpShaped(p) /\ p.op = "remember" /\ p.on = Fresh
  BY OpIs
<1> HIDE DEF p
<1>2. /\ OpShaped(o) /\ o.op = "remember" /\ o.on = Fresh /\ o.kind = kind
      /\ o.text = {deltas + 1}
  BY <1>1, WithTextIs
<1>3. Remember(kind) = o
  BY DEF Remember, p
<1> HIDE DEF o
<1>4. Fresh \in 1..Fresh /\ Fresh \in Nat \ {0} /\ o.text \in SUBSET Nat
  BY <1>2 DEF Fresh
<1>5. OpFits(o, graph, deltas + 1, Fresh)
  BY <1>2, <1>4 DEF OpFits, OpTyped, Ops
<1>6. QED
  BY <1>2, <1>3, <1>5 DEF Fits

LEMMA PlainFits ==
    ASSUME NEW op \in Ops \ {"remember"}, NEW on, NEW at, NEW to,
           op = "task_status" => to \in States
    PROVE  Fits(Op(op, on, at, to)) /\ Op(op, on, at, to).op = op
<1> DEFINE o == Op(op, on, at, to)
<1>1. OpShaped(o) /\ o.op = op /\ o.to = to /\ o.kind = "none" /\ o.text = {}
  BY OpIs
<1> HIDE DEF o
<1>2. OpFits(o, graph, deltas + 1, named)
  BY <1>1, QuietOpFits
<1>3. Fits(o)
  BY <1>1, <1>2 DEF Fits
<1>4. QED
  BY <1>1, <1>3 DEF o

LEMMA ReviseFits ==
    ASSUME deltas \in Nat, NEW s, SeenEarlier(session[s], graph),
           NEW n \in DOMAIN session[s].seen.nodes, NEW pins
    PROVE  Fits(WithPins(WithText(Op("revise", n, session[s].seen.nodes[n].revision, 0),
                                     "none", Words(s, n)), pins))
<1> DEFINE row == session[s].seen.nodes[n]
           p == Op("revise", n, row.revision, 0)
           q == WithText(p, "none", Words(s, n))
           o == WithPins(q, pins)
<1>1. OpShaped(p) /\ p.op = "revise" /\ p.on = n /\ p.at = row.revision
  BY OpIs
<1> HIDE DEF p
<1>2. /\ OpShaped(q) /\ q.op = "revise" /\ q.on = n /\ q.at = row.revision
      /\ q.kind = "none" /\ q.text = Words(s, n)
  BY <1>1, WithTextIs
<1> HIDE DEF q
<1>3. /\ OpShaped(o) /\ o.op = "revise" /\ o.on = n /\ o.at = row.revision
      /\ o.kind = "none" /\ o.text = Words(s, n)
  BY <1>2, WithPinsIs
<1>4. /\ row \in NodeT /\ HasNode(graph, n) /\ row.text \subseteq graph.nodes[n].text
      /\ row.revision <= graph.nodes[n].revision
      /\ row.revision = graph.nodes[n].revision => row = graph.nodes[n]
  BY DEF SeenEarlier
<1>5. /\ o.text = row.text \union {deltas + 1} /\ row.text \in SUBSET Nat
      /\ row.revision \in Nat
  BY <1>3, <1>4 DEF Words, NodeT
<1> HIDE DEF o, row
<1>6. OpTyped(o)
  BY <1>3, <1>5 DEF OpTyped, Ops
<1>7. OpFits(o, graph, deltas + 1, named)
  BY <1>3, <1>4, <1>5, <1>6 DEF OpFits
<1>8. Fits(o)
  BY <1>3, <1>7, SMTT(240) DEF Fits
<1>9. QED
  BY <1>8 DEF o, q, p, row

LEMMA AloneFits ==
    ASSUME deltas \in Nat, named \in Nat, NEW s, SeenEarlier(session[s], graph),
           NEW o \in Alone(s)
    PROVE  Fits(o)
<1> DEFINE seen == session[s].seen
<1>p. \A on, at, to :
          /\ Fits(Op("archive", on, at, to)) /\ Fits(Op("supersede", on, at, to))
          /\ Fits(Op("relate", on, at, to)) /\ Fits(Op("revise_relation", on, at, to))
          /\ Fits(Op("retire_relation", on, at, to))
  <2> TAKE on, at, to
  <2>1. Fits(Op("archive", on, at, to))
    <3>1. "archive" \in Ops \ {"remember"} /\ "archive" # "task_status"
      BY DEF Ops
    <3>2. QED
      BY <3>1, PlainFits
  <2>2. Fits(Op("supersede", on, at, to))
    <3>1. "supersede" \in Ops \ {"remember"} /\ "supersede" # "task_status"
      BY DEF Ops
    <3>2. QED
      BY <3>1, PlainFits
  <2>3. Fits(Op("relate", on, at, to))
    <3>1. "relate" \in Ops \ {"remember"} /\ "relate" # "task_status"
      BY DEF Ops
    <3>2. QED
      BY <3>1, PlainFits
  <2>4. Fits(Op("revise_relation", on, at, to))
    <3>1. "revise_relation" \in Ops \ {"remember"} /\ "revise_relation" # "task_status"
      BY DEF Ops
    <3>2. QED
      BY <3>1, PlainFits
  <2>5. Fits(Op("retire_relation", on, at, to))
    <3>1. "retire_relation" \in Ops \ {"remember"} /\ "retire_relation" # "task_status"
      BY DEF Ops
    <3>2. QED
      BY <3>1, PlainFits
  <2>6. QED
    BY <2>1, <2>2, <2>3, <2>4, <2>5
<1>t. \A on, at : \A t \in States : Fits(Op("task_status", on, at, t))
  <2> TAKE on, at
  <2> TAKE t \in States
  <2>1. "task_status" \in Ops \ {"remember"}
    BY DEF Ops
  <2>2. QED
    BY <2>1, PlainFits
<1>1. CASE o \in {Remember("note"), Remember("task")}
  <2>1. Fits(Remember("note"))
    BY RememberFits
  <2>2. Fits(Remember("task"))
    BY RememberFits
  <2>3. QED
    BY <1>1, <2>1, <2>2
<1>2. CASE o \in Reworded(s)
  <2> DEFINE made(n, p) == WithPins(
               WithText(Op("revise", n, seen.nodes[n].revision, 0), "none", Words(s, n)), p)
  <2>1. PICK n \in DOMAIN seen.nodes, p \in Supports(s) : o = made(n, p)
    BY <1>2 DEF Reworded
  <2>2. Fits(made(n, p))
    BY ReviseFits
  <2> HIDE DEF made
  <2>3. QED
    BY <2>1, <2>2
<1>3. CASE o \in Recast(s)
  <2> DEFINE other(n) == IF seen.nodes[n].kind = "note" THEN "task" ELSE "note"
             made(n) == WithText(Op("revise", n, seen.nodes[n].revision, 0), other(n), {})
  <2>1. PICK n \in DOMAIN seen.nodes : o = made(n)
    BY <1>3 DEF Recast
  <2> DEFINE p == Op("revise", n, seen.nodes[n].revision, 0)
  <2>2. OpShaped(p) /\ p.op = "revise"
    BY OpIs
  <2>3. other(n) \in {"note", "task"} /\ o = WithText(p, other(n), {})
    BY <2>1
  <2> HIDE DEF p, other, made
  <2>4. OpShaped(o) /\ o.op = "revise" /\ o.kind = other(n) /\ o.text = {}
    BY <2>2, <2>3, WithTextIs
  <2>5. o.op \in Ops \ {"remember"} /\ o.op # "task_status" /\ o.op # "remember"
    BY <2>4 DEF Ops
  <2>6. OpFits(o, graph, deltas + 1, named)
    BY <2>3, <2>4, <2>5, QuietOpFits
  <2>7. QED
    BY <2>4, <2>5, <2>6 DEF Fits
<1>4. CASE o \in Archived(s)
  <2> DEFINE made(n) == Op("archive", n, seen.nodes[n].revision, 0)
  <2>1. PICK n \in DOMAIN seen.nodes : o = made(n)
    BY <1>4 DEF Archived
  <2>2. Fits(made(n))
    BY <1>p
  <2> HIDE DEF made
  <2>3. QED
    BY <2>1, <2>2
<1>5. CASE o \in Superseded(s)
  <2> DEFINE made(p) == Op("supersede", p[1], seen.nodes[p[1]].revision, p[2])
  <2>1. PICK p \in Pairs(seen.nodes) : o = made(p)
    BY <1>5 DEF Superseded
  <2>2. Fits(made(p))
    BY <1>p
  <2> HIDE DEF made
  <2>3. QED
    BY <2>1, <2>2
<1>6. CASE o \in TaskMoved(s)
  <2> DEFINE made(n, t) == Op("task_status", n, seen.tasks[n].revision, t)
  <2>1. PICK n \in DOMAIN seen.tasks, t \in States : o = made(n, t)
    BY <1>6 DEF TaskMoved
  <2>2. Fits(made(n, t))
    BY <1>t
  <2> HIDE DEF made
  <2>3. QED
    BY <2>1, <2>2
<1>7. CASE o \in TaskListed(s)
  <2> DEFINE made(n, t) == Op("task_status", n, session[s].overview[n], t)
  <2>1. PICK n \in DOMAIN session[s].overview, t \in States : o = made(n, t)
    BY <1>7 DEF TaskListed
  <2>2. Fits(made(n, t))
    BY <1>t
  <2> HIDE DEF made
  <2>3. QED
    BY <2>1, <2>2
<1>8. CASE o \in Related(s)
  <2> DEFINE made(p) == Op("relate", p[1], 0, p[2])
  <2>1. PICK p \in Pairs(seen.nodes) : o = made(p)
    BY <1>8 DEF Related
  <2>2. Fits(made(p))
    BY <1>p
  <2> HIDE DEF made
  <2>3. QED
    BY <2>1, <2>2
<1>9. CASE o \in Rerelated(s)
  <2> DEFINE made(k, e) == Op(k, e, seen.edges[e].revision, 0)
  <2>1. PICK k \in {"revise_relation", "retire_relation"}, e \in DOMAIN seen.edges :
            o = made(k, e)
    BY <1>9 DEF Rerelated
  <2>2. CASE k = "revise_relation"
    <3>1. Fits(made("revise_relation", e))
      BY <1>p
    <3> HIDE DEF made
    <3>2. QED
      BY <2>1, <2>2, <3>1
  <2>3. CASE k = "retire_relation"
    <3>1. Fits(made("retire_relation", e))
      BY <1>p
    <3> HIDE DEF made
    <3>2. QED
      BY <2>1, <2>3, <3>1
  <2>4. QED
    BY <2>1, <2>2, <2>3
<1>10. \/ o \in {Remember("note"), Remember("task")}
       \/ o \in Reworded(s) \/ o \in Recast(s) \/ o \in Archived(s)
       \/ o \in Superseded(s) \/ o \in TaskMoved(s) \/ o \in TaskListed(s)
       \/ o \in Related(s) \/ o \in Rerelated(s)
  BY DEF Alone
<1>11. QED
  BY <1>10, <1>1, <1>2, <1>3, <1>4, <1>5, <1>6, <1>7, <1>8, <1>9

(* A delta of one operation or two, of which the second writes no text.    *)
Writable(d) ==
    /\ Len(d) \in {1, 2} /\ DOMAIN d = 1..Len(d)
    /\ \A i \in 1..Len(d) : Fits(d[i])
    /\ Len(d) = 2 => d[2].op \notin {"remember", "revise"}

LEMMA PairWritable ==
    ASSUME NEW a, NEW b, Fits(a), Fits(b), b.op \notin {"remember", "revise"}
    PROVE  Writable(<<a, b>>)
<1> DEFINE d == <<a, b>>
<1>1. Len(d) = 2 /\ DOMAIN d = 1..2 /\ d[1] = a /\ d[2] = b
  OBVIOUS
<1> HIDE DEF d
<1>2. \A i \in 1..2 : Fits(d[i])
  BY <1>1
<1>3. Writable(d)
  BY <1>1, <1>2 DEF Writable
<1>4. QED
  BY <1>3 DEF d

LEMMA DeltasFit ==
    ASSUME deltas \in Nat, named \in Nat, NEW s, SeenEarlier(session[s], graph),
           NEW d \in Deltas(s)
    PROVE  Writable(d)
<1> DEFINE seen == session[s].seen
           old(n) == Op("supersede", n, seen.nodes[n].revision, Fresh)
           near(n) == Op("relate", Fresh, 0, n)
           own == {Pin("node", Fresh, 0)}
           close(n, t) == Op("task_status", n, seen.tasks[n].revision, t)
           away(n) == Op("archive", n, seen.nodes[n].revision, 0)
<1>0. {"supersede", "relate", "archive", "task_status"} \subseteq Ops \ {"remember", "revise"}
  BY DEF Ops
<1>1. CASE \E o \in Alone(s) : d = <<o>>
  <2>1. PICK o \in Alone(s) : d = <<o>>
    BY <1>1
  <2>2. Len(d) = 1 /\ DOMAIN d = 1..1 /\ d[1] = o
    BY <2>1
  <2>3. Fits(o)
    BY AloneFits
  <2>4. QED
    BY <2>2, <2>3 DEF Writable
<1>2. CASE \E n \in DOMAIN seen.nodes : d = <<Remember("note"), old(n)>>
  <2>1. PICK n \in DOMAIN seen.nodes : d = <<Remember("note"), old(n)>>
    BY <1>2
  <2>2. Fits(Remember("note"))
    BY RememberFits
  <2>3. Fits(old(n)) /\ old(n).op = "supersede"
    BY <1>0, PlainFits
  <2> HIDE DEF old
  <2>4. QED
    BY <2>1, <2>2, <2>3, PairWritable
<1>3. CASE \E n \in DOMAIN seen.nodes : d = <<Remember("note"), WithPins(near(n), own)>>
  <2>1. PICK n \in DOMAIN seen.nodes : d = <<Remember("note"), WithPins(near(n), own)>>
    BY <1>3
  <2>2. Fits(Remember("note"))
    BY RememberFits
  <2>3. Fits(near(n)) /\ near(n).op = "relate"
    BY <1>0, PlainFits
  <2> DEFINE o == near(n)
             w == WithPins(o, own)
  <2> HIDE DEF near, own
  <2>4. /\ OpShaped(w) /\ w.op = o.op /\ w.on = o.on /\ w.at = o.at /\ w.to = o.to
        /\ w.kind = o.kind /\ w.text = o.text
    BY <2>3, WithPinsIs DEF Fits
  <2>5. d = <<Remember("note"), w>>
    BY <2>1
  <2>6. Fits(o) /\ o.op = "relate"
    BY <2>3
  <2> HIDE DEF o, w
  <2>7. OpFits(w, graph, deltas + 1, named)
    BY <2>4, <2>6, OpFitsToo DEF Fits
  <2>8. Fits(w) /\ w.op = "relate"
    BY <2>4, <2>6, <2>7 DEF Fits
  <2>9. QED
    BY <2>2, <2>5, <2>8, PairWritable
<1>4. CASE \E n \in DOMAIN seen.tasks : \E t \in States : d = <<close(n, t), away(n)>>
  <2>1. PICK n \in DOMAIN seen.tasks, t \in States : d = <<close(n, t), away(n)>>
    BY <1>4
  <2>2. Fits(close(n, t))
    BY <1>0, PlainFits
  <2>3. Fits(away(n)) /\ away(n).op = "archive"
    BY <1>0, PlainFits
  <2> HIDE DEF close, away
  <2>4. QED
    BY <2>1, <2>2, <2>3, PairWritable
<1>5. QED
  <2>1. d \in {<<o>> : o \in Alone(s)} \/ d \in Together(s)
    BY DEF Deltas
  <2>2. ASSUME d \in Together(s)
        PROVE  \/ \E n \in DOMAIN seen.nodes : d = <<Remember("note"), old(n)>>
               \/ \E n \in DOMAIN seen.nodes : d = <<Remember("note"), WithPins(near(n), own)>>
               \/ \E n \in DOMAIN seen.tasks : \E t \in States : d = <<close(n, t), away(n)>>
    <3>1. \/ d \in {<<Remember("note"), old(n)>> : n \in DOMAIN seen.nodes}
          \/ d \in {<<Remember("note"), WithPins(near(n), own)>> : n \in DOMAIN seen.nodes}
          \/ d \in {<<close(n, t), away(n)>> : n \in DOMAIN seen.tasks, t \in States}
      BY <2>2 DEF Together
    <3> HIDE DEF old, near, own, close, away, seen
    <3>2. QED
      BY <3>1
  <2> HIDE DEF old, near, own, close, away, seen
  <2>3. QED
    BY <2>1, <2>2, <1>1, <1>2, <1>3, <1>4

(* What is prepared differs in what it is pinned to.                       *)
LEMMA PreparedFits ==
    ASSUME NEW d, Writable(d)
    PROVE  LET p == Prepared(d) IN
           /\ Len(p) = Len(d) /\ DOMAIN p = 1..Len(d)
           /\ \A i \in 1..Len(d) :
                /\ p[i].op = d[i].op
                /\ OpFits(p[i], graph, deltas + 1,
                          IF d[i].op = "remember" THEN Fresh ELSE named)
<1> DEFINE p == Prepared(d)
           n == Len(d)
           pins(i) == {Pin(q.entity, q.id, RevisionRead(q)) : q \in d[i].pins}
<1>1. p = [i \in 1..n |-> [d[i] EXCEPT !.pins = pins(i)]] /\ n \in Nat
  BY DEF Prepared, Writable
<1> HIDE DEF pins, p, n
<1>2. DOMAIN p = 1..n
  BY <1>1
<1>3. Len(p) = n
  <2>1. p \in [1..n -> {p[i] : i \in 1..n}]
    BY <1>1
  <2>2. QED
    BY <2>1, <1>1
<1>4. ASSUME NEW i \in 1..n
      PROVE  /\ p[i].op = d[i].op
             /\ OpFits(p[i], graph, deltas + 1,
                       IF d[i].op = "remember" THEN Fresh ELSE named)
  <2> DEFINE o == d[i]
             w == WithPins(o, pins(i))
  <2>1. p[i] = w
    BY <1>1 DEF WithPins
  <2>2. Fits(o)
    BY DEF Writable, n
  <2> HIDE DEF o
  <2>3. /\ w.op = o.op /\ w.on = o.on /\ w.at = o.at /\ w.to = o.to
        /\ w.kind = o.kind /\ w.text = o.text
    BY <2>2, WithPinsIs DEF Fits
  <2> HIDE DEF w
  <2>4. OpFits(w, graph, deltas + 1, IF o.op = "remember" THEN Fresh ELSE named)
    BY <2>2, <2>3, OpFitsToo DEF Fits
  <2>5. QED
    BY <2>1, <2>3, <2>4 DEF o
<1>5. QED
  BY <1>2, <1>3, <1>4 DEF p, n

(* Deltas that others prepare, or that are refused, do not matter to it.   *)
LEMMA OpFitsStill ==
    ASSUME NEW o, NEW g, NEW number, NEW given \in Nat, NEW more \in Nat, given <= more,
           OpFits(o, g, number, given)
    PROVE  OpFits(o, g, number, more)
BY DEF OpFits

LEMMA DeltaFitsStill ==
    ASSUME NEW d, NEW g, NEW count \in Nat, NEW given \in Nat, NEW rejected,
           NEW later \in Nat, NEW more \in Nat, NEW others,
           DeltaFits(d, g, count, given, rejected), count <= later, given <= more,
           d.number \notin others
    PROVE  DeltaFits(d, g, later, more, others)
<1>1. \A i \in 1..Len(d.ops) : OpFits(d.ops[i], g, d.number, more)
  BY OpFitsStill DEF DeltaFits
<1>2. QED
  BY <1>1 DEF DeltaFits

LEMMA PrepareKeeps ==
    ASSUME MemoryIInv, NEW s \in Sessions, Prepare(s)
    PROVE  MemoryIInv'
<1>1. PICK d \in Deltas(s) :
        /\ deltas' = deltas + 1
        /\ named' = IF \E i \in DOMAIN d : d[i].op = "remember" THEN Fresh ELSE named
        /\ IF Prepares(d)
           THEN /\ Step(s, [Moved(s, "apply") EXCEPT
                             !.delta = [number |-> deltas', ops |-> Prepared(d)],
                             !.refs = Bindable(s, d)])
                /\ UNCHANGED refused
           ELSE /\ Step(s, [Moved(s, "bind") EXCEPT !.refs = session[s].refs])
                /\ refused' = refused \union {deltas'}
  BY DEF Prepare
<1>2. /\ session[s].pc = "think"
      /\ UNCHANGED <<store, graph, snapshots, pending, waits, faults, accepted, selected>>
  BY DEF Prepare, At
<1>3. deltas \in Nat /\ named \in Nat /\ refused \subseteq 1..deltas
  BY DEF MemoryIInv, CountersHold
<1>4. deltas' \in Nat /\ named' \in Nat /\ named <= named' /\ deltas <= deltas'
  BY <1>1, <1>3 DEF Fresh
<1>5. refused' \in {refused, refused \union {deltas'}}
  BY <1>1
<1>6. Writable(d)
  BY <1>3, OfSession, DeltasFit DEF SessionHolds
<1>7. CountersHold'
  BY <1>1, <1>2, <1>3, <1>4, <1>5 DEF MemoryIInv, CountersHold
<1>8. StoreHolds' /\ SelectionsHold'
  BY <1>2, OfSession DEF MemoryIInv, StoreHolds, SelectionsHold
<1>9. GraphIsKept'
  <2>1. WordsIn(graph) \subseteq (0..deltas') \ refused'
    BY <1>1, <1>3, <1>5 DEF MemoryIInv, GraphIsKept
  <2>2. DOMAIN graph.nodes \subseteq 1..named'
    BY <1>3, <1>4 DEF MemoryIInv, GraphIsKept
  <2>3. QED
    BY <2>1, <2>2, <1>2 DEF MemoryIInv, GraphIsKept
<1>10. \A x : SessionHolds(x, graph, selected) => SessionHolds(x, graph', selected')
  BY <1>2
<1>11. \A r \in Sessions \ {s} : session[r].pc = "apply" =>
          /\ DeltaFits(session[r].delta, graph', deltas', named', refused')
          /\ session[r].delta.number # deltas'
  <2> TAKE r \in Sessions \ {s}
  <2> HAVE session[r].pc = "apply"
  <2> DEFINE b == session[r].delta
  <2>1. DeltaFits(b, graph, deltas, named, refused)
    BY DEF MemoryIInv, SessionsHold
  <2> HIDE DEF b
  <2>2. b.number \in 1..deltas /\ b.number \notin refused
    BY <2>1 DEF DeltaFits
  <2>3. b.number # deltas' /\ b.number \notin refused'
    BY <2>2, <1>1, <1>3, <1>5
  <2>4. DeltaFits(b, graph, deltas', named', refused')
    BY <2>1, <2>3, <1>3, <1>4, DeltaFitsStill
  <2>5. QED
    BY <2>3, <2>4, <1>2 DEF b
<1>12. SessionsHold
  BY DEF MemoryIInv
<1>13. CASE Prepares(d)
  <2> DEFINE m == Moved(s, "apply")
             refs == Bindable(s, d)
             delta == [number |-> deltas', ops |-> Prepared(d)]
             t == [m EXCEPT !.delta = delta, !.refs = refs]
  <2>1. session' = [session EXCEPT ![s] = t] /\ refused' = refused
    BY <1>1, <1>13 DEF Step
  <2>2. /\ SessionHolds(m, graph, selected) /\ Shaped(m) /\ m.pc = "apply"
        /\ m.epoch \in 0..MaxEpoch
    <3>1. "apply" \in Places \ {"page"}
      BY DEF Places
    <3>2. SessionHolds(m, graph, selected) /\ m.pc = "apply"
      BY <3>1, MovedHolds
    <3> HIDE DEF m
    <3>3. QED
      BY <3>2 DEF SessionHolds
  <2> HIDE DEF m, refs
  <2>3. /\ Shaped(t) /\ t.pc = "apply" /\ t.delta = delta /\ t.epoch = m.epoch
        /\ t.seen = m.seen /\ t.told = m.told /\ t.whole = m.whole /\ t.open = m.open
    <3> HIDE DEF delta
    <3>1. QED
      BY <2>2 DEF Shaped
  <2>4. delta.number = deltas' /\ delta.ops = Prepared(d)
    OBVIOUS
  <2> HIDE DEF t, delta
  <2>5. SessionHolds(t, graph', selected')
    <3>1. t.pc \in Places \ {"page"}
      BY <2>3 DEF Places
    <3>2. SessionHolds(t, graph, selected)
      BY <3>1, <2>2, <2>3, SessionGoesOn
    <3>3. QED
      BY <3>2, <1>2
  <2>6. DeltaFits(delta, graph, deltas', named', refused')
    <3> DEFINE p == Prepared(d)
    <3>1. /\ Len(p) = Len(d) /\ DOMAIN p = 1..Len(d)
          /\ \A i \in 1..Len(d) :
                /\ p[i].op = d[i].op
                /\ OpFits(p[i], graph, deltas', IF d[i].op = "remember" THEN Fresh ELSE named)
      BY <1>1, <1>6, PreparedFits
    <3> HIDE DEF p
    <3>2. ASSUME NEW i \in 1..Len(d) PROVE OpFits(p[i], graph, deltas', named')
      <4>1. CASE d[i].op = "remember"
        <5>1. named' = Fresh
          BY <4>1, <1>1, <1>6 DEF Writable
        <5>2. QED
          BY <4>1, <5>1, <3>1
      <4>2. CASE d[i].op # "remember"
        <5>1. OpFits(p[i], graph, deltas', named)
          BY <4>2, <3>1
        <5>2. QED
          BY <5>1, <1>3, <1>4, OpFitsStill
      <4>3. QED
        BY <4>1, <4>2
    <3>3. deltas' \in 1..deltas' /\ deltas' \notin refused' /\ deltas' \notin WordsIn(graph)
      BY <1>1, <1>3, <2>1 DEF MemoryIInv, GraphIsKept
    <3>4. Len(d) = 2 => p[2].op \notin {"remember", "revise"}
      BY <3>1, <1>6 DEF Writable
    <3>5. Len(d) \in {1, 2}
      BY <1>6 DEF Writable
    <3>6. delta.number = deltas' /\ delta.ops = p
      BY <2>4 DEF p
    <3>7. QED
      BY <3>1, <3>2, <3>3, <3>4, <3>5, <3>6 DEF DeltaFits
  <2>7. SessionsHold'
    <3>1. /\ DeltaFits(t.delta, graph', deltas', named', refused')
          /\ \A r \in Sessions \ {s} : session[r].pc = "apply" =>
                session[r].delta.number # t.delta.number
      BY <2>3, <2>4, <2>6, <1>2, <1>11
    <3>2. QED
      BY <3>1, <2>1, <2>3, <2>5, <1>2, <1>10, <1>11, <1>12, SessionsGoOn
  <2>8. QED
    BY <2>7, <1>7, <1>8, <1>9 DEF MemoryIInv
<1>14. CASE ~Prepares(d)
  <2> DEFINE m == Moved(s, "bind")
             refs == session[s].refs
             t == [m EXCEPT !.refs = refs]
  <2>1. session' = [session EXCEPT ![s] = t]
    BY <1>1, <1>14 DEF Step
  <2>2. /\ SessionHolds(m, graph, selected) /\ Shaped(m) /\ m.pc = "bind"
        /\ m.epoch \in 0..MaxEpoch
    <3>1. "bind" \in Places \ {"page"}
      BY DEF Places
    <3>2. SessionHolds(m, graph, selected) /\ m.pc = "bind"
      BY <3>1, MovedHolds
    <3> HIDE DEF m
    <3>3. QED
      BY <3>2 DEF SessionHolds
  <2> HIDE DEF m, refs
  <2>3. /\ Shaped(t) /\ t.pc = "bind" /\ t.epoch = m.epoch
        /\ t.seen = m.seen /\ t.told = m.told /\ t.whole = m.whole /\ t.open = m.open
    BY <2>2 DEF Shaped
  <2> HIDE DEF t
  <2>4. SessionHolds(t, graph', selected')
    <3>1. t.pc \in Places \ {"page"}
      BY <2>3 DEF Places
    <3>2. SessionHolds(t, graph, selected)
      BY <3>1, <2>2, <2>3, SessionGoesOn
    <3>3. QED
      BY <3>2, <1>2
  <2>5. SessionsHold'
    BY <2>1, <2>3, <2>4, <1>2, <1>10, <1>11, <1>12, SessionsGoOn
  <2>6. QED
    BY <2>5, <1>7, <1>8, <1>9 DEF MemoryIInv
<1>15. QED
  BY <1>13, <1>14

-------------------------------------------------------------------------------
(* A changeset is applied.                                                 *)
TextsGrow(g, r) == \A n \in DOMAIN g.nodes : g.nodes[n].text \subseteq r.nodes[n].text

(* What was shown before it was shown earlier.                             *)
LEMMA SessionLater ==
    ASSUME NEW g, NEW r, GraphTyped(g), GraphTyped(r), Later(g, r), TextsGrow(g, r),
           NEW x, NEW chosen, SessionHolds(x, g, chosen)
    PROVE  SessionHolds(x, r, chosen)
<1>1. SeenEarlier(x, r)
  <2> SUFFICES ASSUME NEW n \in DOMAIN x.seen.nodes
               PROVE  /\ x.seen.nodes[n] \in NodeT
                      /\ HasNode(r, n)
                      /\ x.seen.nodes[n].text \subseteq r.nodes[n].text
                      /\ x.seen.nodes[n].revision <= r.nodes[n].revision
                      /\ x.seen.nodes[n].revision = r.nodes[n].revision
                            => x.seen.nodes[n] = r.nodes[n]
    BY DEF SeenEarlier
  <2> DEFINE row == x.seen.nodes[n]
  <2>1. /\ row \in NodeT /\ HasNode(g, n) /\ row.text \subseteq g.nodes[n].text
        /\ row.revision <= g.nodes[n].revision
        /\ row.revision = g.nodes[n].revision => row = g.nodes[n]
    BY DEF SessionHolds, SeenEarlier
  <2>2. /\ HasNode(r, n) /\ g.nodes[n].revision <= r.nodes[n].revision
        /\ g.nodes[n].revision = r.nodes[n].revision => r.nodes[n] = g.nodes[n]
        /\ g.nodes[n].text \subseteq r.nodes[n].text
    BY <2>1 DEF Later, TextsGrow, HasNode
  <2>3. /\ g.nodes[n].revision \in Nat /\ r.nodes[n].revision \in Nat
        /\ row.revision \in Nat
    BY <2>1, <2>2 DEF GraphTyped, NodeT, HasNode
  <2> HIDE DEF row
  <2>4. /\ row.text \subseteq r.nodes[n].text /\ row.revision <= r.nodes[n].revision
        /\ row.revision = r.nodes[n].revision => row = r.nodes[n]
    BY <2>1, <2>2, <2>3
  <2>5. QED
    BY <2>1, <2>2, <2>4 DEF row
<1>2. QED
  BY <1>1 DEF SessionHolds

(* So was what another delta was written on.                               *)
LEMMA OpLater ==
    ASSUME NEW g, NEW r, GraphTyped(g), GraphTyped(r), Later(g, r), TextsGrow(g, r),
           NEW o, NEW number, NEW given, OpFits(o, g, number, given)
    PROVE  OpFits(o, r, number, given)
<1>1. ASSUME o.op = "revise", o.text # {}
      PROVE  /\ HasNode(r, o.on)
             /\ o.at \in Nat /\ o.at <= r.nodes[o.on].revision
             /\ o.text \subseteq r.nodes[o.on].text \union {number}
             /\ o.at = r.nodes[o.on].revision =>
                   o.text = r.nodes[o.on].text \union {number}
  <2> DEFINE n == o.on
  <2>1. /\ HasNode(g, n) /\ o.at \in Nat /\ o.at <= g.nodes[n].revision
        /\ o.text \subseteq g.nodes[n].text \union {number}
        /\ o.at = g.nodes[n].revision => o.text = g.nodes[n].text \union {number}
    BY <1>1 DEF OpFits
  <2>2. /\ HasNode(r, n) /\ g.nodes[n].revision <= r.nodes[n].revision
        /\ g.nodes[n].revision = r.nodes[n].revision => r.nodes[n] = g.nodes[n]
        /\ g.nodes[n].text \subseteq r.nodes[n].text
    BY <2>1 DEF Later, TextsGrow, HasNode
  <2>3. g.nodes[n].revision \in Nat /\ r.nodes[n].revision \in Nat
    BY <2>1, <2>2 DEF GraphTyped, NodeT, HasNode
  <2> HIDE DEF n
  <2>4. /\ o.text \subseteq r.nodes[n].text \union {number} /\ o.at <= r.nodes[n].revision
        /\ o.at = r.nodes[n].revision => o.text = r.nodes[n].text \union {number}
    BY <2>1, <2>2, <2>3
  <2>5. QED
    BY <2>1, <2>2, <2>4 DEF n
<1>2. QED
  BY <1>1 DEF OpFits

LEMMA DeltaLater ==
    ASSUME NEW g, NEW r, GraphTyped(g), GraphTyped(r), Later(g, r), TextsGrow(g, r),
           NEW d, NEW count, NEW given, NEW rejected, NEW k,
           DeltaFits(d, g, count, given, rejected), d.number # k,
           WordsIn(r) \subseteq WordsIn(g) \union {k}
    PROVE  DeltaFits(d, r, count, given, rejected)
<1>1. \A i \in 1..Len(d.ops) : OpFits(d.ops[i], r, d.number, given)
  BY OpLater DEF DeltaFits
<1>2. d.number \notin WordsIn(r)
  BY DEF DeltaFits
<1>3. QED
  BY <1>1, <1>2 DEF DeltaFits

(* The words of a node after the first operation of a changeset.           *)
LEMMA WrittenIs ==
    ASSUME NEW g, NEW r, NEW o, TextKept(g, o, r), NEW number, NEW given,
           OpFits(o, g, number, given)
    PROVE  /\ TextsGrow(g, r)
           /\ WordsIn(r) \subseteq WordsIn(g) \union {number}
           /\ DOMAIN r.nodes \subseteq DOMAIN g.nodes \union 1..given
           /\ o.op \in {"remember", "revise"} => \A t \in o.text :
                 HasNode(r, o.on) /\ t \in r.nodes[o.on].text
<1>1. \A n \in DOMAIN r.nodes :
        \/ n \in DOMAIN g.nodes /\ r.nodes[n].text = g.nodes[n].text
        \/ /\ n \in DOMAIN g.nodes /\ n = o.on
           /\ r.nodes[n].text = g.nodes[n].text \union {number}
        \/ n \in 1..given /\ n = o.on /\ r.nodes[n].text = {number} /\ n \notin DOMAIN g.nodes
  <2> TAKE n \in DOMAIN r.nodes
  <2>1. CASE n \notin DOMAIN g.nodes
    <3>1. o.op = "remember" /\ n = o.on
      BY <2>1 DEF TextKept
    <3>2. QED
      BY <2>1, <3>1 DEF TextKept, OpFits
  <2>2. CASE n \in DOMAIN g.nodes /\ (n # o.on \/ o.op # "revise" \/ o.text = {})
    BY <2>2 DEF TextKept
  <2>3. CASE n \in DOMAIN g.nodes /\ n = o.on /\ o.op = "revise" /\ o.text # {}
    BY <2>3 DEF TextKept, OpFits
  <2>4. QED
    BY <2>1, <2>2, <2>3
<1>2. DOMAIN g.nodes \subseteq DOMAIN r.nodes
  BY DEF TextKept
<1>3. TextsGrow(g, r)
  <2> SUFFICES ASSUME NEW n \in DOMAIN g.nodes
               PROVE  g.nodes[n].text \subseteq r.nodes[n].text
    BY DEF TextsGrow
  <2>1. \/ r.nodes[n].text = g.nodes[n].text
        \/ r.nodes[n].text = g.nodes[n].text \union {number}
    BY <1>1, <1>2
  <2>2. QED
    BY <2>1
<1>4. WordsIn(r) \subseteq WordsIn(g) \union {number}
  <2>1. ASSUME NEW n \in DOMAIN r.nodes
        PROVE  r.nodes[n].text \subseteq WordsIn(g) \union {number}
    <3>1. CASE n \in DOMAIN g.nodes
      <4>1. g.nodes[n].text \subseteq WordsIn(g)
        BY <3>1 DEF WordsIn
      <4>2. QED
        BY <3>1, <4>1, <1>1
    <3>2. CASE n \notin DOMAIN g.nodes
      BY <3>2, <1>1
    <3>3. QED
      BY <3>1, <3>2
  <2>2. QED
    BY <2>1 DEF WordsIn
<1>5. DOMAIN r.nodes \subseteq DOMAIN g.nodes \union 1..given
  BY <1>1
<1>6. ASSUME o.op \in {"remember", "revise"}, NEW t \in o.text
      PROVE  HasNode(r, o.on) /\ t \in r.nodes[o.on].text
  BY <1>6 DEF TextKept, HasNode
<1>7. QED
  BY <1>3, <1>4, <1>5, <1>6

LEMMA ApplyKeeps ==
    ASSUME MemoryIInv, NEW s \in Sessions, Apply(s)
    PROVE  MemoryIInv'
<1> DEFINE u == session[s]
           t == [u EXCEPT !.pc = "bind", !.delta = NoDelta]
           d == u.delta.ops
           number == u.delta.number
           result == ApplyGraphOperations(graph, d)
           r == result.graph
           new == {[id |-> d[i].on, text |-> x] :
                     i \in {i \in DOMAIN d : d[i].op \in {"remember", "revise"}},
                     x \in WrittenBy(d)}
<1>1. /\ u.pc = "apply" /\ session' = [session EXCEPT ![s] = t] /\ graph' = r
      /\ IF result.ok THEN accepted' = accepted \union new /\ refused' = refused
         ELSE accepted' = accepted /\ refused' = refused \union {number}
      /\ UNCHANGED <<store, snapshots, pending, named, deltas, waits, faults, selected>>
  BY DEF Apply, At, Step, counters
<1>2. DeltaFits(u.delta, graph, deltas, named, refused)
  BY <1>1 DEF MemoryIInv, SessionsHold
<1>3. /\ SessionHolds(u, graph, selected) /\ Shaped(u) /\ u.epoch \in 0..MaxEpoch
      /\ store = "ready"
  BY <1>1, OfSession DEF SessionHolds
<1>4. /\ Shaped(t) /\ t.pc = "bind" /\ t.epoch = u.epoch
      /\ t.seen = u.seen /\ t.told = u.told /\ t.whole = u.whole /\ t.open = u.open
  BY <1>3 DEF Shaped
<1> HIDE DEF t
<1>5. SessionHolds(t, graph, selected)
  <2>1. t.pc \in Places \ {"page"}
    BY <1>4 DEF Places
  <2>2. QED
    BY <2>1, <1>3, <1>4, SessionGoesOn
<1>6. /\ deltas \in Nat /\ named \in Nat /\ refused \subseteq 1..deltas
      /\ GraphHolds(graph) /\ graph.new = {} /\ graph.dirty = {}
      /\ DOMAIN graph.nodes \subseteq 1..named
      /\ WordsIn(graph) \subseteq (0..deltas) \ refused
      /\ \A a \in accepted : HasNode(graph, a.id) /\ a.text \in graph.nodes[a.id].text
  BY DEF MemoryIInv, CountersHold, GraphIsKept
<1>7. /\ number \in 1..deltas /\ number \notin refused /\ number \notin WordsIn(graph)
      /\ Len(d) \in {1, 2} /\ DOMAIN d = 1..Len(d)
      /\ \A i \in 1..Len(d) : OpFits(d[i], graph, number, named)
      /\ Len(d) = 2 => d[2].op \notin {"remember", "revise"}
  BY <1>2 DEF DeltaFits
<1>8. \A q \in Sessions \ {s} : session[q].pc = "apply" =>
        /\ DeltaFits(session[q].delta, graph, deltas, named, refused)
        /\ session[q].delta.number # number
  BY <1>1 DEF MemoryIInv, SessionsHold
<1> HIDE DEF d, number, u
<1>9. \A i \in 1..Len(d) : OpTyped(d[i])
  BY <1>7 DEF OpFits
<1>a. Changed(graph, d, ApplyGraphOperations(graph, d))
  <2>1. GraphHolds(graph)
    BY <1>6
  <2>2. Len(d) \in {1, 2} /\ (Len(d) = 2 => d[2].op \notin {"remember", "revise"})
    BY <1>7
  <2>3. QED
    BY <2>1, <2>2, <1>9, ChangesetKeeps
<1> HIDE DEF result
<1>10. /\ result.ok \in BOOLEAN /\ (~result.ok => r = graph)
       /\ result.ok => /\ GraphHolds(r) /\ r.new = {} /\ r.dirty = {}
                       /\ Later(graph, r) /\ TextKept(graph, d[1], r)
  BY <1>a DEF Changed, result
<1>11. SessionsHold /\ StoreHolds' /\ SelectionsHold'
  BY <1>1, <1>3 DEF MemoryIInv, StoreHolds, SelectionsHold
<1>12. CASE result.ok
  <2> DEFINE o == d[1]
  <2>1. /\ GraphHolds(r) /\ r.new = {} /\ r.dirty = {} /\ Later(graph, r)
        /\ TextKept(graph, o, r) /\ graph' = r
        /\ accepted' = accepted \union new /\ refused' = refused
    BY <1>1, <1>10, <1>12
  <2>2. OpFits(o, graph, number, named)
    BY <1>7
  <2> HIDE DEF r, new
  <2>3. /\ TextsGrow(graph, r)
        /\ WordsIn(r) \subseteq WordsIn(graph) \union {number}
        /\ DOMAIN r.nodes \subseteq DOMAIN graph.nodes \union 1..named
        /\ o.op \in {"remember", "revise"} => \A x \in o.text :
              HasNode(r, o.on) /\ x \in r.nodes[o.on].text
    <3> HIDE DEF o
    <3>1. QED
      BY <2>1, <2>2, WrittenIs
  <2>4. GraphTyped(graph) /\ GraphTyped(r)
    BY <1>6, <2>1 DEF GraphHolds
  <2>5. \A a \in new : HasNode(r, a.id) /\ a.text \in r.nodes[a.id].text
    <3> SUFFICES ASSUME NEW i \in DOMAIN d, d[i].op \in {"remember", "revise"},
                        NEW x \in WrittenBy(d)
                 PROVE  HasNode(r, d[i].on) /\ x \in r.nodes[d[i].on].text
      BY DEF new
    <3>1. i = 1
      BY <1>7
    <3>2. PICK j \in 1..Len(d) : x \in d[j].text
      BY <1>7 DEF WrittenBy
    <3>3. j = 1
      <4>1. CASE j = 2 /\ Len(d) = 2
        <5>1. d[2].text = {}
          BY <4>1, <1>7 DEF OpFits
        <5>2. QED
          BY <5>1, <4>1, <3>2
      <4>2. QED
        BY <4>1, <1>7
    <3>4. QED
      BY <3>1, <3>2, <3>3, <2>3
  <2>6. \A a \in accepted : HasNode(r, a.id) /\ a.text \in r.nodes[a.id].text
    <3> TAKE a \in accepted
    <3>1. a.id \in DOMAIN graph.nodes /\ a.text \in graph.nodes[a.id].text
      BY <1>6 DEF HasNode
    <3>2. a.id \in DOMAIN r.nodes /\ graph.nodes[a.id].text \subseteq r.nodes[a.id].text
      BY <3>1, <2>1, <2>3 DEF Later, TextsGrow
    <3>3. QED
      BY <3>1, <3>2 DEF HasNode
  <2>7. GraphIsKept'
    <3>1. DOMAIN r.nodes \subseteq 1..named
      BY <1>6, <2>3
    <3>2. WordsIn(r) \subseteq (0..deltas) \ refused
      BY <1>6, <1>7, <2>3
    <3>3. \A a \in accepted \union new :
             HasNode(r, a.id) /\ a.text \in r.nodes[a.id].text
      BY <2>5, <2>6
    <3>4. QED
      BY <3>1, <3>2, <3>3, <2>1, <1>1 DEF GraphIsKept
  <2>8. \A x : SessionHolds(x, graph, selected) => SessionHolds(x, graph', selected')
    <3>1. ASSUME NEW x, SessionHolds(x, graph, selected)
          PROVE  SessionHolds(x, r, selected)
      BY <3>1, <2>1, <2>3, <2>4, SessionLater
    <3>2. QED
      BY <3>1, <2>1, <1>1
  <2>9. \A q \in Sessions \ {s} : session[q].pc = "apply" =>
           DeltaFits(session[q].delta, graph', deltas', named', refused')
    <3> TAKE q \in Sessions \ {s}
    <3> HAVE session[q].pc = "apply"
    <3>1. DeltaFits(session[q].delta, r, deltas, named, refused)
      BY <1>8, <2>1, <2>3, <2>4, DeltaLater
    <3>2. QED
      BY <3>1, <2>1, <1>1
  <2>10. SessionsHold'
    <3>1. SessionHolds(t, graph', selected')
      BY <2>8, <1>5
    <3>2. QED
      BY <3>1, <2>8, <2>9, <1>1, <1>4, <1>11, SessionsGoOn
  <2>11. CountersHold'
    BY <2>1, <1>1 DEF MemoryIInv, CountersHold
  <2>12. QED
    BY <2>7, <2>10, <2>11, <1>11 DEF MemoryIInv
<1>13. CASE ~result.ok
  <2>1. graph' = graph /\ accepted' = accepted /\ refused' = refused \union {number}
    BY <1>1, <1>10, <1>13
  <2>2. GraphIsKept'
    <3>1. WordsIn(graph) \subseteq (0..deltas) \ (refused \union {number})
      BY <1>6, <1>7
    <3>2. QED
      BY <3>1, <2>1, <1>1, <1>6 DEF GraphIsKept
  <2>3. CountersHold'
    BY <2>1, <1>1, <1>6, <1>7 DEF MemoryIInv, CountersHold
  <2>4. \A x : SessionHolds(x, graph, selected) => SessionHolds(x, graph', selected')
    BY <2>1, <1>1
  <2>5. \A q \in Sessions \ {s} : session[q].pc = "apply" =>
           DeltaFits(session[q].delta, graph', deltas', named', refused')
    <3> TAKE q \in Sessions \ {s}
    <3> HAVE session[q].pc = "apply"
    <3> DEFINE b == session[q].delta
    <3>1. DeltaFits(b, graph, deltas, named, refused) /\ b.number # number
      BY <1>8
    <3> HIDE DEF b
    <3>2. b.number \notin refused'
      BY <3>1, <2>1 DEF DeltaFits
    <3>3. DeltaFits(b, graph, deltas, named, refused')
      BY <3>1, <3>2, <1>6, DeltaFitsStill
    <3>4. QED
      BY <3>3, <2>1, <1>1 DEF b
  <2>6. SessionsHold'
    <3>1. SessionHolds(t, graph', selected')
      BY <2>4, <1>5
    <3>2. QED
      BY <3>1, <2>4, <2>5, <1>1, <1>4, <1>11, SessionsGoOn
  <2>7. QED
    BY <2>2, <2>3, <2>6, <1>11 DEF MemoryIInv
<1>14. QED
  BY <1>10, <1>12, <1>13

-------------------------------------------------------------------------------
(* The invariant: from the beginning, and through every step.              *)
LEMMA NothingLearned == ApplyGraphOperations(EmptyGraph, <<>>).graph = EmptyGraph
<1> DEFINE f == StepsOf(EmptyGraph, <<>>)
           g == EmptyGraph
           r == RefreshIndex(g)
<1>1. Len(<<>>) = 0
  OBVIOUS
<1>2. Steps(f, EmptyGraph, <<>>, 0)
  BY <1>1, StepsOfIs
<1>3. f[0] = Accepted(g)
  BY <1>2 DEF Steps
<1> DEFINE result == ApplyGraphOperations(EmptyGraph, <<>>)
           last == f[Len(<<>>)]
<1>a. result = IF last.ok THEN Accepted(RefreshIndex(last.graph)) ELSE Refused(g)
  BY DEF ApplyGraphOperations
<1>b. last = Accepted(g)
  BY <1>1, <1>3
<1> HIDE DEF last, r, f, g
<1>c. last.ok /\ last.graph = g
  BY <1>b DEF Accepted
<1>4. result = Accepted(r)
  BY <1>a, <1>c DEF r
<1> USE DEF g
<1>d. result.graph = r
  BY <1>4 DEF Accepted
<1> USE DEF r
<1>5. r = g
  <2>1. /\ {x \in g.index : x.id \notin g.dirty \ g.new} = {}
        /\ {IndexRow(g, id) : id \in {n \in g.new \union g.dirty : IsCurrent(g, n)}} = {}
    BY DEF EmptyGraph
  <2>2. r = [g EXCEPT !.index = {}, !.new = {}, !.dirty = {}]
    BY <2>1 DEF RefreshIndex
  <2>3. QED
    BY <2>2 DEF EmptyGraph
<1>6. QED
  BY <1>5, <1>d

LEMMA InitHolds ==
    ASSUME MemoryInit
    PROVE  MemoryIInv
<1>1. PICK l \in Learned, w \in {{}, Sessions} :
        LET g == ApplyGraphOperations(EmptyGraph, l).graph IN
        /\ session = [s \in Sessions |-> IF s \in w THEN [Waiting(g) EXCEPT !.pc = "wait"]
                                         ELSE NewSession]
        /\ pending = [s \in Sessions |-> IF s \in w THEN Waiting(g) ELSE NoPending]
        /\ l = <<>> => w = {}
        /\ store \in IF l = <<>> THEN {"absent"} ELSE {"ready"}
        /\ graph = g
        /\ named = Cardinality(DOMAIN g.nodes)
        /\ accepted = {[id |-> n, text |-> 0] : n \in DOMAIN g.nodes}
  BY DEF MemoryInit
<1>2. /\ snapshots = <<>> /\ deltas = 0 /\ waits = 0 /\ faults = 0
      /\ refused = {} /\ selected = <<>>
  BY DEF MemoryInit
<1> DEFINE g == ApplyGraphOperations(EmptyGraph, l).graph
<1>3. LearnedHolds(g) /\ g.new = {} /\ g.dirty = {}
  BY LearnedKeeps
<1>4. DOMAIN g.nodes = 1..Cardinality(DOMAIN g.nodes)
  BY LearnedAssumption
<1>5. l = <<>> => g = EmptyGraph
  BY NothingLearned
<1>6. /\ session = [s \in Sessions |-> IF s \in w THEN [Waiting(g) EXCEPT !.pc = "wait"]
                                       ELSE NewSession]
      /\ pending = [s \in Sessions |-> IF s \in w THEN Waiting(g) ELSE NoPending]
      /\ l = <<>> => w = {}
      /\ store \in IF l = <<>> THEN {"absent"} ELSE {"ready"}
      /\ graph = g
      /\ named = Cardinality(DOMAIN g.nodes)
      /\ accepted = {[id |-> n, text |-> 0] : n \in DOMAIN g.nodes}
  BY <1>1
<1> HIDE DEF g
<1>7. CountersHold
  <2>1. named \in Nat
    BY <1>3, <1>6, FS_CardinalityType DEF LearnedHolds
  <2>2. QED
    BY <2>1, <1>2, GraphAssumption DEF CountersHold
<1>8. StoreHolds
  <2>1. CASE l = <<>>
    <3>1. \A s \in Sessions : session[s] = NewSession /\ pending[s] = NoPending
      BY <2>1, <1>6
    <3>2. NewSession.pc = "off"
      BY DEF NewSession
    <3>3. store = "absent" /\ graph = EmptyGraph /\ DOMAIN snapshots = {}
      BY <2>1, <1>2, <1>5, <1>6
    <3>4. QED
      BY <3>1, <3>2, <3>3 DEF StoreHolds
  <2>2. CASE l # <<>>
    BY <2>2, <1>6 DEF StoreHolds
  <2>3. QED
    BY <2>1, <2>2
<1>9. SelectionsHold
  <2>1. selected \in Seq(Seq(Nat)) /\ Len(selected) = 0 /\ DOMAIN snapshots = {}
    BY <1>2
  <2>2. QED
    BY <2>1 DEF SelectionsHold
<1>10. GraphIsKept
  <2>1. WordsIn(graph) \subseteq {0}
    BY <1>3, <1>6 DEF WordsIn, LearnedHolds
  <2>2. (0..deltas) \ refused = {0}
    BY <1>2
  <2>3. \A a \in accepted : HasNode(graph, a.id) /\ a.text \in graph.nodes[a.id].text
    BY <1>3, <1>6 DEF LearnedHolds, HasNode
  <2>4. DOMAIN graph.nodes \subseteq 1..named
    BY <1>4, <1>6
  <2>5. QED
    BY <2>1, <2>2, <2>3, <2>4, <1>3, <1>6 DEF GraphIsKept, LearnedHolds
<1>11. SessionsHold
  <2> DEFINE u == Waiting(g)
             t == [u EXCEPT !.pc = "wait"]
  <2>0. {"off", "run", "wait"} \subseteq Places \ {"page"}
    BY DEF Places
  <2>1. SessionHolds(u, graph, selected) /\ u.pc = "run"
    <3> DEFINE view == DOMAIN g.nodes
    <3>1. u = [NewSession EXCEPT !.pc = "run", !.view = view]
      BY DEF Waiting
    <3> HIDE DEF view, u
    <3>2. QED
      BY <2>0, <3>1, NewSessionHolds
  <2> HIDE DEF u
  <2>2. SessionHolds(t, graph, selected) /\ t.pc = "wait"
    BY <2>0, <2>1, PlaceHolds
  <2>3. SessionHolds(NewSession, graph, selected) /\ NewSession.pc = "off"
    BY OffHolds
  <2>4. u # NoPending
    BY <2>1 DEF NoPending
  <2>5. /\ session = [s \in Sessions |-> IF s \in w THEN t ELSE NewSession]
        /\ pending = [s \in Sessions |-> IF s \in w THEN u ELSE NoPending]
    BY <1>6 DEF u
  <2> HIDE DEF t
  <2>6. \A s \in Sessions : \/ session[s] = t /\ pending[s] = u
                            \/ session[s] = NewSession /\ pending[s] = NoPending
    BY <2>5
  <2>7. /\ session = [s \in Sessions |-> session[s]]
        /\ pending = [s \in Sessions |-> pending[s]]
    BY <2>5
  <2>8. QED
    BY <2>1, <2>2, <2>3, <2>4, <2>6, <2>7 DEF SessionsHold
<1>12. QED
  BY <1>7, <1>8, <1>9, <1>10, <1>11 DEF MemoryIInv

LEMMA NextKeeps ==
    ASSUME MemoryIInv, [MemoryNext]_vars
    PROVE  MemoryIInv'
<1>1. ASSUME NEW s \in Sessions, SessionStep(s) PROVE MemoryIInv'
  <2>1. CASE MakeTables(s)
    BY <2>1, MakeTablesKeeps
  <2>2. CASE WriteVersion(s)
    BY <2>2, WriteVersionKeeps
  <2>3. CASE Start(s)
    BY <2>3, StartKeeps
  <2>4. CASE Look(s)
    BY <2>4, LookKeeps
  <2>5. CASE Prepare(s)
    BY <2>5, PrepareKeeps
  <2>6. CASE Apply(s)
    BY <2>6, ApplyKeeps
  <2>7. CASE Locked(s)
    BY <2>7, LockedKeeps
  <2>8. CASE Bind(s)
    BY <2>8, BindKeeps
  <2>9. CASE Overview(s)
    BY <2>9, OverviewKeeps
  <2>10. CASE Activate(s)
    BY <2>10, ActivateKeeps
  <2>11. CASE FirstPage(s)
    BY <2>11, FirstPageKeeps
  <2>12. CASE Continue(s)
    BY <2>12, ContinueKeeps
  <2>13. CASE Release(s)
    BY <2>13, ReleaseKeeps
  <2>14. CASE Operate(s)
    BY <2>14, OperateKeeps
  <2>15. CASE Effect(s)
    BY <2>15, EffectKeeps
  <2>16. CASE Conclude(s)
    BY <2>16, ConcludeKeeps
  <2>17. CASE Suspend(s)
    BY <2>17, SuspendKeeps
  <2>18. CASE Resume(s)
    BY <2>18, ResumeKeeps
  <2>19. CASE Kill(s)
    BY <2>19, KillKeeps
  <2>20. QED
    BY <1>1, <2>1, <2>2, <2>3, <2>4, <2>5, <2>6, <2>7, <2>8, <2>9, <2>10, <2>11, <2>12,
       <2>13, <2>14, <2>15, <2>16, <2>17, <2>18, <2>19 DEF SessionStep
<1>2. CASE CollectList \/ CollectDelete
  BY <1>2, CollectKeeps
<1>3. CASE UNCHANGED vars
  <2>1. UNCHANGED <<store, graph, snapshots, session, pending, named, deltas, waits, faults,
                    accepted, refused, selected>>
    BY <1>3 DEF vars, counters, history
  <2>2. CountersHold' /\ StoreHolds' /\ SelectionsHold' /\ GraphIsKept'
    BY <2>1 DEF MemoryIInv, CountersHold, StoreHolds, SelectionsHold, GraphIsKept
  <2>3. SessionsHold'
    BY <2>1 DEF MemoryIInv, SessionsHold
  <2>4. QED
    BY <2>2, <2>3 DEF MemoryIInv
<1>4. QED
  BY <1>1, <1>2, <1>3 DEF MemoryNext

(* The invariant that all the promises of the memory rest on.              *)
THEOREM MemoryHolds == MemorySpec => []MemoryIInv
<1>1. MemoryInit => MemoryIInv
  BY InitHolds
<1>2. MemoryIInv /\ [MemoryNext]_vars => MemoryIInv'
  BY NextKeeps
<1>3. QED
  BY <1>1, <1>2, PTL DEF MemorySpec

-------------------------------------------------------------------------------
(* What follows from it.                                                   *)
LEMMA HoldsWhole ==
    ASSUME MemoryIInv
    PROVE  StoreIsWhole
<1>1. /\ deltas \in Nat /\ named \in Nat /\ waits <= MaxWaits /\ faults <= MaxFaults
      /\ store \in {"absent", "bare", "ready"}
      /\ store # "ready" => graph = EmptyGraph /\ DOMAIN snapshots = {}
  BY GraphAssumption DEF MemoryIInv, CountersHold, StoreHolds
<1>2. /\ GraphTyped(graph) /\ Linked(graph) /\ Indexed(graph)
      /\ graph.new = {} /\ graph.dirty = {}
      /\ DOMAIN graph.nodes \subseteq 1..named /\ WordsIn(graph) \subseteq 0..deltas
  BY DEF MemoryIInv, GraphIsKept, GraphHolds
<1>3. \A n \in DOMAIN graph.nodes : n \in 1..named /\ graph.nodes[n] \in NodeRow
  <2> TAKE n \in DOMAIN graph.nodes
  <2>1. graph.nodes[n] \in NodeT
    BY <1>2 DEF GraphTyped
  <2>2. graph.nodes[n].text \subseteq WordsIn(graph)
    BY DEF WordsIn
  <2>3. graph.nodes[n].text \in SUBSET (0..deltas)
    BY <2>2, <1>2
  <2>4. QED
    BY <2>1, <2>3, <1>2 DEF NodeT, NodeRow
<1>4. \A n \in DOMAIN graph.tasks : graph.tasks[n] \in TaskRow
  BY <1>2 DEF GraphTyped
<1>5. \A e \in DOMAIN graph.edges :
        /\ graph.edges[e] \in EdgeRow
        /\ HasNode(graph, graph.edges[e].source) /\ HasNode(graph, graph.edges[e].target)
  <2> TAKE e \in DOMAIN graph.edges
  <2>1. graph.edges[e] \in EdgeT
    BY <1>2 DEF GraphTyped
  <2>2. HasNode(graph, graph.edges[e].source) /\ HasNode(graph, graph.edges[e].target)
    BY <1>2 DEF Linked
  <2>3. graph.edges[e].source \in 1..named /\ graph.edges[e].target \in 1..named
    BY <2>2, <1>2 DEF HasNode
  <2>4. QED
    BY <2>1, <2>2, <2>3 DEF EdgeT, EdgeRow
<1>6. \A s \in Sessions :
        /\ session[s].pc \in {"off", "version", "run", "think", "apply", "bind", "operate",
                              "page", "free", "wait", "done"}
        /\ session[s].epoch \in 0..MaxEpoch
        /\ session[s].whole \subseteq DOMAIN session[s].told
  BY OfSession DEF SessionHolds, ToldExactly, Places
<1>7. MemoryTypeOK
  BY <1>1, <1>2, <1>3, <1>4, <1>5, <1>6 DEF MemoryTypeOK, Linked
<1>8. IndexIsCurrent
  BY <1>2, IndexedIsCurrent DEF IndexIsCurrent
<1>9. QED
  BY <1>7, <1>8 DEF StoreIsWhole

LEMMA HoldsWords ==
    ASSUME MemoryIInv
    PROVE  WordsAreKept
<1>1. /\ \A a \in accepted : a.text \in graph.nodes[a.id].text
      /\ WordsIn(graph) \intersect refused = {}
  BY DEF MemoryIInv, GraphIsKept
<1>2. \A n \in DOMAIN graph.nodes : graph.nodes[n].text \subseteq WordsIn(graph)
  BY DEF WordsIn
<1>3. QED
  BY <1>1, <1>2 DEF WordsAreKept

LEMMA HistoryOfTable ==
    ASSUME NEW g, NEW table, NEW entity, Told(table, entity, g.events),
           \A e \in g.events : e = Event(e.entity, e.id, e.revision), NEW n \in DOMAIN table
    PROVE  HistoryOf(g, entity, n) = 1..table[n].revision
<1>1. ASSUME NEW r PROVE r \in HistoryOf(g, entity, n) <=> Event(entity, n, r) \in g.events
  <2>1. ASSUME Event(entity, n, r) \in g.events PROVE r \in HistoryOf(g, entity, n)
    <3>1. LET e == Event(entity, n, r) IN e.entity = entity /\ e.id = n /\ e.revision = r
      BY DEF Event
    <3> QED
      BY <2>1, <3>1 DEF HistoryOf
  <2>2. ASSUME r \in HistoryOf(g, entity, n) PROVE Event(entity, n, r) \in g.events
    <3>1. PICK e \in g.events : e.entity = entity /\ e.id = n /\ e.revision = r
      BY <2>2 DEF HistoryOf
    <3>2. QED
      BY <3>1
  <2>3. QED
    BY <2>1, <2>2
<1>2. \A r : Event(entity, n, r) \in g.events <=> r \in 1..table[n].revision
  BY DEF Told
<1>3. QED
  BY <1>1, <1>2

LEMMA HoldsHistory ==
    ASSUME MemoryIInv
    PROVE  HistoryIsWhole
<1>1. Recorded(graph)
  BY DEF MemoryIInv, GraphIsKept, GraphHolds
<1>2. /\ \A e \in graph.events : e = Event(e.entity, e.id, e.revision)
      /\ Told(graph.nodes, "node", graph.events)
      /\ Told(graph.edges, "edge", graph.events)
      /\ Told(graph.tasks, "task", graph.events)
  BY <1>1 DEF Recorded
<1>3. \A n \in DOMAIN graph.nodes : HistoryOf(graph, "node", n) = 1..graph.nodes[n].revision
  BY <1>2, HistoryOfTable
<1>4. \A n \in DOMAIN graph.edges : HistoryOf(graph, "edge", n) = 1..graph.edges[n].revision
  BY <1>2, HistoryOfTable
<1>5. \A n \in DOMAIN graph.tasks : HistoryOf(graph, "task", n) = 1..graph.tasks[n].revision
  BY <1>2, HistoryOfTable
<1>6. ASSUME NEW entity, NEW id, NEW revision, Exists(graph, entity, id, revision)
      PROVE  revision \in HistoryOf(graph, entity, id)
  BY <1>3, <1>4, <1>6 DEF Exists, HasNode, HasEdge
<1>7. \A a \in graph.anchors : /\ a.at \in HistoryOf(graph, a.entity, a.id)
                               /\ a.pin.revision \in HistoryOf(graph, a.pin.entity, a.pin.id)
  BY <1>1, <1>6 DEF Recorded
<1>8. QED
  BY <1>3, <1>4, <1>5, <1>7 DEF HistoryIsWhole

LEMMA HoldsSupports ==
    ASSUME MemoryIInv
    PROVE  SupportsAreGrounded
<1> SUFFICES ASSUME NEW M \in SUBSET DOMAIN graph.nodes, M # {}
             PROVE  \E n \in M : PinnedCurrent(graph, n) \intersect M \subseteq {n}
  BY DEF SupportsAreGrounded
<1>1. PICK top \in Nat : \E rank \in [DOMAIN graph.nodes -> 0..top] :
        \A n \in DOMAIN graph.nodes : \A m \in PinnedCurrent(graph, n) :
            m # n => rank[m] < rank[n]
  BY DEF MemoryIInv, GraphIsKept, GraphHolds, Ranked
<1>2. PICK rank \in [DOMAIN graph.nodes -> 0..top] :
        \A n \in DOMAIN graph.nodes : \A m \in PinnedCurrent(graph, n) :
            m # n => rank[m] < rank[n]
  BY <1>1
<1> DEFINE ranks == {rank[m] : m \in M}
<1>3. ranks \in SUBSET Nat /\ ranks # {}
  BY <1>2
<1>4. PICK k \in ranks : \A j \in ranks : k <= j
  <2> HIDE DEF ranks
  <2>1. QED
    BY <1>3, LeastExists
<1>5. PICK n \in M : rank[n] = k
  BY <1>4
<1>6. ASSUME NEW m \in PinnedCurrent(graph, n), m \in M, m # n PROVE FALSE
  <2>1. rank[m] < rank[n] /\ rank[m] \in Nat /\ rank[n] \in Nat
    BY <1>2, <1>6
  <2>2. rank[n] <= rank[m]
    BY <1>4, <1>5, <1>6
  <2>3. QED
    BY <2>1, <2>2
<1>7. QED
  BY <1>6

LEMMA HoldsRecall ==
    ASSUME MemoryIInv
    PROVE  RecallIsExact
<1>1. SUFFICES ASSUME NEW s \in Sessions
               PROVE  /\ \A id \in DOMAIN session[s].told :
                            /\ IsInjective(session[s].told[id])
                            /\ IsPrefixOf(session[s].told[id], selected[id])
                            /\ id \in session[s].whole =>
                                  session[s].told[id] = selected[id]
                      /\ \A f \in session[s].open :
                            f.after = Len(session[s].told[f.snapshot])
  BY DEF RecallIsExact
<1>2. ToldExactly(session[s], selected)
  BY OfSession DEF SessionHolds
<1>3. ASSUME NEW id \in DOMAIN session[s].told
      PROVE  /\ IsInjective(session[s].told[id])
             /\ IsPrefixOf(session[s].told[id], selected[id])
             /\ id \in session[s].whole => session[s].told[id] = selected[id]
  <2> DEFINE p == session[s].told[id]
             q == selected[id]
             n == Len(p)
  <2>1. /\ id \in 1..Len(selected) /\ n \in 0..Len(q) /\ p = SubSeq(q, 1, n)
        /\ id \in session[s].whole => p = q
    BY <1>2 DEF ToldExactly
  <2>2. q \in Seq(Nat) /\ \A j, k \in 1..Len(q) : q[j] = q[k] => j = k
    BY <2>1 DEF MemoryIInv, SelectionsHold, Once
  <2> HIDE DEF p, q
  <2>3. IsPrefixOf(p, q)
    BY <2>1, <2>2 DEF IsPrefixOf
  <2>4. DOMAIN p = 1..n /\ \A k \in 1..n : k \in 1..Len(q) /\ p[k] = q[k]
    <3> HIDE DEF n
    <3>1. QED
      BY <2>1, <2>2
  <2>5. IsInjective(p)
    BY <2>2, <2>4 DEF IsInjective
  <2>6. QED
    BY <2>1, <2>3, <2>5 DEF p, q
<1>4. QED
  BY <1>2, <1>3 DEF ToldExactly

(* The store is whole: its tables fit one another, and the text index      *)
(* holds the present text of every current memory.                         *)
THEOREM StoreStaysWhole == MemorySpec => []StoreIsWhole
<1>1. MemoryIInv => StoreIsWhole
  BY HoldsWhole
<1>2. QED
  BY <1>1, MemoryHolds, PTL

(* No word that was accepted is ever lost, and none that was rejected is   *)
(* written, in whatever order the deltas of the sessions are applied.      *)
THEOREM WordsStay == MemorySpec => []WordsAreKept
<1>1. MemoryIInv => WordsAreKept
  BY HoldsWords
<1>2. QED
  BY <1>1, MemoryHolds, PTL

(* Every revision has its event, and every anchor a revision that was there.*)
THEOREM HistoryStaysWhole == MemorySpec => []HistoryIsWhole
<1>1. MemoryIInv => HistoryIsWhole
  BY HoldsHistory
<1>2. QED
  BY <1>1, MemoryHolds, PTL

(* No memories hold up each other.                                         *)
THEOREM SupportsStayGrounded == MemorySpec => []SupportsAreGrounded
<1>1. MemoryIInv => SupportsAreGrounded
  BY HoldsSupports
<1>2. QED
  BY <1>1, MemoryHolds, PTL

(* What a recall tells is its selection, in order, once, and complete when *)
(* it is said to be.                                                       *)
THEOREM RecallStaysExact == MemorySpec => []RecallIsExact
<1>1. MemoryIInv => RecallIsExact
  BY HoldsRecall
<1>2. QED
  BY <1>1, MemoryHolds, PTL

(* Only a binding comes to the place where a task was just bound.          *)
LEMMA OnlyBindOperates ==
    ASSUME MemoryIInv, NEW s \in Sessions, SessionStep(s), session'[s].pc = "operate"
    PROVE  Bind(s)
<1> DEFINE u == session[s]
<1>1. Shaped(u) /\ session = [r \in Sessions |-> session[r]]
  BY OfSession DEF SessionHolds, MemoryIInv, SessionsHold
<1>2. ASSUME NEW t, Step(s, t) PROVE t.pc = "operate"
  BY <1>1, <1>2 DEF Step
<1>3. ~Step(s, [u EXCEPT !.pc = "version"]) /\ ~Step(s, [u EXCEPT !.pc = "run"])
  <2>1. [u EXCEPT !.pc = "version"].pc = "version" /\ [u EXCEPT !.pc = "run"].pc = "run"
    BY <1>1 DEF Shaped
  <2>2. QED
    BY <1>2, <2>1
<1>4. ~MakeTables(s) /\ ~WriteVersion(s) /\ ~Start(s)
  BY <1>3 DEF MakeTables, WriteVersion, Start
<1>5. ~Look(s)
  <2> DEFINE seen == Projected(s)
             refs == DOMAIN Projected(s).tasks \union DOMAIN u.overview
             t == [u EXCEPT !.pc = "think", !.seen = seen, !.refs = refs]
  <2> HIDE DEF seen, refs
  <2>1. t.pc = "think"
    BY <1>1 DEF Shaped
  <2>2. Look(s) => Step(s, t)
    BY DEF Look, seen, refs
  <2> HIDE DEF t
  <2>3. QED
    BY <2>1, <2>2, <1>2
<1>6. ASSUME NEW pc, pc # "operate"
      PROVE  Moved(s, pc).pc # "operate" /\ Shaped(Moved(s, pc)) /\ ~Step(s, Moved(s, pc))
  <2>1. Shaped(Moved(s, pc)) /\ Moved(s, pc).pc = pc
    BY <1>1, MovedIs
  <2>2. QED
    BY <2>1, <1>2, <1>6
<1>7. ~Operate(s) /\ ~Suspend(s)
  <2>1. ASSUME Suspend(s) PROVE FALSE
    <3> DEFINE m == Moved(s, "run")
               t == [m EXCEPT !.pc = "wait"]
    <3>1. Step(s, t)
      BY <2>1 DEF Suspend
    <3>2. Shaped(m)
      BY <1>6
    <3> HIDE DEF m
    <3>3. t.pc = "wait"
      BY <3>2 DEF Shaped
    <3> HIDE DEF t
    <3>4. QED
      BY <3>1, <3>3, <1>2
  <2>2. ~Operate(s)
    BY <1>6 DEF Operate
  <2>3. QED
    BY <2>1, <2>2
<1>8. ~Prepare(s)
  <2>1. ASSUME Prepare(s) PROVE FALSE
    <3>1. PICK delta, refs :
             \/ Step(s, [Moved(s, "apply") EXCEPT !.delta = delta, !.refs = refs])
             \/ Step(s, [Moved(s, "bind") EXCEPT !.refs = refs])
      BY <2>1 DEF Prepare
    <3> DEFINE m == Moved(s, "apply")
               n == Moved(s, "bind")
               t == [m EXCEPT !.delta = delta, !.refs = refs]
               v == [n EXCEPT !.refs = refs]
    <3>2. Shaped(m) /\ m.pc = "apply" /\ Shaped(n) /\ n.pc = "bind"
      BY <1>1, MovedIs
    <3>3. Step(s, t) \/ Step(s, v)
      BY <3>1
    <3> HIDE DEF m, n
    <3>4. t.pc = "apply" /\ v.pc = "bind"
      BY <3>2 DEF Shaped
    <3> HIDE DEF t, v
    <3>5. QED
      BY <3>3, <3>4, <1>2
  <2>2. QED
    BY <2>1
<1>9. ~Apply(s)
  <2> DEFINE t == [u EXCEPT !.pc = "bind", !.delta = NoDelta]
  <2>1. t.pc = "bind"
    BY <1>1 DEF Shaped
  <2>2. Apply(s) => Step(s, t)
    BY DEF Apply
  <2> HIDE DEF t
  <2>3. QED
    BY <2>1, <2>2, <1>2
<1>10. ~Locked(s) /\ ~Conclude(s)
  <2> DEFINE t == [NewSession EXCEPT !.pc = "done"]
  <2>1. t.pc = "done"
    BY DEF NewSession
  <2>2. (Locked(s) => Step(s, t)) /\ (Conclude(s) => Step(s, t))
    BY DEF Locked, Conclude
  <2> HIDE DEF t
  <2>3. QED
    BY <2>1, <2>2, <1>2
<1>11. ~Overview(s) /\ ~Effect(s) /\ ~Activate(s)
  <2> DEFINE m == Moved(s, "run")
             n == Moved(s, "page")
             dir == TaskDirectory
             id == Len(selected) + 1
             t == [m EXCEPT !.overview = dir]
             v == [m EXCEPT !.epoch = m.epoch + 1]
             w == [n EXCEPT !.recall = id]
  <2>1. Shaped(m) /\ m.pc = "run" /\ Shaped(n) /\ n.pc = "page"
    BY <1>1, MovedIs
  <2>2. (Overview(s) => Step(s, t)) /\ (Effect(s) => Step(s, v))
        /\ (Activate(s) => Step(s, w))
    BY DEF Overview, Effect, Activate
  <2> HIDE DEF m, n, dir, id
  <2>3. t.pc = "run" /\ v.pc = "run" /\ w.pc = "page"
    BY <2>1 DEF Shaped
  <2> HIDE DEF t, v, w
  <2>4. QED
    BY <2>2, <2>3, <1>2
<1>12. ASSUME NEW id, NEW after, NEW view, NEW open
       PROVE  ~Step(s, TellPage(s, id, after, view, open))
  <2> DEFINE t == TellPage(s, id, after, view, open)
             page == PageAfter(snapshots[id].items, after)
             more == Remaining(snapshots[id].items, after) > 0
             both == ToldBefore(s, id) \o page
             f == Frontier(id, after + Len(page), session[s].epoch)
  <2>1. PageTold(u, t, id, both, more, f, open)
    BY <1>1, TellPageIs
  <2> HIDE DEF t, both, more, f
  <2>2. t.pc \in {"run", "free"}
    BY <2>1 DEF PageTold
  <2>3. QED
    BY <2>2, <1>2 DEF t
<1>13. ~FirstPage(s) /\ ~Release(s)
  <2> DEFINE t == [u EXCEPT !.pc = "run", !.recall = 0]
  <2>1. t.pc = "run"
    BY <1>1 DEF Shaped
  <2>2. /\ FirstPage(s) => Step(s, t) \/ Step(s, TellPage(s, u.recall, 0, {}, u.open))
        /\ Release(s) => Step(s, t)
    BY DEF FirstPage, Release
  <2> HIDE DEF t
  <2>3. QED
    BY <2>1, <2>2, <1>2, <1>12
<1>14. ~Continue(s)
  <2>1. ASSUME Continue(s) PROVE FALSE
    <3>1. PICK id, after, view, left : \/ Step(s, TellPage(s, id, after, view, left))
                                       \/ Step(s, [Moved(s, "run") EXCEPT !.open = left])
      BY <2>1 DEF Continue
    <3> DEFINE m == Moved(s, "run")
               t == [m EXCEPT !.open = left]
    <3>2. Shaped(m) /\ m.pc = "run"
      BY <1>1, MovedIs
    <3>3. Step(s, TellPage(s, id, after, view, left)) \/ Step(s, t)
      BY <3>1
    <3> HIDE DEF m
    <3>4. t.pc = "run"
      BY <3>2 DEF Shaped
    <3> HIDE DEF t
    <3>5. QED
      BY <3>3, <3>4, <1>2, <1>12
  <2>2. QED
    BY <2>1
<1>15. ~Resume(s)
  <2>1. Resume(s) => pending[s].pc = "run" /\ Step(s, pending[s])
    BY OfSession DEF Resume, At
  <2>2. QED
    BY <2>1, <1>2
<1>16. ~Kill(s)
  <2>1. ASSUME Kill(s) PROVE FALSE
    <3> DEFINE p == pending[s]
               t == [p EXCEPT !.pc = "wait"]
    <3>1. Step(s, IF p = NoPending THEN NewSession ELSE t)
      BY <2>1 DEF Kill
    <3>2. p # NoPending => Shaped(p)
      BY OfSession DEF SessionHolds
    <3> HIDE DEF p
    <3>3. p # NoPending => t.pc = "wait"
      BY <3>2 DEF Shaped
    <3> HIDE DEF t
    <3>4. NewSession.pc = "off"
      BY DEF NewSession
    <3>5. QED
      BY <3>1, <3>3, <3>4, <1>2
  <2>2. QED
    BY <2>1
<1>17. QED
  BY <1>4, <1>5, <1>7, <1>8, <1>9, <1>10, <1>11, <1>13, <1>14, <1>15, <1>16 DEF SessionStep

LEMMA StepBindsCurrent ==
    ASSUME MemoryIInv, [MemoryNext]_vars, NEW s \in Sessions,
           session'[s].pc = "operate", session'[s].task \notin {0, session[s].task}
    PROVE  IsCurrent(graph, session'[s].task)
<1>1. session = [r \in Sessions |-> session[r]] /\ Linked(graph)
  BY DEF MemoryIInv, SessionsHold, GraphIsKept, GraphHolds
<1>2. session' # session
  OBVIOUS
<1>3. PICK r \in Sessions : SessionStep(r)
  BY <1>2 DEF MemoryNext, CollectList, CollectDelete, vars
<1>4. PICK t : session' = [session EXCEPT ![r] = t]
  <2>1. MakeTables(r) \/ WriteVersion(r) \/ Start(r) => \E t : Step(r, t)
    BY DEF MakeTables, WriteVersion, Start
  <2>2. Look(r) \/ Apply(r) \/ Locked(r) => \E t : Step(r, t)
    BY DEF Look, Apply, Locked
  <2>3. Prepare(r) => \E t : Step(r, t)
    BY DEF Prepare
  <2>4. Bind(r) \/ Overview(r) \/ Activate(r) => \E t : Step(r, t)
    BY DEF Bind, Overview, Activate
  <2>5. FirstPage(r) => \E t : Step(r, t)
    BY DEF FirstPage
  <2>6. Continue(r) => \E t : Step(r, t)
    BY DEF Continue
  <2>7. Release(r) \/ Operate(r) \/ Effect(r) => \E t : Step(r, t)
    BY DEF Release, Operate, Effect
  <2>8. Conclude(r) \/ Suspend(r) => \E t : Step(r, t)
    BY DEF Conclude, Suspend
  <2>9. Resume(r) \/ Kill(r) => \E t : Step(r, t)
    BY DEF Resume, Kill
  <2>10. \E t : Step(r, t)
    BY <1>3, <2>1, <2>2, <2>3, <2>4, <2>5, <2>6, <2>7, <2>8, <2>9 DEF SessionStep
  <2>11. QED
    BY <2>10 DEF Step
<1>5. r = s
  BY <1>1, <1>4
<1>6. Bind(s)
  BY <1>3, <1>5, OnlyBindOperates
<1> DEFINE m == Moved(s, "operate")
<1>7. PICK n : /\ n = 0 \/ BindAccepts(n)
               /\ session' = [session EXCEPT ![s] = [m EXCEPT !.task = n]]
  BY <1>6 DEF Bind, Step
<1>8. Shaped(m)
  BY OfSession, MovedIs DEF SessionHolds
<1> HIDE DEF m
<1>9. session'[s].task = n
  <2> DEFINE v == [m EXCEPT !.task = n]
  <2>1. v.task = n
    BY <1>8 DEF Shaped
  <2> HIDE DEF v
  <2>2. session' = [session EXCEPT ![s] = v]
    BY <1>7 DEF v
  <2>3. QED
    BY <2>1, <2>2, <1>1
<1>10. HasTask(graph, n) /\ graph.tasks[n].state \in OpenStates
  BY <1>7, <1>9 DEF BindAccepts
<1>11. n \in DOMAIN graph.nodes /\ graph.nodes[n].status = "current"
  BY <1>1, <1>10 DEF Linked, HasTask
<1>12. QED
  BY <1>9, <1>11 DEF IsCurrent, HasNode

(* A task that a session binds is a current node at that moment.           *)
THEOREM BindingsAreCurrent == MemorySpec => BindsCurrentTasks
<1>1. MemoryIInv /\ [MemoryNext]_vars =>
        [\A s \in Sessions :
            session'[s].pc = "operate" /\ session'[s].task \notin {0, session[s].task}
            => IsCurrent(graph, session'[s].task)]_vars
  BY StepBindsCurrent
<1>2. QED
  BY <1>1, MemoryHolds, PTL DEF MemorySpec, BindsCurrentTasks

===============================================================================
