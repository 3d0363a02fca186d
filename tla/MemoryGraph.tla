------------------------------ MODULE MemoryGraph ------------------------------
(***************************************************************************)
(* Sessions that learn and recall (eyle/core/memory.py on the store of     *)
(* eyle/runtime/memory_graph.py).  In each turn a session is shown the     *)
(* memories it chose, its model thinks, and the answer carries a delta:    *)
(* operations written on the revisions that were shown.  What the delta    *)
(* rests on is read first, the changeset is one transaction after that,    *)
(* and a task is bound by a read after that.  A recall fixes its selection *)
(* in the store and tells it page by page.  The sessions run in processes  *)
(* of their own, may wait as a continuation or be killed; a worker that    *)
(* starts collects the selections nobody can continue.                     *)
(***************************************************************************)
EXTENDS MemoryStore

CONSTANTS
    Sessions,
    Learned,     \* what an earlier changeset may have learned
    Authored,    \* bound: the operations the first delta may hold, the second, ...
    Supported,   \* bound: what a memory may rest on, and the revision it names
    Selectors,   \* what a recall may ask for: nodes by name, or by text if none; neighbours
    PageSize,    \* the limit of a recall
    MaxRecalls,  \* bound: recalls
    MaxOverviews,  \* bound: overviews
    MaxEpoch,    \* bound: confirmed transactions of a session
    MaxWaits,    \* bound: continuations saved
    MaxFaults,   \* bound: kills, locked stores and collections
    MaxEvents    \* bound: all of these together

ASSUME GraphAssumption ==
    /\ PageSize \in Nat \ {0} /\ MaxRecalls \in Nat
    /\ MaxOverviews \in Nat /\ MaxEpoch \in Nat /\ MaxWaits \in Nat /\ MaxFaults \in Nat /\ MaxEvents \in Nat

(* What was learned before: memories of some words (0), whose identities   *)
(* are numbered from 1, and relations.                                     *)
IsLearned(o) ==
    \/ /\ o.op = "remember" /\ o.on \in Nat \ {0} /\ o.kind \in {"note", "task"}
       /\ o = WithText(Op("remember", o.on, 0, 0), o.kind, {0})
    \/ o = Op("relate", o.on, 0, o.to)

ASSUME LearnedAssumption ==
    \A l \in Learned :
        /\ Len(l) \in Nat /\ \A i \in 1 .. Len(l) : IsLearned(l[i])
        /\ LET nodes == DOMAIN ApplyGraphOperations(EmptyGraph, l).graph.nodes
           IN  nodes = 1 .. Cardinality(nodes)

VARIABLES
    store,      \* the file: absent, its tables made but no version, ready
    graph,      \* what it holds
    snapshots,  \* the selections of the recalls
    session,    \* each session
    pending,    \* the continuation of each session
    live,       \* the collection under way: what it listed
    named,      \* identities given out
    deltas, overviews, waits, faults,
    accepted,   \* history: what was written where
    refused,    \* history: the deltas that were rejected
    selected    \* history: what each recall selected

counters == <<deltas, overviews, waits, faults>>
history  == <<accepted, refused, selected>>
vars == <<store, graph, snapshots, session, pending, live, named, counters, history>>

NothingSeen == [nodes |-> <<>>, tasks |-> <<>>, edges |-> <<>>]

NoDelta == [number |-> 0, ops |-> <<>>]

(* told, whole: what the recalls of this session have told it, and which   *)
(* of them it was told are complete.                                       *)
NewSession ==
    [pc |-> "off", view |-> {}, overview |-> <<>>, seen |-> NothingSeen, refs |-> {},
     delta |-> NoDelta, recall |-> 0, open |-> {}, task |-> 0, epoch |-> 0, told |-> <<>>, whole |-> {}]

NoPending == [pc |-> "none"]

(* Sessions that chose all memories before, and wait for an answer.        *)
Waiting(g) == [NewSession EXCEPT !.pc = "run", !.view = DOMAIN g.nodes]

MemoryInit ==
    /\ \E l \in Learned, w \in {{}, Sessions} :
          LET g == ApplyGraphOperations(EmptyGraph, l).graph IN
          /\ session = [s \in Sessions |-> IF s \in w THEN [Waiting(g) EXCEPT !.pc = "wait"]
                                           ELSE NewSession]
          /\ pending = [s \in Sessions |-> IF s \in w THEN Waiting(g) ELSE NoPending]
          /\ l = <<>> => w = {}
          /\ store \in IF l = <<>> THEN {"absent"} ELSE {"ready"}
          /\ graph = g
          /\ named = Cardinality(DOMAIN g.nodes)
          /\ accepted = {[id |-> n, text |-> 0] : n \in DOMAIN g.nodes}
    /\ snapshots = <<>> /\ live = {}
    /\ deltas = 0 /\ overviews = 0 /\ waits = 0 /\ faults = 0
    /\ refused = {} /\ selected = <<>>

At(s, pc) == session[s].pc = pc
Step(s, next) == session' = [session EXCEPT ![s] = next]

MoreEvents ==
    deltas + overviews + waits + faults + Len(selected) + Max({session[s].epoch : s \in Sessions}) < MaxEvents

(* What the model was shown is of use until it has answered.               *)
Moved(s, pc) == [session[s] EXCEPT !.pc = pc, !.seen = NothingSeen, !.refs = {}]

-------------------------------------------------------------------------------
(* The store is made by the first process that looks for it: the tables    *)
(* are there before the version is.  Who looks in between is refused.      *)
MakeTables(s) ==
    /\ At(s, "off") /\ store = "absent"
    /\ store' = "bare"
    /\ Step(s, [session[s] EXCEPT !.pc = "version"])
    /\ UNCHANGED <<graph, snapshots, pending, live, named, counters, history>>

WriteVersion(s) ==
    /\ At(s, "version")
    /\ store' = "ready"
    /\ Step(s, [session[s] EXCEPT !.pc = "run"])
    /\ UNCHANGED <<graph, snapshots, pending, live, named, counters, history>>

Start(s) ==
    /\ At(s, "off") /\ store = "ready"
    /\ Step(s, [session[s] EXCEPT !.pc = "run"])
    /\ UNCHANGED <<store, graph, snapshots, pending, live, named, counters, history>>

-------------------------------------------------------------------------------
(* The bound task is shown whether or not it was chosen.                   *)
ActiveTask(s) == {session[s].task} \ {0}

(* A turn: the chosen memories whatever their status, the relations        *)
(* between them, and the bound task, as they are now.                      *)
Projected(s) ==
    LET shown == {n \in session[s].view \union ActiveTask(s) : HasNode(graph, n)} IN
    [nodes |-> Restrict(graph.nodes, shown),
     tasks |-> Restrict(graph.tasks, shown \intersect DOMAIN graph.tasks),
     edges |-> Restrict(graph.edges,
                 {e \in DOMAIN graph.edges :
                    /\ graph.edges[e].status = "current"
                    /\ {graph.edges[e].source, graph.edges[e].target} \subseteq session[s].view})]

Look(s) ==
    /\ At(s, "run")
    /\ Step(s, [session[s] EXCEPT !.pc = "think", !.seen = Projected(s),
                                  !.refs = DOMAIN Projected(s).tasks \union
                                           DOMAIN session[s].overview])
    /\ UNCHANGED <<store, graph, snapshots, pending, live, named, counters, history>>

(* What the model may write, given what it was shown: on the revisions it  *)
(* saw, on the words it saw.  A support names a revision, or none (0).     *)
Words(s, n) == session[s].seen.nodes[n].text \union {deltas + 1}

Fresh == named + 1

Remember(kind) == WithText(Op("remember", Fresh, 0, 0), kind, {deltas + 1})

Supports(s) ==
    {{}} \union {{p} : p \in {p \in Supported :
        p.id \in DOMAIN (IF p.entity = "node" THEN session[s].seen.nodes
                         ELSE session[s].seen.edges)}}

Pairs(nodes) == {p \in (DOMAIN nodes) \X (DOMAIN nodes) : p[1] # p[2]}

(* New words on a memory, or another kind for it.                          *)
Reworded(s) ==
    LET seen == session[s].seen IN
    {WithPins(WithText(Op("revise", n, seen.nodes[n].revision, 0), "none", Words(s, n)), p) :
        n \in DOMAIN seen.nodes, p \in Supports(s)}

Recast(s) ==
    LET seen == session[s].seen IN
    {WithText(Op("revise", n, seen.nodes[n].revision, 0),
              IF seen.nodes[n].kind = "note" THEN "task" ELSE "note", {}) :
        n \in DOMAIN seen.nodes}

(* A memory put away, or replaced by another.                              *)
Archived(s) ==
    LET seen == session[s].seen IN
    {Op("archive", n, seen.nodes[n].revision, 0) : n \in DOMAIN seen.nodes}

Superseded(s) ==
    LET seen == session[s].seen IN
    {Op("supersede", p[1], seen.nodes[p[1]].revision, p[2]) : p \in Pairs(seen.nodes)}

(* The status of a task shown in the view or in the overview.              *)
TaskMoved(s) ==
    LET seen == session[s].seen IN
    {Op("task_status", n, seen.tasks[n].revision, t) : n \in DOMAIN seen.tasks, t \in States}

TaskListed(s) ==
    {Op("task_status", n, session[s].overview[n], t) :
        n \in DOMAIN session[s].overview, t \in States}

(* A relation between two memories, new, changed or put away.              *)
Related(s) ==
    {Op("relate", p[1], 0, p[2]) : p \in Pairs(session[s].seen.nodes)}

Rerelated(s) ==
    LET seen == session[s].seen IN
    {Op(o, e, seen.edges[e].revision, 0) :
        o \in {"revise_relation", "retire_relation"}, e \in DOMAIN seen.edges}

Alone(s) ==
    {Remember("note"), Remember("task")}
    \union Reworded(s) \union Recast(s) \union Archived(s) \union Superseded(s)
    \union TaskMoved(s) \union TaskListed(s) \union Related(s) \union Rerelated(s)

(* Two operations: a new memory that takes the place of one, or rests on   *)
(* one and is related to it; a task that is closed and put away.           *)
Together(s) ==
    LET seen == session[s].seen IN
    {<<Remember("note"), Op("supersede", n, seen.nodes[n].revision, Fresh)>> :
        n \in DOMAIN seen.nodes}
    \union {<<Remember("note"),
              WithPins(Op("relate", Fresh, 0, n), {Pin("node", Fresh, 0)})>> :
        n \in DOMAIN seen.nodes}
    \union {<<Op("task_status", n, seen.tasks[n].revision, t),
              Op("archive", n, seen.nodes[n].revision, 0)>> :
        n \in DOMAIN seen.tasks, t \in States}

Deltas(s) ==
    {d \in {<<o>> : o \in Alone(s)} \union Together(s) :
        \A i \in DOMAIN d : d[i].op \in Authored[deltas + 1]}

(* Before the transaction: what the delta names must be there, and a       *)
(* support without a revision is pinned to the one read now.  What the     *)
(* delta itself creates is pinned to its first revision.                   *)
RevisionRead(p) ==
    IF p.revision # 0 THEN p.revision
    ELSE IF p.entity = "edge" THEN graph.edges[p.id].revision
    ELSE IF HasNode(graph, p.id) THEN graph.nodes[p.id].revision
    ELSE 1

Prepared(d) ==
    [i \in DOMAIN d |->
        [d[i] EXCEPT !.pins = {Pin(p.entity, p.id, RevisionRead(p)) : p \in d[i].pins}]]

Nameable(n) == HasNode(graph, n) \/ n = Fresh

Prepares(d) ==
    \A i \in DOMAIN d :
        CASE d[i].op \in {"revise_relation", "retire_relation"} -> HasEdge(graph, d[i].on)
          [] d[i].op = "task_status" ->
               HasTask(graph, d[i].on) /\ graph.nodes[d[i].on].kind = "task"
          [] d[i].op \in {"supersede", "relate"} -> Nameable(d[i].on) /\ Nameable(d[i].to)
          [] OTHER -> Nameable(d[i].on)

(* What the answer may bind: a task it was shown, or one it creates.       *)
Bindable(s, d) ==
    session[s].refs \union {d[i].on : i \in {i \in DOMAIN d : d[i].op = "remember"}}

(* apply_memory_sidecar up to its transaction.                             *)
Prepare(s) ==
    /\ At(s, "think") /\ deltas < Len(Authored) /\ MoreEvents
    /\ \E d \in Deltas(s) :
          /\ deltas' = deltas + 1
          /\ named' = IF \E i \in DOMAIN d : d[i].op = "remember" THEN Fresh ELSE named
          /\ IF Prepares(d)
             THEN /\ Step(s, [Moved(s, "apply") EXCEPT
                               !.delta = [number |-> deltas', ops |-> Prepared(d)],
                               !.refs = Bindable(s, d)])
                  /\ UNCHANGED refused
             ELSE /\ Step(s, [Moved(s, "bind") EXCEPT !.refs = session[s].refs])
                  /\ refused' = refused \union {deltas'}
    /\ UNCHANGED <<store, graph, snapshots, pending, live, overviews, waits, faults, accepted, selected>>

WrittenBy(d) == UNION {d[i].text : i \in DOMAIN d}

(* The transaction of the delta: accepted and shown as such, or rejected   *)
(* with nothing changed; the turn goes on either way.                      *)
Apply(s) ==
    /\ At(s, "apply")
    /\ LET d == session[s].delta.ops
           result == ApplyGraphOperations(graph, d)
       IN  /\ graph' = result.graph
           /\ IF result.ok
              THEN /\ accepted' = accepted \union
                        {[id |-> d[i].on, text |-> t] :
                            i \in {i \in DOMAIN d : d[i].op \in {"remember", "revise"}},
                            t \in WrittenBy(d)}
                   /\ UNCHANGED refused
              ELSE /\ refused' = refused \union {session[s].delta.number}
                   /\ UNCHANGED accepted
    /\ Step(s, [session[s] EXCEPT !.pc = "bind", !.delta = NoDelta])
    /\ UNCHANGED <<store, snapshots, pending, live, named, counters, selected>>

(* The store stays locked for the ten seconds the connection waits: the    *)
(* error is not one that the sidecar takes for a rejection, and the run    *)
(* of the job ends with it.                                                *)
Locked(s) ==
    /\ At(s, "apply")
    /\ faults < MaxFaults /\ MoreEvents /\ faults' = faults + 1
    /\ Step(s, [NewSession EXCEPT !.pc = "done"])
    /\ UNCHANGED <<store, graph, snapshots, pending, live, named, deltas, overviews, waits, history>>

(* A task is bound by name: a task of the domain of tasks that is open.    *)
BindAccepts(n) ==
    /\ HasTask(graph, n)
    /\ graph.nodes[n].kind = "task" /\ graph.nodes[n].domain = "task"
    /\ graph.tasks[n].state \in OpenStates

Bind(s) ==
    /\ session[s].pc \in {"think", "bind"}
    /\ \E n \in {0} \union session[s].refs :
          /\ n # session[s].task /\ (n = 0 \/ BindAccepts(n))
          /\ Step(s, [Moved(s, "operate") EXCEPT !.task = n])
    /\ UNCHANGED <<store, graph, snapshots, pending, live, named, counters, history>>

Ready(s) == session[s].pc \in {"think", "bind", "operate"}

(* The directory of the memory: of what it lists, the current tasks.       *)
TaskDirectory ==
    [n \in {n \in DOMAIN graph.tasks : IsCurrent(graph, n)} |-> graph.tasks[n].revision]

(* memory_overview: the tasks there are and the revisions of their states, *)
(* shown in every turn from then on as they were.                          *)
Overview(s) ==
    /\ Ready(s) /\ overviews < MaxOverviews /\ MoreEvents
    /\ overviews' = overviews + 1
    /\ Step(s, [Moved(s, "run") EXCEPT !.overview = TaskDirectory])
    /\ UNCHANGED <<store, graph, snapshots, pending, live, named, deltas, waits, faults,
                   history>>

-------------------------------------------------------------------------------
(* memory_activate: the selection is one transaction, its first page is    *)
(* read by another.                                                        *)
Activate(s) ==
    /\ Ready(s) /\ Len(selected) < MaxRecalls /\ MoreEvents
    /\ \E r \in Selectors :
          LET items == RecallItems(graph, r.ids, r.ids = {}, r.neighbours)
              id    == Len(selected) + 1
          IN  /\ snapshots' = Put(snapshots, id, [items |-> items, owner |-> s])
              /\ selected' = Append(selected, items)
              /\ Step(s, [Moved(s, "page") EXCEPT !.recall = id])
    /\ UNCHANGED <<store, graph, pending, live, named, counters, accepted, refused>>

(* Mutant of PageAfter: from the cursor on.                                *)
PageFrom(items, after) ==
    SubSeq(items, Max({after, 1}), Min({after + PageSize, Len(items)}))

(* A page: what comes after the cursor, as many as the limit; what remains *)
(* is counted from the last one told.                                      *)
PageAfter(items, after) == SubSeq(items, after + 1, Min({after + PageSize, Len(items)}))

Remaining(items, after) == Len(items) - (after + Len(PageAfter(items, after)))

Frontier(id, after, epoch) == [snapshot |-> id, after |-> after, epoch |-> epoch]

TellPage(s, id, after, view, open) ==
    LET items == snapshots[id].items
        page  == PageAfter(items, after)
        before == IF id \in DOMAIN session[s].told THEN session[s].told[id] ELSE <<>>
        told  == [Moved(s, "run") EXCEPT !.told = Put(@, id, before \o page),
                                    !.view = view \union ToSet(page)]
    IN  IF Remaining(items, after) > 0
        THEN [told EXCEPT !.recall = 0,
                !.open = open \union {Frontier(id, after + Len(page), session[s].epoch)}]
        ELSE [told EXCEPT !.pc = "free", !.recall = id, !.open = open,
                !.whole = @ \union {id}]

(* The first page makes the view; a selection that is gone is an error.    *)
FirstPage(s) ==
    /\ At(s, "page")
    /\ LET id == session[s].recall IN
       IF id \in DOMAIN snapshots
       THEN Step(s, TellPage(s, id, 0, {}, session[s].open))
       ELSE Step(s, [session[s] EXCEPT !.pc = "run", !.recall = 0])
    /\ UNCHANGED <<store, graph, snapshots, pending, live, named, counters, history>>

(* memory_continue: a frontier of an earlier epoch is refused and stays; a *)
(* selection that is gone is an error and the frontier is consumed; a page *)
(* is added to the view.                                                   *)
Continue(s) ==
    /\ Ready(s)
    /\ \E f \in session[s].open :
          /\ f.epoch = session[s].epoch
          /\ LET left == session[s].open \ {f} IN
             IF f.snapshot \in DOMAIN snapshots
             THEN Step(s, TellPage(s, f.snapshot, f.after, session[s].view, left))
             ELSE Step(s, [Moved(s, "run") EXCEPT !.open = left])
    /\ UNCHANGED <<store, graph, snapshots, pending, live, named, counters, history>>

Without(ids) == Restrict(snapshots, DOMAIN snapshots \ ids)

Release(s) ==
    /\ At(s, "free")
    /\ snapshots' = Without({session[s].recall})
    /\ Step(s, [session[s] EXCEPT !.pc = "run", !.recall = 0])
    /\ UNCHANGED <<store, graph, pending, live, named, counters, history>>

(* Another operation; a confirmed transaction of it is a new epoch.        *)
Operate(s) ==
    /\ Ready(s)
    /\ Step(s, Moved(s, "run"))
    /\ UNCHANGED <<store, graph, snapshots, pending, live, named, counters, history>>

Effect(s) ==
    /\ Ready(s) /\ session[s].epoch < MaxEpoch /\ MoreEvents
    /\ Step(s, [Moved(s, "run") EXCEPT !.epoch = @ + 1])
    /\ UNCHANGED <<store, graph, snapshots, pending, live, named, counters, history>>

-------------------------------------------------------------------------------
(* A terminal session releases the selections its cursors still hold.      *)
Cursors(t) == {f.snapshot : f \in t.open}

Conclude(s) ==
    /\ Ready(s)
    /\ snapshots' = Without(Cursors(session[s]))
    /\ pending' = [pending EXCEPT ![s] = NoPending]
    /\ Step(s, [NewSession EXCEPT !.pc = "done"])
    /\ UNCHANGED <<store, graph, live, named, counters, history>>

(* A choice or a checkpoint: the session is saved and its process ends.    *)
Suspend(s) ==
    /\ Ready(s) /\ waits < MaxWaits /\ MoreEvents /\ waits' = waits + 1
    /\ LET saved == Moved(s, "run") IN
       /\ pending' = [pending EXCEPT ![s] = saved]
       /\ Step(s, [saved EXCEPT !.pc = "wait"])
    /\ UNCHANGED <<store, graph, snapshots, live, named, deltas, overviews, faults, history>>

Resume(s) ==
    /\ At(s, "wait")
    /\ Step(s, pending[s])
    /\ UNCHANGED <<store, graph, snapshots, pending, live, named, counters, history>>

(* The process is killed: the job is run again, from its continuation or   *)
(* from nothing.                                                           *)
Kill(s) ==
    /\ session[s].pc \notin {"off", "wait", "done"}
    /\ faults < MaxFaults /\ MoreEvents /\ faults' = faults + 1
    /\ Step(s, IF pending[s] = NoPending THEN NewSession
               ELSE [pending[s] EXCEPT !.pc = "wait"])
    /\ UNCHANGED <<store, graph, snapshots, pending, live, named, deltas, overviews, waits, history>>

(* gc_navegacao_memoria_orfa, in a worker that starts: the continuations   *)
(* are listed, and then the selections no one of them names are deleted.   *)
CollectList ==
    /\ live = {} /\ faults < MaxFaults /\ MoreEvents /\ faults' = faults + 1
    /\ live' = {[executions |-> {s \in Sessions : pending[s] # NoPending},
                 cursors |-> UNION {Cursors(pending[s]) :
                                s \in {s \in Sessions : pending[s] # NoPending}}]}
    /\ UNCHANGED <<store, graph, snapshots, session, pending, named, deltas, overviews, waits, history>>

CollectDelete ==
    /\ \E l \in live :
          snapshots' = Without({id \in DOMAIN snapshots :
                                  /\ id \notin l.cursors
                                  /\ snapshots[id].owner \notin l.executions})
    /\ live' = {}
    /\ UNCHANGED <<store, graph, session, pending, named, counters, history>>

-------------------------------------------------------------------------------
SessionStep(s) ==
    \/ MakeTables(s) \/ WriteVersion(s) \/ Start(s)
    \/ Look(s) \/ Prepare(s) \/ Apply(s) \/ Locked(s) \/ Bind(s)
    \/ Overview(s) \/ Activate(s) \/ FirstPage(s) \/ Continue(s) \/ Release(s)
    \/ Operate(s) \/ Effect(s)
    \/ Conclude(s) \/ Suspend(s) \/ Resume(s) \/ Kill(s)

MemoryNext == (\E s \in Sessions : SessionStep(s)) \/ CollectList \/ CollectDelete

MemorySpec == MemoryInit /\ [][MemoryNext]_vars

TaskRow == [state : OpenStates \union DoneStates, revision : Nat \ {0}]
NodeRow == [domain : {"knowledge", "task"}, kind : {"note", "task"},
            text : SUBSET (0 .. deltas), status : {"current", "archived", "superseded"},
            revision : Nat \ {0}]
EdgeRow == [source : 1 .. named, target : 1 .. named, status : {"current", "retired"},
            revision : Nat \ {0}]

(* Type correctness: every relation and every task has its nodes, a node   *)
(* is of the kind task if and only if it has a state, and an absent or     *)
(* half-made store holds nothing.                                          *)
MemoryTypeOK ==
    /\ store \in {"absent", "bare", "ready"}
    /\ \A n \in DOMAIN graph.nodes : n \in 1 .. named /\ graph.nodes[n] \in NodeRow
    /\ \A n \in DOMAIN graph.tasks : graph.tasks[n] \in TaskRow
    /\ \A e \in DOMAIN graph.edges :
          /\ graph.edges[e] \in EdgeRow
          /\ HasNode(graph, graph.edges[e].source) /\ HasNode(graph, graph.edges[e].target)
    /\ DOMAIN graph.tasks = {n \in DOMAIN graph.nodes : graph.nodes[n].kind = "task"}
    /\ store # "ready" => graph = EmptyGraph /\ DOMAIN snapshots = {}
    /\ \A s \in Sessions :
          /\ session[s].pc \in {"off", "version", "run", "think", "apply", "bind", "operate",
                                "page", "free", "wait", "done"}
          /\ session[s].epoch \in 0 .. MaxEpoch
          /\ session[s].whole \subseteq DOMAIN session[s].told
    /\ waits <= MaxWaits /\ faults <= MaxFaults

(* Nothing written is lost: the words of every accepted delta stay in the  *)
(* node they were written to, whichever sessions revise it on what they    *)
(* were shown, and no word of a rejected delta is in any node.             *)
(* (expected_revision, and the one transaction of apply_graph_operations.) *)
WordsAreKept ==
    /\ \A a \in accepted : a.text \in graph.nodes[a.id].text
    /\ \A n \in DOMAIN graph.nodes : graph.nodes[n].text \intersect refused = {}

(* The history is whole: every node, relation and task has one event for   *)
(* each of its revisions, and what a memory rests on is pinned to a        *)
(* revision that was there, though the pin is read before the transaction. *)
(* (node_history, edge_history; docs/memory-kernel.md, Revision history.)  *)
HistoryIsWhole ==
    /\ \A n \in DOMAIN graph.nodes :
          HistoryOf(graph, "node", n) = 1 .. graph.nodes[n].revision
    /\ \A e \in DOMAIN graph.edges :
          HistoryOf(graph, "edge", e) = 1 .. graph.edges[e].revision
    /\ \A n \in DOMAIN graph.tasks :
          HistoryOf(graph, "task", n) = 1 .. graph.tasks[n].revision
    /\ \A a \in graph.anchors :
          /\ a.at \in HistoryOf(graph, a.entity, a.id)
          /\ a.pin.revision \in HistoryOf(graph, a.pin.entity, a.pin.id)

(* What a memory rests on, and that on, never comes back to it, unless it  *)
(* rests on itself: of any memories there is one that rests on no other of *)
(* them.  The trust of a memory then does not depend on where its          *)
(* evaluation begins.  Two memories could hold each other only if one were *)
(* pinned to a revision still to come.  (_evaluate_node, its stack and its *)
(* cache; _source_revision_exists.)                                        *)
SupportsAreGrounded ==
    \A M \in SUBSET DOMAIN graph.nodes :
        M # {} => \E n \in M : PinnedCurrent(graph, n) \intersect M \subseteq {n}

(* The text index holds the present text of every current node, once, and  *)
(* nothing else: a recall by text neither misses a memory nor finds one    *)
(* that was archived.  (_refresh_fts_nodes.)                               *)
IndexIsCurrent ==
    graph.index = {IndexRow(graph, n) : n \in {n \in DOMAIN graph.nodes : IsCurrent(graph, n)}}

(* The store is whole: its tables fit one another, and its index them.     *)
StoreIsWhole == MemoryTypeOK /\ IndexIsCurrent

(* A task that is bound is a current node.  The binding does not look at   *)
(* the status of the node: it relies on no open task ever leaving, in any  *)
(* order of the deltas of all sessions.  (apply_task_binding.)             *)
BindsCurrentTasks ==
    [][\A s \in Sessions :
          session'[s].pc = "operate" /\ session'[s].task \notin {0, session[s].task}
          => IsCurrent(graph, session'[s].task)]_vars

IsPrefixOf(p, q) == Len(p) <= Len(q) /\ p = SubSeq(q, 1, Len(p))

(* What a recall tells is its selection, page after page, each memory once *)
(* and none skipped, whatever other sessions write meanwhile and wherever  *)
(* the session was suspended or killed; and it is told to be complete only *)
(* when all of it was, also if a collection took the selection away.       *)
(* (recall_snapshot_page, memory_continue_result, gc_orphan_...)           *)
RecallIsExact ==
    \A s \in Sessions :
        /\ \A id \in DOMAIN session[s].told :
              /\ IsInjective(session[s].told[id])
              /\ IsPrefixOf(session[s].told[id], selected[id])
              /\ id \in session[s].whole => session[s].told[id] = selected[id]
        /\ \A f \in session[s].open : f.after = Len(session[s].told[f.snapshot])

===============================================================================
