-------------------------------- MODULE Ledger ---------------------------------
(***************************************************************************)
(* The Observation ledger of a session: what was read (materials), which   *)
(* requests it answers (entries), and how to go on where a page ended: a   *)
(* frontier the Main model sees, the private handle behind it, and the     *)
(* snapshot of what remains, kept once.                                    *)
(*                                                                         *)
(* A material stands for its evidence too: one record of evidence is kept  *)
(* for each.  Its body is the revision its text was read from.  The        *)
(* identity of a snapshot or a handle is a hash of what it holds, so the   *)
(* record itself stands for it.  Events, counters of replays and what is   *)
(* only shown are left out.                                                *)
(***************************************************************************)
EXTENDS SourceRanges

NoBody  == ""      \* the text is not at hand
NoToken == 0       \* no state of the tree is known to go with this

NoRequest == [path |-> "", span |-> Span(0, 0)]

EmptyLedger ==
    [entries |-> {}, handles |-> {}, snapshots |-> {},
     frontiers |-> <<>>, materials |-> <<>>]

-------------------------------------------------------------------------------
(* Materials.  The same range of the same revision, read by the same       *)
(* capability in the same epoch, is the same material: the new record      *)
(* takes its place.  What it was read for (`from', history) stays told.    *)
SameMaterial(m, n) ==
    /\ m.cap = n.cap /\ m.of = n.of /\ m.span = n.span
    /\ m.rev = n.rev /\ m.epoch = n.epoch

MaterialIds(ledger) == DOMAIN ledger.materials

IdsOf(ledger, found) ==
    {i \in MaterialIds(ledger) :
        \E m \in found : SameMaterial(ledger.materials[i], m)}

(* The candidates of one page: at most one, since a page holds one range.  *)
RegisterMaterialCandidates(ledger, found) ==
    IF found = {} THEN ledger
    ELSE LET m   == CHOOSE m \in found : TRUE
             ids == IdsOf(ledger, found)
             old == CHOOSE i \in ids : TRUE
             from == m.from \union ledger.materials[old].from
         IN  IF ids = {}
             THEN [ledger EXCEPT !.materials = Append(@, m)]
             ELSE [ledger EXCEPT !.materials[old] = [m EXCEPT !.from = from]]

-------------------------------------------------------------------------------
(* Handles and snapshots.                                                  *)
Handle(snapshot, offset) == [snapshot |-> snapshot, offset |-> offset]

RegisterSnapshotHandle(ledger, snapshot, offset) ==
    [ledger EXCEPT !.snapshots = @ \union {snapshot},
                   !.handles = @ \union {Handle(snapshot, offset)}]

(* The handle of the page after the one a handle stands for.               *)
HandleAfter(h, page) == Handle(h.snapshot, h.offset + page)

ItemsBehind(h) == SubSeq(h.snapshot.items, h.offset + 1, Len(h.snapshot.items))

PageOf(h, page) ==
    SubSeq(h.snapshot.items, h.offset + 1,
           Min({h.offset + page, Len(h.snapshot.items)}))

Exhausted(h, page) == h.offset + page >= Len(h.snapshot.items)

(* materialize_snapshot_handle: why there is no page, if there is none.    *)
HandleError(ledger, h, epoch) ==
    IF h \notin ledger.handles THEN "HANDLE_NOT_FOUND"
    ELSE IF h.snapshot.epoch # epoch THEN "HANDLE_STALE"
    ELSE IF h.snapshot \notin ledger.snapshots THEN "SNAPSHOT_NOT_FOUND"
    ELSE "none"

(* Mutant of ReleaseSnapshotHandle: the snapshot goes with any handle.     *)
ReleaseWithSnapshot(ledger, h) ==
    [ledger EXCEPT !.handles = @ \ {h}, !.snapshots = @ \ {h.snapshot}]

(* A consumed cursor goes; the snapshot goes with the last cursor into it. *)
ReleaseSnapshotHandle(ledger, h) ==
    LET left == ledger.handles \ {h} IN
    IF h \notin ledger.handles THEN ledger
    ELSE [ledger EXCEPT
            !.handles = left,
            !.snapshots = IF \E g \in left : g.snapshot = h.snapshot
                          THEN @ ELSE @ \ {h.snapshot}]

-------------------------------------------------------------------------------
(* Frontiers, numbered in the order in which they were exposed.            *)
FrontierIds(ledger) == DOMAIN ledger.frontiers

OpenFor(ledger, h) ==
    {i \in FrontierIds(ledger) :
        /\ ledger.frontiers[i].handle = h
        /\ ledger.frontiers[i].status = "open"}

(* An open frontier on the same handle is used again.                      *)
ExposeFrontier(ledger, h, epoch) ==
    IF OpenFor(ledger, h) # {} THEN ledger
    ELSE [ledger EXCEPT !.frontiers =
            Append(@, [handle |-> h, epoch |-> epoch, status |-> "open"])]

FrontierError(ledger, i, epoch) ==
    IF i \notin FrontierIds(ledger) THEN "FRONTIER_NOT_FOUND"
    ELSE IF ledger.frontiers[i].status = "stale" THEN "FRONTIER_STALE"
    ELSE IF ledger.frontiers[i].status # "open" THEN "FRONTIER_CONSUMED"
    ELSE IF ledger.frontiers[i].epoch # epoch THEN "FRONTIER_STALE"
    ELSE "none"

ConsumeFrontier(ledger, i) ==
    ReleaseSnapshotHandle([ledger EXCEPT !.frontiers[i].status = "consumed"],
                          ledger.frontiers[i].handle)

StaleFrontier(ledger, i) ==
    ReleaseSnapshotHandle([ledger EXCEPT !.frontiers[i].status = "stale"],
                          ledger.frontiers[i].handle)

-------------------------------------------------------------------------------
(* Entries: what answers a request, by signature and epoch.                *)
SameKey(e, cap, request, epoch) ==
    e.cap = cap /\ e.request = request /\ e.epoch = epoch

Lookup(ledger, cap, request, epoch) ==
    {e \in ledger.entries : SameKey(e, cap, request, epoch)}

RecordEntry(ledger, entry) ==
    [ledger EXCEPT !.entries =
        (@ \ Lookup(ledger, entry.cap, entry.request, entry.epoch))
            \union {entry}]

-------------------------------------------------------------------------------
(* What is known of the coverage of a file, for each revision.             *)
(* Mutant of RangesOf: the ranges of all the revisions are put together.   *)
RangesOfAny(ledger, epoch, path, revision) ==
    {e.examined : e \in {e \in ledger.entries :
        /\ e.epoch = epoch /\ e.cap = "read"
        /\ e.request.path = path /\ e.examined.last > 0}}

RangesOf(ledger, epoch, path, revision) ==
    {e.examined : e \in {e \in ledger.entries :
        /\ e.epoch = epoch /\ e.cap = "read"
        /\ e.request.path = path /\ e.examined.last > 0
        /\ e.revision = revision}}

(* What a checkpoint keeps: no text, and every coordinate.                 *)
PersistedView(ledger) ==
    [ledger EXCEPT
        !.materials = [i \in DOMAIN @ |-> [@[i] EXCEPT !.body = NoBody]]]
===============================================================================
