------------------------------ MODULE Observation ------------------------------
(***************************************************************************)
(* The Main model looks at files that other hands write.  What it asks for *)
(* again is not read again when the ledger holds it and the files are as   *)
(* they were; what did not fit in one page stays reachable.  An operation  *)
(* is a sequence of steps of one thread: the lookup, the proofs of         *)
(* freshness, the state of the tree before, the reads of the tool, the     *)
(* state of the tree after.  Between any two of them the files may change, *)
(* and the process may be killed and the session resumed from its last     *)
(* checkpoint.                                                             *)
(*                                                                         *)
(* The tools: read (read_file), search (search_code), find (find_symbol    *)
(* over the project), tree (list_tree), and continue (the next page of any *)
(* of them).  A page of a search, of a listing or of a set of places holds *)
(* one item.  The confirmed transaction is one step here; the module       *)
(* WorkspaceTransaction has its own.                                       *)
(***************************************************************************)
EXTENDS SourceTree, Ledger

CONSTANTS
    Requests,   \* what read may be asked for: path and range (last 0: to the end)
    MaxOps,     \* bound: operations
    MaxEffects, \* bound: confirmed transactions
    MaxKills    \* bound: kills of the process

ASSUME ObservationAssumption ==
    /\ Requests \subseteq [path : {"file", "secret"},
                           span : [first : Nat \ {0}, last : Nat]]
    /\ \A r \in Requests : r.span.last # 0 => r.span.first <= r.span.last
    /\ MaxOps \in Nat /\ MaxEffects \in Nat /\ MaxKills \in Nat

VARIABLES
    ledger, epoch,  \* the session: its ledger and its reality_epoch
    op,             \* the operation under way
    answer,         \* history: the last replay or recall, and what it may tell
    saved,          \* the checkpoint
    moments,        \* history: what the files were, at each moment of the epoch
    ops, effects, kills

sessionVars == <<ledger, epoch, saved, moments>>
countVars   == <<ops, effects, kills>>
vars == <<sourceVars, sessionVars, op, answer, countVars>>

World == [file |-> file, listing |-> listing]

(* A tool that reads the tree has a token; one that reads files also knows *)
(* how to prove a material of a file, and how to read it again.            *)
HasToken(cap)     == cap \in {"read", "search", "find", "tree"}
HasFreshness(cap) == cap \in {"read", "search", "find"}

NoOp == [cap |-> "none", request |-> NoRequest, pc |-> "idle", prev |-> {},
         left |-> {}, pre |-> NoToken, seen |-> {}, found |-> <<>>,
         page |-> {}, rest |-> {}, examined |-> Span(0, 0), result |-> "none"]

NoAnswer == [what |-> "none", cap |-> "none", request |-> NoRequest,
             materials |-> {}, seen |-> {}, current |-> FALSE]

NoSession == [ledger |-> EmptyLedger, epoch |-> 0, moments |-> {}]

ObservationInit ==
    /\ SourceInit
    /\ ledger = EmptyLedger /\ epoch = 0
    /\ op = NoOp /\ answer = NoAnswer
    /\ saved = NoSession /\ moments = {World}
    /\ ops = 0 /\ effects = 0 /\ kills = 0

-------------------------------------------------------------------------------
(* The lookup.  First the same request; then, for a read of a given range, *)
(* the ranges read before; then a path that was refused before.            *)
ReadsOf(path) ==
    {e \in ledger.entries :
        e.cap = "read" /\ e.epoch = epoch /\ e.request.path = path}

Rows(path) ==
    {[span |-> e.examined, turn |-> e.turn, entry |-> e] :
        e \in {e \in ReadsOf(path) : e.examined.last > 0}}

(* Several ranges together are one entry, fresh only if they share a token. *)
Composed(entries, request) ==
    [cap |-> "read", request |-> request, epoch |-> epoch,
     materials |-> UNION {e.materials : e \in entries},
     frontiers |-> UNION {e.frontiers : e \in entries},
     token |-> LET tokens == {e.token : e \in entries} IN
               IF Cardinality(tokens) = 1 THEN CHOOSE t \in tokens : TRUE
               ELSE NoToken,
     examined |-> request.span, revision |-> NoBody, refused |-> FALSE,
     turn |-> Max({e.turn : e \in entries})]

CoveringReadFile(request) ==
    LET chosen  == Covering(Rows(request.path), request.span)
        entries == {r.entry : r \in chosen.by}
    IN  IF request.span.last = 0 \/ ~chosen.covers THEN {}
        ELSE IF Cardinality(entries) = 1 THEN entries
        ELSE {Composed(entries, request)}

ResourceFailureByPath(request) ==
    LET refused == {e \in ReadsOf(request.path) : e.refused} IN
    {e \in refused : \A f \in refused : e.turn >= f.turn}

Previous(cap, request) ==
    LET same     == Lookup(ledger, cap, request, epoch)
        covering == CoveringReadFile(request)
    IN  IF same # {} THEN same
        ELSE IF cap # "read" THEN {}
        ELSE IF covering # {} THEN covering
        ELSE ResourceFailureByPath(request)

(* The token of a tool now: the state of the tree, if the tool reads it.   *)
TokenOf(cap) == IF HasToken(cap) THEN writes ELSE NoToken

(* An entry is good while the tree is in the state it was read in.         *)
TokenHolds(cap, entry) ==
    HasToken(cap) => entry.token # NoToken /\ entry.token = writes

(* Main asks: the lookup, and the first proof, of the token.  With nothing *)
(* to replay, the token read is the one from before the tool runs.         *)
Ask(cap, request) ==
    /\ op.pc = "idle" /\ ops < MaxOps
    /\ ops' = ops + 1
    /\ LET prev == Previous(cap, request)
           asked == [NoOp EXCEPT !.cap = cap, !.request = request, !.seen = {World}]
       IN  op' = IF prev = {}
                 THEN [asked EXCEPT !.pc = "look", !.pre = TokenOf(cap)]
                 ELSE IF \E e \in prev : ~TokenHolds(cap, e)
                 THEN [asked EXCEPT !.pc = "before"]
                 ELSE [asked EXCEPT
                         !.pc = "prove", !.prev = prev,
                         !.left = IF HasFreshness(cap)
                                  THEN UNION {e.materials : e \in prev} ELSE {}]
    /\ answer' = NoAnswer
    /\ UNCHANGED <<sourceVars, sessionVars, effects, kills>>

(* The second proof: each file read again, one after the other.            *)
Prove ==
    /\ op.pc = "prove" /\ op.left # {}
    /\ LET i == Min(op.left)
           m == ledger.materials[i]
       IN  op' = IF m.of = "file" /\ m.rev # file
                 THEN [op EXCEPT !.pc = "before", !.prev = {}, !.left = {}]
                 ELSE [op EXCEPT !.left = @ \ {i}]
    /\ UNCHANGED <<sourceVars, sessionVars, answer, countVars>>

(* already_observed: the coordinates of what is known, and no new read.    *)
Replay ==
    /\ op.pc = "prove" /\ op.left = {}
    /\ answer' = [NoAnswer EXCEPT
                    !.what = "replay", !.cap = op.cap, !.request = op.request,
                    !.materials = UNION {e.materials : e \in op.prev},
                    !.seen = op.seen]
    /\ op' = NoOp
    /\ UNCHANGED <<sourceVars, sessionVars, countVars>>

(* The replay was refused: the token before the tool runs.                 *)
Before ==
    /\ op.pc = "before"
    /\ op' = [op EXCEPT !.pc = "look", !.pre = TokenOf(op.cap)]
    /\ UNCHANGED <<sourceVars, sessionVars, answer, countVars>>

-------------------------------------------------------------------------------
(* The tools.  Each step is one read of the files.                         *)
Looks(cap, pc) == op.cap = cap /\ op.pc = pc

Steps(after) ==
    /\ op' = after
    /\ UNCHANGED <<sourceVars, sessionVars, answer, countVars>>

Material(of, from, span, rev) ==
    [cap |-> op.cap, of |-> of, from |-> {from}, span |-> span, rev |-> rev,
     epoch |-> epoch, token |-> NoToken, body |-> rev]

Snapshot(cap, items, rev) ==
    [cap |-> cap, items |-> items, rev |-> rev, epoch |-> epoch]

(* ler_faixa_projeto: the range, cut at the end of the file; out of bounds *)
(* there is nothing to show.                                               *)
LerFaixa(from, span) ==
    IF span.first > Lines[file] THEN {}
    ELSE {Material("file", from,
                   Span(span.first, Min({span.last, Lines[file]})), file)}

(* read_file: one read gives the page, the length and the revision.        *)
ReadFile ==
    /\ Looks("read", "look")
    /\ LET request == op.request.span
           end == IF request.last = 0 THEN Lines[file]
                  ELSE Min({request.last, Lines[file]})
           shown == Span(request.first, Min({request.first + PageLines - 1, end}))
           pages == PagesAfter(shown.last, end)
       IN  IF op.request.path = "secret"
           THEN Steps([op EXCEPT !.pc = "after", !.result = "refused"])
           ELSE IF request.first > Lines[file]
           THEN Steps([op EXCEPT !.pc = "after", !.result = "failed"])
           ELSE Steps([op EXCEPT
                        !.pc = "after", !.result = "ok",
                        !.page = LerFaixa("read", shown), !.examined = shown,
                        !.rest = IF pages = <<>> THEN {}
                                 ELSE {Snapshot("read", pages, file)}])

(* search_code: the matches; the first range is read after them, and the   *)
(* revision the other ranges are bound to after that.                      *)
SearchCode ==
    /\ Looks("search", "look")
    /\ LET ranges == GroupAllSearchRanges(Matched[file]) IN
       IF ranges = <<>>
       THEN Steps([op EXCEPT !.pc = "after", !.result = "ok",
                    !.page = {Material("facts", "search", Span(0, 0), file)}])
       ELSE Steps([op EXCEPT !.pc = "show", !.found = ranges])

SearchShow ==
    /\ Looks("search", "show")
    /\ Steps([op EXCEPT
                !.result = "ok", !.page = LerFaixa("search", Head(op.found)),
                !.pc = IF Len(op.found) = 1 THEN "after" ELSE "bind"])

SearchBind ==
    /\ Looks("search", "bind")
    /\ Steps([op EXCEPT !.pc = "after",
                !.rest = {Snapshot("search", Tail(op.found), file)}])

(* find_symbol over the project: the places; the text of a single one is   *)
(* read after the scan.                                                    *)
Places == [k \in 1..Cardinality(Located[file]) |->
              LET l == Ascending(Located[file])[k] IN Span(l, l)]

FindSymbol ==
    /\ Looks("find", "look")
    /\ IF Len(Places) = 1
       THEN Steps([op EXCEPT !.pc = "show", !.found = Places])
       ELSE Steps([op EXCEPT
                !.pc = "after",
                !.result = IF Places = <<>> THEN "failed" ELSE "ok",
                !.page = {Material("facts", "find", IF Places = <<>> THEN Span(0, 0)
                                                    ELSE Head(Places), file)},
                !.rest = IF Places = <<>> THEN {}
                         ELSE {Snapshot("find", Tail(Places), file)}])

FindShow ==
    /\ Looks("find", "show")
    /\ Steps([op EXCEPT !.pc = "after", !.result = "ok",
                !.page = IF LerFaixa("find", Head(op.found)) # {}
                         THEN LerFaixa("find", Head(op.found))
                         ELSE {Material("facts", "find", Head(op.found), file)}])

(* list_tree: the walk takes time; its first part is the page, its second  *)
(* part remains.                                                           *)
ListTree ==
    /\ Looks("tree", "look")
    /\ Steps([op EXCEPT !.pc = "walk", !.result = "ok",
                !.page = {Material("facts", "tree", Span(1, 1), listing)}])

ListTreeEnd ==
    /\ Looks("tree", "walk")
    /\ Steps([op EXCEPT !.pc = "after",
                !.rest = {Snapshot("tree", <<Span(2, 2)>>, listing)}])

(* continue_observation: the cursor behind the frontier.  What was listed  *)
(* or located is in the snapshot; where a range is to be read, the         *)
(* revision is compared first, and the range read after.                   *)
Frontier == op.request.span.first

CursorError ==
    IF FrontierError(ledger, Frontier, epoch) # "none"
    THEN FrontierError(ledger, Frontier, epoch)
    ELSE HandleError(ledger, ledger.frontiers[Frontier].handle, epoch)

Cursor == ledger.frontiers[Frontier].handle

Item == PageOf(Cursor, 1)[1]

ContinueFails ==
    /\ Looks("continue", "look") /\ CursorError # "none"
    /\ Steps([op EXCEPT !.pc = "after", !.result = "failed"])

Continues(cap) ==
    /\ Looks("continue", "look") /\ CursorError = "none"
    /\ Cursor.snapshot.cap = cap

Compared == IF Cursor.snapshot.rev = file THEN [op EXCEPT !.pc = "show"]
            ELSE [op EXCEPT !.pc = "after", !.result = "revised"]

Kept == [op EXCEPT !.pc = "after", !.result = "ok",
            !.page = {Material("facts", Cursor.snapshot.cap, Item,
                               Cursor.snapshot.rev)}]

ContinueReadFilePage   == Continues("read")   /\ Steps(Compared)
ContinueSearchCodePage == Continues("search") /\ Steps(Compared)
ContinueListTreePage   == Continues("tree")   /\ Steps(Kept)
ContinueFindSymbolPage == Continues("find")   /\ Steps(Kept)

ContinueShow ==
    /\ Looks("continue", "show")
    /\ Steps([op EXCEPT !.pc = "after", !.result = "ok",
                !.page = LerFaixa(Cursor.snapshot.cap, Item)])

-------------------------------------------------------------------------------
(* Mutant of TokenAfter: the state of the tree after the tool has run.     *)
TokenAfterOnly == TokenOf(op.cap)

(* The token of what was read: none if the tree changed meanwhile.         *)
TokenAfter == IF op.pre = writes THEN TokenOf(op.cap) ELSE NoToken

(* The cursors after the tool: a new one for what remains; the next one    *)
(* for the one continued, which is consumed, or stale.                     *)
WithCursors ==
    LET next == HandleAfter(Cursor, 1)
        more == op.cap = "continue" /\ op.result \in {"ok", "revised"}
                /\ ~Exhausted(Cursor, 1)
        held == IF more THEN RegisterSnapshotHandle(ledger, Cursor.snapshot, next.offset)
                ELSE ledger
    IN  CASE op.cap # "continue" /\ op.rest # {} ->
               LET s == CHOOSE s \in op.rest : TRUE
               IN  RegisterSnapshotHandle(ledger, s, 0)
          [] op.cap = "continue" /\ op.result = "ok" ->
               ConsumeFrontier(held, Frontier)
          [] op.cap = "continue" /\ op.result = "revised" ->
               StaleFrontier(IF more THEN ReleaseSnapshotHandle(held, next)
                             ELSE held, Frontier)
          [] OTHER -> ledger

Exposed ==
    CASE op.cap # "continue" -> {Handle(s, 0) : s \in op.rest}
      [] op.cap = "continue" /\ op.result = "ok" /\ ~Exhausted(Cursor, 1) ->
           {HandleAfter(Cursor, 1)}
      [] OTHER -> {}

(* project_result and record: the materials, the frontiers, the entry.     *)
Reusable == op.result \in {"ok", "refused"} \/ op.page # {}

Recorded ==
    LET page  == {[m EXCEPT !.token = TokenAfter] : m \in op.page}
        read  == RegisterMaterialCandidates(WithCursors, page)
        shown == IF Exposed = {} THEN read
                 ELSE ExposeFrontier(read, CHOOSE h \in Exposed : TRUE, epoch)
        entry == [cap |-> op.cap, request |-> op.request, epoch |-> epoch,
                  materials |-> IdsOf(shown, page),
                  frontiers |-> UNION {OpenFor(shown, h) : h \in Exposed},
                  token |-> TokenAfter, examined |-> op.examined,
                  revision |-> IF op.cap = "read" /\ op.page # {}
                               THEN (CHOOSE m \in op.page : TRUE).rev ELSE NoBody,
                  refused |-> op.result = "refused", turn |-> ops]
    IN  IF Reusable THEN RecordEntry(shown, entry) ELSE shown

Record ==
    /\ op.pc = "after"
    /\ ledger' = Recorded
    /\ op' = NoOp
    /\ UNCHANGED <<sourceVars, epoch, saved, moments, answer, countVars>>

-------------------------------------------------------------------------------
(* recall: the material, and whether it still holds.  A material of a file *)
(* is compared with the file, another with the tree; one whose tool has    *)
(* neither proof is believed as long as the epoch lasts.                   *)
(* Mutant of Proof: the token goes unread.                                 *)
ProofByFile(m) ==
    IF HasFreshness(m.cap) /\ m.of = "file"
    THEN IF m.rev = file THEN "exact_current" ELSE "stale"
    ELSE IF HasToken(m.cap) THEN "token_current"
    ELSE "no_freshness_contract"

Proof(m) ==
    IF HasFreshness(m.cap) /\ m.of = "file"
    THEN IF m.rev = file THEN "exact_current" ELSE "stale"
    ELSE IF HasToken(m.cap)
    THEN IF m.token # NoToken /\ m.token = writes THEN "token_current"
         ELSE "stale"
    ELSE "no_freshness_contract"

RecallEvidence(i) ==
    /\ op.pc = "idle" /\ ops < MaxOps /\ i \in MaterialIds(ledger)
    /\ ops' = ops + 1
    /\ LET m == ledger.materials[i] IN
       answer' = [NoAnswer EXCEPT
                    !.what = "recall", !.cap = m.cap, !.materials = {i},
                    !.seen = {World},
                    !.current = \/ Proof(m) \in {"exact_current", "token_current"}
                                \/ Proof(m) # "stale" /\ m.epoch = epoch]
    /\ UNCHANGED <<sourceVars, sessionVars, op, effects, kills>>

(* What a transaction has written, read back for the session.              *)
Written(revision) ==
    [cap |-> "write", of |-> "file", from |-> {"write"},
     span |-> Span(1, Lines[revision]), rev |-> revision,
     epoch |-> epoch + 1, token |-> NoToken, body |-> revision]

(* A transaction the user confirmed: the file, the epoch, the material.    *)
(* Mutant of ConfirmTransaction: the epoch goes on.                        *)
ConfirmInTheEpoch(revision) ==
    /\ op.pc = "idle" /\ effects < MaxEffects /\ revision # file
    /\ effects' = effects + 1
    /\ Rewrite(revision) /\ UNCHANGED edits
    /\ ledger' = RegisterMaterialCandidates(ledger,
                    {[Written(revision) EXCEPT !.epoch = epoch]})
    /\ moments' = {World'}
    /\ answer' = NoAnswer
    /\ UNCHANGED <<epoch, saved, op, ops, kills>>

ConfirmTransaction(revision) ==
    /\ op.pc = "idle" /\ effects < MaxEffects /\ revision # file
    /\ effects' = effects + 1
    /\ Rewrite(revision) /\ UNCHANGED edits
    /\ epoch' = epoch + 1 /\ moments' = {World'}
    /\ ledger' = RegisterMaterialCandidates(ledger, {Written(revision)})
    /\ answer' = NoAnswer
    /\ UNCHANGED <<saved, op, ops, kills>>

-------------------------------------------------------------------------------
(* A checkpoint between two turns; a kill at any point, and the session    *)
(* resumed from the checkpoint, its texts read again where they still are. *)
Checkpoint ==
    /\ op.pc = "idle" /\ kills < MaxKills
    /\ saved' = [ledger |-> PersistedView(ledger), epoch |-> epoch,
                  moments |-> moments]
    /\ answer' = NoAnswer
    /\ UNCHANGED <<sourceVars, ledger, epoch, moments, op, countVars>>

(* Under the bound, a checkpoint that no kill will come back to is dropped. *)
(* Mutant of Rehydrated: the text is taken as it is on the disk now.       *)
RehydratedAsIs(m) ==
    IF HasFreshness(m.cap) /\ m.of = "file" THEN [m EXCEPT !.body = file] ELSE m

Rehydrated(m) ==
    IF HasFreshness(m.cap) /\ m.of = "file" /\ m.rev = file
    THEN [m EXCEPT !.body = file] ELSE m

Resume ==
    /\ kills < MaxKills
    /\ kills' = kills + 1
    /\ ledger' = [saved.ledger EXCEPT !.materials =
                    [i \in DOMAIN @ |-> Rehydrated(@[i])]]
    /\ epoch' = saved.epoch /\ moments' = saved.moments \union {World}
    /\ op' = NoOp /\ answer' = NoAnswer
    /\ saved' = IF kills' < MaxKills THEN saved ELSE NoSession
    /\ UNCHANGED <<sourceVars, ops, effects>>

(* Another hand writes, during an operation or between two.                *)
SeenToo == op' = IF op.pc = "idle" THEN op
                 ELSE [op EXCEPT !.seen = @ \union {World'}]

OtherHand ==
    /\ \/ \E r \in Revisions : EditFile(r)
       \/ \E t \in Listings : EditElsewhere(t)
    /\ SeenToo /\ moments' = moments \union {World'}
    /\ answer' = NoAnswer
    /\ UNCHANGED <<ledger, epoch, saved, countVars>>

-------------------------------------------------------------------------------
Tool ==
    \/ ReadFile \/ SearchCode \/ SearchShow \/ SearchBind
    \/ FindSymbol \/ FindShow \/ ListTree \/ ListTreeEnd
    \/ ContinueFails \/ ContinueReadFilePage \/ ContinueSearchCodePage
    \/ ContinueListTreePage \/ ContinueFindSymbolPage \/ ContinueShow

Main ==
    \/ \E r \in Requests : Ask("read", r)
    \/ \E cap \in {"search", "find", "tree"} : Ask(cap, NoRequest)
    \/ \E i \in FrontierIds(ledger) :
          Ask("continue", [NoRequest EXCEPT !.span = Span(i, 0)])
    \/ \E i \in MaterialIds(ledger) : RecallEvidence(i)
    \/ \E r \in Revisions : ConfirmTransaction(r)

ObservationNext ==
    \/ Main \/ Prove \/ Replay \/ Before \/ Tool \/ Record
    \/ Checkpoint \/ Resume \/ OtherHand

ObservationSpec == ObservationInit /\ [][ObservationNext]_vars

-------------------------------------------------------------------------------
ObservationTypeOK ==
    /\ SourceTypeOK
    /\ epoch \in 0..MaxEffects
    /\ \A i \in MaterialIds(ledger) :
          /\ ledger.materials[i].epoch \in 0..epoch
          /\ ledger.materials[i].body \in {NoBody, ledger.materials[i].rev}
    /\ \A i \in FrontierIds(ledger) :
          ledger.frontiers[i].status \in {"open", "consumed", "stale"}
    /\ \A h \in ledger.handles : h.offset < Len(h.snapshot.items)
    /\ ops \in 0..MaxOps /\ kills \in 0..MaxKills

(* What a request is about, in a given state of the files.                 *)
Scope(cap, request, world) ==
    LET lines == 1..Lines[world.file] IN
    CASE cap = "read" ->
           {l \in lines : /\ request.path = "file" /\ l >= request.span.first
                          /\ request.span.last # 0 => l <= request.span.last}
      [] cap = "search" ->
           lines \intersect UNION {LinesOf(s) :
               s \in ToSet(GroupAllSearchRanges(Matched[world.file]))}
      [] cap = "find" -> Located[world.file]
      [] cap = "tree" -> {1, 2}
      [] OTHER -> {}

RevOf(cap, world) == IF cap = "tree" THEN world.listing ELSE world.file

(* What the session was told of it in this epoch, and what it can go on to. *)
Told(cap, world) ==
    UNION {LinesOf(m.span) : m \in {m \in ToSet(ledger.materials) :
        cap \in m.from /\ m.epoch = epoch /\ m.rev = RevOf(cap, world)}}

Ahead(cap, world) ==
    UNION {LinesOf(s) : s \in UNION {ToSet(ItemsBehind(f.handle)) :
        f \in {f \in ToSet(ledger.frontiers) :
            /\ f.status = "open" /\ f.epoch = epoch
            /\ f.handle.snapshot.cap = cap
            /\ f.handle.snapshot.rev = RevOf(cap, world)
            /\ HandleError(ledger, f.handle, epoch) = "none"}}}

(* Nothing of a request is lost: as long as the files are as they were     *)
(* when an entry was recorded, every line (place, part) the request is     *)
(* about was told or is behind an open frontier that works -- whatever was *)
(* continued, shared, consumed, gone stale or resumed in between.          *)
NothingIsLost ==
    \A e \in ledger.entries :
        (HasToken(e.cap) /\ e.epoch = epoch /\ e.token = writes) =>
            Scope(e.cap, e.request, World)
                \subseteq Told(e.cap, World) \union Ahead(e.cap, World)

(* "Already observed" is true: there was a moment since Main asked when    *)
(* every material named was what the files held, and all the request is    *)
(* about was told or lies ahead.                                           *)
ReplayIsCurrent ==
    (answer.what = "replay" /\ HasToken(answer.cap)) =>
        \E w \in answer.seen :
            /\ \A i \in answer.materials :
                  ledger.materials[i].rev = RevOf(answer.cap, w)
            /\ Scope(answer.cap, answer.request, w)
                  \subseteq Told(answer.cap, w) \union Ahead(answer.cap, w)

(* What is recalled as valid now is no invention and nothing gone by.  If  *)
(* its tool has a proof, it is what the files hold now.  If it has none (a *)
(* page gone on to, what a transaction wrote), the epoch is all there is:  *)
(* for every tool it was read for, it is what the files held at a moment   *)
(* of this epoch -- never what they held before a confirmed transaction    *)
(* only.  And its text, if at hand, is that revision's.                    *)
RecallIsHonest ==
    (answer.what = "recall" /\ answer.current) =>
        \A i \in answer.materials : LET m == ledger.materials[i] IN
            /\ HasToken(answer.cap) =>
                  \A w \in answer.seen : m.rev = RevOf(answer.cap, w)
            /\ \A cap \in m.from : \E w \in moments : m.rev = RevOf(cap, w)
            /\ m.body \in {NoBody, m.rev}

(* The coverage of a file, merged from all that was read of one revision,  *)
(* is exactly the lines told, and a file said to be covered was told to    *)
(* its last line -- in that revision.                                      *)
CoverageIsExact ==
    \A r \in Revisions :
        LET merged == MergedRanges(RangesOf(ledger, epoch, "file", r))
            told   == UNION {LinesOf(m.span) :
                         m \in {m \in ToSet(ledger.materials) :
                                "read" \in m.from /\ m.epoch = epoch /\ m.rev = r}}
        IN  /\ UNION {LinesOf(s) : s \in ToSet(merged)} \subseteq told
            /\ CompleteCoverage(merged, Lines[r]) => 1..Lines[r] \subseteq told

(* The algorithms on ranges, over all small inputs; the inputs do not      *)
(* depend on the state, and the first states are enough to check them.     *)
AtStart == ops = 0

(* The ranges of a search hold every matched line, none is longer than a   *)
(* page or without a match, and page and continuation split them: none is  *)
(* dropped or told twice, and no file fills the page while another that    *)
(* matched waits for its first range.  A read counts as covered by earlier *)
(* ones exactly when every line of it was read, and the ranges chosen hold *)
(* them all.  (_group_all_search_ranges, _diverse_search_materialization,  *)
(* _covering_read_file.)                                                   *)
RangesAreExact == AtStart => RangesHoldMatches /\ PageIsDiverse /\ CoverIsExact

(* The ledger is well formed, and nothing of a request falls out of it.    *)
LedgerIsWhole == ObservationTypeOK /\ NothingIsLost

(* What is said of lines of a file is exact, where it is computed and      *)
(* where it is told.                                                       *)
LinesAreExact == CoverageIsExact /\ RangesAreExact
===============================================================================
