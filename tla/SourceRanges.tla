----------------------------- MODULE SourceRanges ------------------------------
(***************************************************************************)
(* Ranges of lines: how a file is cut into pages, how the lines a search   *)
(* matched become ranges, which of them are shown at once, when the ranges *)
(* read so far cover a request, and what they add up to.  All pure; what    *)
(* is promised of them, over every small input, is stated at the end.      *)
(***************************************************************************)
EXTENDS Integers, SequencesExt

CONSTANTS
    PageLines,      \* _FILE_PAGE_LINES: lines of one page of a file
    SearchLines,    \* _SEARCH_RANGE_PAGE_LINES: lines of one search range
    Context,        \* lines shown on each side of a match
    SmallLine,      \* bound: lines of the inputs the properties enumerate
    SmallFiles      \* bound: files of those inputs

ASSUME RangesAssumption ==
    /\ PageLines \in Nat \ {0} /\ Context \in Nat
    /\ SearchLines \in Nat /\ SearchLines > 2 * Context
    /\ SmallLine \in Nat /\ SmallFiles \in Nat

Span(first, last) == [first |-> first, last |-> last]

LinesOf(span) == span.first..span.last

(* What a finite set holds, in the order of a relation.                    *)
Ordered(S, Precedes(_, _)) ==
    [k \in 1..Cardinality(S) |->
        CHOOSE x \in S : Cardinality({y \in S : Precedes(y, x)}) = k - 1]

(* The pages of the lines after the first page, in order.                  *)
PagesAfter(shown, end) ==
    LET count == (end - shown + PageLines - 1) \div PageLines IN
    [k \in 1..(IF end > shown THEN count ELSE 0) |->
        Span(shown + 1 + (k - 1) * PageLines,
             Min({end, shown + k * PageLines}))]

-------------------------------------------------------------------------------
(* A search: each matched line with its context; a range grows while the   *)
(* next one touches it and the two fit in one page.                        *)
Around(line) == Span(Max({1, line - Context}), line + Context)

(* Mutant of Joined: ranges that meet are joined, whatever their length.   *)
JoinedWhateverSize(ranges, line) ==
    LET last == Last(ranges) IN
    IF ranges # <<>> /\ Around(line).first <= last.last + 1
    THEN Append(Front(ranges), Span(last.first, Around(line).last))
    ELSE Append(ranges, Around(line))

Joined(ranges, line) ==
    LET last == Last(ranges)
        end  == Max({last.last, Around(line).last})
    IN  IF /\ ranges # <<>>
           /\ Around(line).first <= last.last + 1
           /\ end - last.first + 1 <= SearchLines
        THEN Append(Front(ranges), Span(last.first, end))
        ELSE Append(ranges, Around(line))

Ascending(lines) == Ordered(lines, <)

GroupAllSearchRanges(lines) ==
    LET sorted == Ascending(lines)
        grouped[n \in 0..Len(sorted)] ==
            IF n = 0 THEN <<>> ELSE Joined(grouped[n - 1], sorted[n])
    IN  grouped[Len(sorted)]

(* One range of each file in turn, until the page is full.  A file stands  *)
(* as the number of its ranges; a range as <<file, which of the file's>>.  *)
RangesFound(counts) == UNION {{<<f, d>> : d \in 1..counts[f]} : f \in DOMAIN counts}

Rounds(counts) ==
    Ordered(RangesFound(counts),
            LAMBDA a, b : a[2] < b[2] \/ (a[2] = b[2] /\ a[1] < b[1]))

ByFile(ranges) ==
    Ordered(ranges, LAMBDA a, b : a[1] < b[1] \/ (a[1] = b[1] /\ a[2] < b[2]))

InFileOrder(counts) == ByFile(RangesFound(counts))

(* Mutant of Materialized: the page is filled file by file.                *)
MaterializedByFile(counts, page) ==
    SubSeq(InFileOrder(counts), 1, Min({page, Len(InFileOrder(counts))}))

Materialized(counts, page) ==
    SubSeq(Rounds(counts), 1, Min({page, Len(Rounds(counts))}))

Remaining(counts, page) ==
    ByFile(RangesFound(counts) \ ToSet(Materialized(counts, page)))

-------------------------------------------------------------------------------
(* _covering_read_file: a cursor walks through the request; at each step   *)
(* the range that reaches furthest, and among those the newest, is chosen. *)
(* The rows are [span, turn] records.                                      *)
Furthest(rows) ==
    CHOOSE r \in rows : \A s \in rows :
        \/ r.span.last > s.span.last
        \/ r.span.last = s.span.last /\ r.turn >= s.turn

(* Mutant of Covering: the cursor steps over the line after the range.     *)
CoveringWithGap(rows, request) ==
    LET walk[cursor \in 1..request.last + 2] ==
          LET candidates == {r \in rows : cursor \in LinesOf(r.span)}
              best       == Furthest(candidates)
          IN  IF cursor > request.last THEN [covers |-> TRUE, by |-> {}]
              ELSE IF candidates = {} THEN [covers |-> FALSE, by |-> {}]
              ELSE LET rest == walk[Min({best.span.last, request.last}) + 2]
                   IN  [rest EXCEPT !.by = @ \union {best}]
    IN  walk[request.first]

Covering(rows, request) ==
    LET walk[cursor \in 1..request.last + 1] ==
          LET candidates == {r \in rows : cursor \in LinesOf(r.span)}
              best       == Furthest(candidates)
          IN  IF cursor > request.last THEN [covers |-> TRUE, by |-> {}]
              ELSE IF candidates = {} THEN [covers |-> FALSE, by |-> {}]
              ELSE LET rest == walk[Min({best.span.last, request.last}) + 1]
                   IN  [rest EXCEPT !.by = @ \union {best}]
    IN  walk[request.first]

(* mechanical_coverage_state: sorted ranges, joined when they meet.        *)
Merged(ranges, s) ==
    IF ranges = <<>> \/ s.first > Last(ranges).last + 1
    THEN Append(ranges, s)
    ELSE Append(Front(ranges),
                Span(Last(ranges).first, Max({Last(ranges).last, s.last})))

MergedRanges(spans) ==
    LET sorted == Ordered(spans, LAMBDA a, b :
                    a.first < b.first \/ (a.first = b.first /\ a.last < b.last))
        merged[n \in 0..Len(sorted)] ==
            IF n = 0 THEN <<>> ELSE Merged(merged[n - 1], sorted[n])
    IN  merged[Len(sorted)]

MaterializedLines(merged) ==
    LET lines[n \in 0..Len(merged)] ==
            IF n = 0 THEN 0
            ELSE lines[n - 1] + (merged[n].last - merged[n].first + 1)
    IN  lines[Len(merged)]

CompleteCoverage(merged, total) ==
    /\ total > 0 /\ merged # <<>>
    /\ MaterializedLines(merged) >= total
    /\ merged[1].first <= 1

-------------------------------------------------------------------------------
SmallSpans == {s \in [first : 1..SmallLine, last : 1..SmallLine] :
                  s.first <= s.last}

(* Every matched line is in a range, a range never exceeds one page of the *)
(* search, and no range is without a match: what a search has found is     *)
(* what its ranges, shown and pending, hold.                               *)
RangesHoldMatches ==
    \A lines \in SUBSET (1..SmallLine) :
        LET ranges == GroupAllSearchRanges(lines) IN
        /\ lines \subseteq UNION {LinesOf(s) : s \in ToSet(ranges)}
        /\ \A s \in ToSet(ranges) :
              /\ s.last - s.first < SearchLines
              /\ LinesOf(s) \intersect lines # {}

(* The page of a search and its continuation split the ranges found: none  *)
(* is dropped and none told twice, and no file fills the page while        *)
(* another that also matched waits for its first range.                    *)
PageIsDiverse ==
    \A counts \in [1..SmallFiles -> 0..2], page \in 1..SmallFiles + 1 :
        LET now == Materialized(counts, page) IN
        /\ ToSet(now) \union ToSet(Remaining(counts, page))
              = ToSet(InFileOrder(counts))
        /\ Len(now) + Len(Remaining(counts, page)) = Len(InFileOrder(counts))
        /\ (\E r \in ToSet(now) : r[2] > 1) =>
              \A f \in DOMAIN counts : counts[f] > 0 => <<f, 1>> \in ToSet(now)

(* A request counts as covered exactly when every one of its lines was     *)
(* read, and the ranges chosen hold them all.                              *)
CoverIsExact ==
    \A spans \in SUBSET SmallSpans, request \in SmallSpans :
        LET rows   == {[span |-> s, turn |-> s.first] : s \in spans}
            chosen == Covering(rows, request)
        IN  /\ chosen.covers <=>
                 LinesOf(request) \subseteq UNION {LinesOf(s) : s \in spans}
            /\ chosen.covers =>
                 LinesOf(request) \subseteq
                     UNION {LinesOf(r.span) : r \in chosen.by}
===============================================================================
