--------------------------- MODULE ObservationProofs ----------------------------
(***************************************************************************)
(* Proofs about what a session is told again, for every content of the     *)
(* files, every line that matches or holds a symbol, every size of a page, *)
(* and every number of operations, writes, transactions and kills: what is *)
(* said to be observed already is true, what is recalled as valid was so   *)
(* in this epoch, and is so now where the tool has a proof, and nothing a  *)
(* request was about falls out of the ledger.                              *)
(*                                                                         *)
(* First what is true of ranges of lines, by themselves; then what each    *)
(* operator of the ledger keeps; then the invariant, step by step.         *)
(***************************************************************************)
EXTENDS Observation, FiniteSetTheorems, SequenceTheorems,
        WellFoundedInduction, TLAPS

SpanT == [first : Nat, last : Nat]

-------------------------------------------------------------------------------
(* Minima, and functions defined by recursion.                             *)

(* Of numbers there is a least one.                                        *)
LEMMA LeastExists ==
    ASSUME NEW S \in SUBSET Nat, S # {}
    PROVE  \E n \in S : \A m \in S : n <= m
<1> DEFINE Less == {nn \in Nat \X Nat : nn[1] < nn[2]}
<1>w. IsWellFoundedOn(Less, Nat)
  BY NatLessThanWellFounded, Zenon DEF OpToRel
<1> HIDE DEF Less
<1>2. PICK n \in S : \A m \in S : ~(<<m, n>> \in Less)
  BY <1>w, WFMin, Zenon
<1>3. \A m \in S : n <= m
  <2> TAKE m \in S
  <2>1. <<m, n>> \in Nat \X Nat /\ ~(m < n)
    BY <1>2 DEF Less
  <2>2. QED
    BY <2>1
<1>4. QED
  BY <1>3

(* f begins with base, and goes on by a step from its value at next.       *)
SolvesRecursion(f, D, Stop, base, step, next) ==
    \A c \in D : f[c] = IF c \in Stop THEN base[c] ELSE step[c][f[next[c]]]

(* A function whose value at c is a step from its value at next[c], where  *)
(* next[c] is smaller in some measure, exists: the recursions of the model *)
(* have a solution, so that CHOOSE finds one.                              *)
LEMMA RecursionHasSolution ==
    ASSUME NEW V, NEW D, NEW Stop, NEW base \in [D -> V],
           NEW step \in [D -> [V -> V]], NEW next,
           NEW mu \in [D -> Nat], NEW N \in Nat, \A c \in D : mu[c] < N,
           \A c \in D \ Stop : next[c] \in D /\ mu[next[c]] < mu[c]
    PROVE  \E f \in [D -> V] : SolvesRecursion(f, D, Stop, base, step, next)
<1> DEFINE Below(k) == {c \in D : mu[c] < k}
           Solves(f, k) == /\ f \in [Below(k) -> V]
                           /\ \A c \in Below(k) :
                                f[c] = IF c \in Stop THEN base[c]
                                       ELSE step[c][f[next[c]]]
           Bad == {k \in Nat : ~ \E f : Solves(f, k)}
<1>1. Bad = {}
  <2> SUFFICES ASSUME Bad # {} PROVE FALSE
    OBVIOUS
  <2>1. PICK k \in Bad : \A m \in Bad : k <= m
    <3>1. Bad \in SUBSET Nat
      OBVIOUS
    <3> HIDE DEF Bad
    <3>2. QED
      BY <3>1, LeastExists
  <2>2. k # 0
    <3>1. ASSUME k = 0 PROVE FALSE
      <4>1. Below(0) = {}
        OBVIOUS
      <4>2. Solves([c \in {} |-> base[c]], 0)
        BY <4>1
      <4>3. QED
        BY <4>2, <3>1, <2>1
    <3>2. QED
      BY <3>1
  <2>3. PICK g : Solves(g, k - 1)
    <3>1. k - 1 \in Nat /\ ~(k <= k - 1)
      BY <2>1, <2>2
    <3> HIDE DEF Solves
    <3>2. k - 1 \notin Bad
      BY <3>1, <2>1
    <3>3. QED
      BY <3>1, <3>2
  <2> DEFINE f == [c \in Below(k) |-> IF c \in Stop THEN base[c]
                                      ELSE step[c][g[next[c]]]]
  <2>4. \A c \in Below(k) \ Stop : next[c] \in Below(k - 1)
    BY <2>1
  <2>5. f \in [Below(k) -> V]
    <3> SUFFICES ASSUME NEW c \in Below(k)
                 PROVE  (IF c \in Stop THEN base[c] ELSE step[c][g[next[c]]]) \in V
      BY Zenon
    <3>1. CASE c \in Stop
      BY <3>1
    <3>2. CASE c \notin Stop
      <4>1. g[next[c]] \in V
        BY <3>2, <2>4, <2>3
      <4>2. QED
        BY <4>1, <3>2
    <3>3. QED
      BY <3>1, <3>2
  <2>6. \A c \in Below(k - 1) : c \in Below(k) /\ f[c] = g[c]
    <3> TAKE c \in Below(k - 1)
    <3>1. c \in Below(k)
      BY <2>1
    <3>2. f[c] = g[c]
      BY <3>1, <2>3, SMTT(240)
    <3>3. QED
      BY <3>1, <3>2
  <2>7. \A c \in Below(k) : f[c] = IF c \in Stop THEN base[c]
                                   ELSE step[c][f[next[c]]]
    <3> TAKE c \in Below(k)
    <3>1. CASE c \in Stop
      BY <3>1, SMTT(240)
    <3>2. CASE c \notin Stop
      <4>1. next[c] \in Below(k - 1)
        BY <2>4, <3>2
      <4>2. f[next[c]] = g[next[c]]
        BY <4>1, <2>6
      <4>3. QED
        BY <4>2, <3>2
    <3>3. QED
      BY <3>1, <3>2, ZenonT(240)
  <2>8. Solves(f, k)
    <3> HIDE DEF f
    <3>1. QED
      BY <2>5, <2>7
  <2>9. QED
    <3> HIDE DEF f, Solves
    <3>1. QED
      BY <2>8, <2>1
<1>2. PICK f : Solves(f, N)
  BY <1>1
<1>3. Below(N) = D
  OBVIOUS
<1>4. QED
  BY <1>2, <1>3 DEF SolvesRecursion

-------------------------------------------------------------------------------
(* Ranges of lines.                                                        *)

(* R orders S, strictly and totally.                                       *)
Orders(R, S) ==
    /\ \A x \in S : <<x, x>> \notin R
    /\ \A x \in S, y \in S : x = y \/ <<x, y>> \in R \/ <<y, x>> \in R
    /\ \A x \in S, y \in S, z \in S : <<x, y>> \in R /\ <<y, z>> \in R => <<x, z>> \in R

Under(S, R, x) == {y \in S : <<y, x>> \in R}

(* A sequence of all of a set, each after those before it in the order.    *)
Lists(seq, S, R) ==
    /\ Cardinality(S) \in Nat
    /\ seq \in [1..Cardinality(S) -> S] /\ Len(seq) = Cardinality(S)
    /\ \A l \in S : \E k \in 1..Cardinality(S) : seq[k] = l
    /\ \A k \in 1..Cardinality(S), j \in 1..Cardinality(S) :
          k < j => <<seq[k], seq[j]>> \in R

(* Where the k-th is one with k - 1 under it, all of a finite set are      *)
(* listed in their order.                                                  *)
LEMMA RankingLists ==
    ASSUME NEW S, IsFiniteSet(S), NEW R, Orders(R, S), NEW seq,
           seq = [k \in 1..Cardinality(S) |-> seq[k]],
           \A k \in 1..Cardinality(S), x \in S : Cardinality(Under(S, R, x)) = k - 1 =>
               seq[k] \in S /\ Cardinality(Under(S, R, seq[k])) = k - 1
    PROVE  Lists(seq, S, R)
<1> DEFINE n == Cardinality(S)
           under(l) == Under(S, R, l)
           rank == [l \in S |-> Cardinality(under(l)) + 1]
<1>1. n \in Nat
  BY FS_CardinalityType
<1>2. \A l \in S : /\ IsFiniteSet(under(l))
                   /\ Cardinality(under(l)) \in Nat
                   /\ Cardinality(under(l)) < n
  <2> TAKE l \in S
  <2>1. under(l) \in SUBSET S /\ l \notin under(l)
    BY DEF Orders, Under
  <2> DEFINE U == under(l)
  <2> HIDE DEF U
  <2>3. IsFiniteSet(U) /\ Cardinality(U) <= n /\ (Cardinality(U) = n => U = S)
    BY <2>1, FS_Subset DEF U
  <2>4. Cardinality(U) \in Nat
    BY <2>3, FS_CardinalityType
  <2>5. U # S
    BY <2>1 DEF U
  <2>6. QED
    BY <2>3, <2>4, <2>5, <1>1 DEF U
<1>3. \A l \in S, m \in S : <<l, m>> \in R => Cardinality(under(l)) < Cardinality(under(m))
  <2> TAKE l \in S, m \in S
  <2> HAVE <<l, m>> \in R
  <2> DEFINE U == under(l)
             W == under(m)
  <2>1. U \in SUBSET W /\ l \in W /\ l \notin U
    BY DEF Orders, Under
  <2>2. IsFiniteSet(W) /\ Cardinality(U) \in Nat /\ Cardinality(W) \in Nat
    BY <1>2
  <2> HIDE DEF U, W
  <2>3. Cardinality(U) <= Cardinality(W) /\ (Cardinality(W) = Cardinality(U) => W = U)
    BY <2>1, <2>2, FS_Subset
  <2>4. Cardinality(U) < Cardinality(W)
    BY <2>1, <2>2, <2>3
  <2>5. QED
    BY <2>4 DEF U, W
<1> HIDE DEF under
<1>4. rank \in [S -> 1..n]
  BY <1>1, <1>2
<1>5. \A l \in S, m \in S : rank[l] = rank[m] => l = m
  <2> TAKE l \in S, m \in S
  <2> HAVE rank[l] = rank[m]
  <2>1. Cardinality(under(l)) = Cardinality(under(m))
    BY <1>2
  <2>2. <<l, m>> \notin R /\ <<m, l>> \notin R
    BY <1>2, <1>3, <2>1
  <2>3. QED
    BY <2>2 DEF Orders
<1>6. rank \in Injection(S, 1..n)
  BY <1>4, <1>5 DEF Injection, IsInjective
<1>7. rank \in Surjection(S, 1..n)
  <2>1. IsFiniteSet(1..n) /\ Cardinality(1..n) = n
    BY <1>1, FS_Interval
  <2> HIDE DEF rank
  <2>2. QED
    BY <1>6, <2>1, FS_Injection
<1>8. \A k \in 1..n : \E l \in S : rank[l] = k
  BY <1>7, <1>4 DEF Surjection
<1>9. \A k \in 1..n : seq[k] \in S /\ rank[seq[k]] = k
  <2> TAKE k \in 1..n
  <2>1. PICK l \in S : rank[l] = k
    BY <1>8
  <2>2. Cardinality(under(l)) = k - 1
    <3>1. Cardinality(under(l)) + 1 = k /\ Cardinality(under(l)) \in Nat
      BY <2>1, <1>2
    <3> DEFINE c == Cardinality(under(l))
    <3> HIDE DEF c
    <3>2. c = k - 1
      BY <3>1 DEF c
    <3>3. QED
      BY <3>2 DEF c
  <2>3. seq[k] \in S /\ Cardinality(under(seq[k])) = k - 1
    BY <2>2 DEF under
  <2>4. QED
    BY <2>3, <1>1
<1>10. seq \in [1..n -> S]
  BY <1>9
<1>11. \A l \in S : \E k \in 1..n : seq[k] = l
  <2> TAKE l \in S
  <2>1. rank[l] \in 1..n
    BY <1>4
  <2> HIDE DEF rank
  <2>2. seq[rank[l]] = l
    BY <2>1, <1>9, <1>5
  <2>3. QED
    BY <2>1, <2>2
<1>12. \A k \in 1..n, j \in 1..n : k < j => <<seq[k], seq[j]>> \in R
  <2> TAKE k \in 1..n, j \in 1..n
  <2> HAVE k < j
  <2> DEFINE a == seq[k]
             b == seq[j]
  <2>1. a \in S /\ b \in S /\ rank[a] = k /\ rank[b] = j
    BY <1>9
  <2> HIDE DEF a, b
  <2>2. /\ Cardinality(under(a)) + 1 = k /\ Cardinality(under(b)) + 1 = j
        /\ Cardinality(under(a)) \in Nat /\ Cardinality(under(b)) \in Nat
    BY <2>1, <1>2
  <2>3. <<b, a>> \notin R
    BY <2>1, <2>2, <1>3
  <2>4. a # b
    BY <2>1
  <2>5. <<a, b>> \in R
    BY <2>1, <2>3, <2>4 DEF Orders
  <2>6. QED
    BY <2>5 DEF a, b
<1>13. Len(seq) = n
  BY <1>1, <1>10
<1>14. QED
  BY <1>1, <1>10, <1>11, <1>12, <1>13 DEF Lists

(* The lines of a finite set in order: all of them, each after the smaller. *)
LEMMA AscendingIsAll ==
    ASSUME NEW S \in SUBSET Nat, IsFiniteSet(S)
    PROVE  /\ Cardinality(S) \in Nat
           /\ Ascending(S) \in [1..Cardinality(S) -> S]
           /\ \A l \in S : \E k \in 1..Cardinality(S) : Ascending(S)[k] = l
           /\ \A k \in 1..Cardinality(S), j \in 1..Cardinality(S) :
                 k < j => Ascending(S)[k] < Ascending(S)[j]
<1> DEFINE R == {p \in S \X S : p[1] < p[2]}
           seq == Ascending(S)
<1>1. Orders(R, S)
  BY DEF Orders
<1>2. \A x \in S : {y \in S : y < x} = Under(S, R, x)
  BY DEF Under
<1>3. seq = [k \in 1..Cardinality(S) |->
                CHOOSE x \in S : Cardinality({y \in S : y < x}) = k - 1]
  BY DEF Ascending, Ordered
<1>4. \A k \in 1..Cardinality(S), x \in S : Cardinality(Under(S, R, x)) = k - 1 =>
               seq[k] \in S /\ Cardinality(Under(S, R, seq[k])) = k - 1
  <2> HIDE DEF R, seq
  <2> TAKE k \in 1..Cardinality(S), x \in S
  <2> HAVE Cardinality(Under(S, R, x)) = k - 1
  <2>1. seq[k] = CHOOSE z \in S : Cardinality({y \in S : y < z}) = k - 1
    BY <1>3
  <2>2. Cardinality({y \in S : y < x}) = k - 1
    BY <1>2
  <2>3. seq[k] \in S /\ Cardinality({y \in S : y < seq[k]}) = k - 1
    BY <2>1, <2>2
  <2>4. QED
    BY <2>3, <1>2
<1>5. seq = [k \in 1..Cardinality(S) |-> seq[k]]
  BY <1>3
<1>6. Lists(seq, S, R)
  <2> HIDE DEF R, seq
  <2>1. QED
    BY <1>1, <1>4, <1>5, RankingLists
<1>7. QED
  BY <1>6 DEF Lists

(* What the ranges found so far promise, up to the n-th of the lines.      *)
RangesHold(ranges, sorted, n) ==
    /\ ranges \in Seq(SpanT)
    /\ \A k \in 1..n : \E s \in ToSet(ranges) : sorted[k] \in LinesOf(s)
    /\ \A s \in ToSet(ranges) : /\ s.last - s.first < SearchLines
                                /\ \E k \in 1..n : sorted[k] \in LinesOf(s)
    /\ ranges # <<>> => \E k \in 1..n : Last(ranges).first <= sorted[k]

(* Joining the next line keeps the ranges as they should be.               *)
LEMMA JoinedHolds ==
    ASSUME NEW ranges \in Seq(SpanT), NEW line \in Nat
    PROVE  /\ Joined(ranges, line) \in Seq(SpanT)
           /\ \A sorted : \A n \in Nat \ {0} :
                 /\ \A k \in 1..n : sorted[k] \in Nat \ {0}
                 /\ \A k \in 1..n-1 : sorted[k] < sorted[n]
                 /\ sorted[n] = line /\ RangesHold(ranges, sorted, n - 1)
                 => RangesHold(Joined(ranges, line), sorted, n)
<1> USE RangesAssumption
<1> DEFINE old == Last(ranges)
           new == Around(line)
           end == Max({old.last, new.last})
           grown == Append(Front(ranges), Span(old.first, end))
           longer == Append(ranges, new)
           Fits == /\ ranges # <<>> /\ new.first <= old.last + 1
                   /\ end - old.first + 1 <= SearchLines
<1>1. \A x \in Int, y \in Int : Max({x, y}) = IF x >= y THEN x ELSE y
  BY DEF Max
<1>2. /\ new \in SpanT /\ new.last = line + Context
      /\ new.first = (IF 1 >= line - Context THEN 1 ELSE line - Context)
  BY <1>1 DEF Around, Span, SpanT
<1>3. Joined(ranges, line) = IF Fits THEN grown ELSE longer
  BY DEF Joined
<1>4. ASSUME ranges # <<>>
      PROVE  /\ old \in SpanT /\ Front(ranges) \in Seq(SpanT)
             /\ Len(Front(ranges)) = Len(ranges) - 1
             /\ \A i \in 1..Len(ranges) - 1 : Front(ranges)[i] = ranges[i]
             /\ end \in Nat /\ end >= old.last /\ end >= new.last
             /\ end \in {old.last, new.last}
  <2>1. Len(ranges) \in Nat /\ Len(ranges) > 0 /\ old \in SpanT
    BY <1>4 DEF Last
  <2>2. \A i \in 1..Len(ranges) - 1 : ranges[i] \in SpanT
    BY <2>1
  <2>3. /\ SubSeq(ranges, 1, Len(ranges) - 1) \in Seq(SpanT)
        /\ Len(SubSeq(ranges, 1, Len(ranges) - 1)) = Len(ranges) - 1
        /\ \A i \in 1..Len(ranges) - 1 :
              SubSeq(ranges, 1, Len(ranges) - 1)[i] = ranges[i]
    <3> DEFINE N == Len(ranges) - 1
    <3>1. N \in Int /\ N \in Nat
      BY <2>1
    <3> HIDE DEF N
    <3>2. /\ SubSeq(ranges, 1, N) \in Seq(SpanT)
          /\ Len(SubSeq(ranges, 1, N)) = IF 1 <= N THEN N - 1 + 1 ELSE 0
          /\ \A i \in 1..N - 1 + 1 : SubSeq(ranges, 1, N)[i] = ranges[1 + i - 1]
      BY <3>1, <2>2, SubSeqProperties DEF N
    <3>3. /\ SubSeq(ranges, 1, N) \in Seq(SpanT)
          /\ Len(SubSeq(ranges, 1, N)) = N
          /\ \A i \in 1..N : SubSeq(ranges, 1, N)[i] = ranges[i]
      <4>1. \A i \in 1..N : i \in 1..N - 1 + 1 /\ 1 + i - 1 = i
        BY <3>1
      <4>2. QED
        BY <3>1, <3>2, <4>1
    <3>4. QED
      BY <3>3 DEF N
  <2>4. old.last \in Nat /\ new.last \in Nat
    BY <2>1, <1>2 DEF SpanT
  <2>5. QED
    BY <2>1, <2>3, <2>4, <1>1 DEF Front
<1> HIDE DEF old, new, end
<1>5. ASSUME Fits
      PROVE  /\ grown \in Seq(SpanT) /\ Len(grown) = Len(ranges)
             /\ \A i \in 1..Len(ranges) - 1 : grown[i] = ranges[i]
             /\ grown[Len(ranges)] = Span(old.first, end)
             /\ Len(ranges) > 0 /\ Len(ranges) \in Nat
  <2>1. Span(old.first, end) \in SpanT
    BY <1>4, <1>5 DEF Span, SpanT
  <2>2. Len(ranges) > 0 /\ Len(ranges) \in Nat
    BY <1>5
  <2> DEFINE front == Front(ranges)
             s == Span(old.first, end)
  <2>3. front \in Seq(SpanT) /\ s \in SpanT /\ Len(front) = Len(ranges) - 1
    BY <2>1, <1>4, <1>5
  <2> HIDE DEF front, s
  <2>4. /\ Append(front, s) \in Seq(SpanT) /\ Len(Append(front, s)) = Len(front) + 1
        /\ \A i \in 1..Len(front) : Append(front, s)[i] = front[i]
        /\ Append(front, s)[Len(front) + 1] = s
    BY <2>3, AppendProperties
  <2>5. QED
    BY <2>4, <2>3, <2>2, <1>4, <1>5 DEF front, s
<1>6. longer \in Seq(SpanT) /\ Len(longer) = Len(ranges) + 1
      /\ (\A i \in 1..Len(ranges) : longer[i] = ranges[i])
      /\ longer[Len(ranges) + 1] = new
  BY <1>2, AppendProperties
<1>7. Joined(ranges, line) \in Seq(SpanT)
  BY <1>3, <1>5, <1>6
<1> HIDE DEF grown, longer
<1>8. ASSUME NEW sorted, NEW n \in Nat, n > 0,
             \A k \in 1..n : sorted[k] \in Nat \ {0},
             \A k \in 1..n-1 : sorted[k] < sorted[n],
             sorted[n] = line, RangesHold(ranges, sorted, n - 1)
      PROVE  RangesHold(Joined(ranges, line), sorted, n)
  <2>0. \A k \in 1..n : k # n => /\ k \in 1..n - 1
                                 /\ \E t \in ToSet(ranges) : sorted[k] \in LinesOf(t)
    BY <1>8 DEF RangesHold
  <2>1. line \in LinesOf(new) /\ new.last - new.first < SearchLines
    BY <1>2, <1>8 DEF LinesOf
  <2>2. CASE Fits
    <3> DEFINE s == Span(old.first, end)
               N == Len(ranges)
    <3>1. N \in Nat /\ N > 0 /\ grown \in Seq(SpanT) /\ Len(grown) = N
          /\ (\A i \in 1..N - 1 : grown[i] = ranges[i]) /\ grown[N] = s
      BY <1>5, <2>2
    <3>2. PICK k0 \in 1..n - 1 : old.first <= sorted[k0]
      BY <1>8, <2>2 DEF RangesHold, old
    <3>3. old \in SpanT /\ end \in Nat /\ end >= old.last /\ end >= new.last
      BY <1>4, <2>2
    <3>4. /\ line \in LinesOf(s) /\ LinesOf(old) \subseteq LinesOf(s)
          /\ s.last - s.first < SearchLines /\ s.first = old.first
      <4>1. sorted[k0] < line /\ sorted[k0] \in Nat
        BY <3>2, <1>8
      <4>2. line <= new.last
        BY <1>2
      <4>3. s.first = old.first /\ s.last = end
        BY DEF Span
      <4>4. old.first \in Nat /\ old.last \in Nat /\ old.first <= line /\ line <= end
        BY <4>1, <4>2, <3>2, <3>3, <1>2, SMTT(240) DEF SpanT
      <4>5. line \in LinesOf(s)
        BY <4>3, <4>4, <3>3 DEF LinesOf
      <4>6. LinesOf(old) \subseteq LinesOf(s)
        BY <4>3, <4>4, <3>3 DEF LinesOf
      <4>7. s.last - s.first < SearchLines
        BY <4>3, <4>4, <3>3, <2>2
      <4>8. QED
        BY <4>3, <4>5, <4>6, <4>7
    <3> HIDE DEF s, N
    <3>5. \A i \in 1..N : ranges[i] \in SpanT
      BY DEF N
    <3>6. \A i \in 1..N : \E j \in 1..N : LinesOf(ranges[i]) \subseteq LinesOf(grown[j])
      <4> TAKE i \in 1..N
      <4>1. CASE i = N
        BY <4>1, <3>1, <3>4 DEF old, Last, N
      <4>2. CASE i # N
        BY <4>2, <3>1
      <4>3. QED
        BY <4>1, <4>2
    <3>7. \A k \in 1..n : \E t \in ToSet(grown) : sorted[k] \in LinesOf(t)
      <4> TAKE k \in 1..n
      <4>1. CASE k = n
        BY <4>1, <3>4, <3>1, <1>8, SMTT(240) DEF ToSet
      <4>2. CASE k # n
        <5>1. PICK t \in ToSet(ranges) : sorted[k] \in LinesOf(t)
          BY <2>0, <4>2
        <5>2. PICK i \in 1..N : t = ranges[i]
          BY DEF ToSet, N
        <5>3. PICK j \in 1..N : LinesOf(ranges[i]) \subseteq LinesOf(grown[j])
          BY <3>6
        <5>4. j \in DOMAIN grown /\ sorted[k] \in LinesOf(grown[j])
          BY <5>1, <5>2, <5>3, <3>1
        <5>5. QED
          BY <5>4, Zenon DEF ToSet
      <4>3. QED
        BY <4>1, <4>2
    <3>8. \A t \in ToSet(grown) : /\ t.last - t.first < SearchLines
                                  /\ \E k \in 1..n : sorted[k] \in LinesOf(t)
      <4> TAKE t \in ToSet(grown)
      <4>1. PICK i \in 1..N : t = grown[i]
        BY <3>1 DEF ToSet
      <4>2. CASE i = N
        BY <4>1, <4>2, <3>1, <3>4, <1>8
      <4>3. CASE i # N
        <5>1. t = ranges[i] /\ t \in ToSet(ranges)
          BY <4>1, <4>3, <3>1 DEF ToSet, N
        <5>2. /\ t.last - t.first < SearchLines
              /\ \E k \in 1..n - 1 : sorted[k] \in LinesOf(t)
          BY <5>1, <1>8 DEF RangesHold
        <5>3. QED
          BY <5>2
      <4>4. QED
        BY <4>2, <4>3
    <3>9. \E k \in 1..n : Last(grown).first <= sorted[k]
      BY <3>1, <3>2, <3>4 DEF Last
    <3>10. QED
      BY <3>1, <3>7, <3>8, <3>9, <1>3, <2>2 DEF RangesHold
  <2>3. CASE ~Fits
    <3> DEFINE N == Len(ranges)
    <3>1. N \in Nat /\ longer \in Seq(SpanT) /\ Len(longer) = N + 1
          /\ (\A i \in 1..N : longer[i] = ranges[i]) /\ longer[N + 1] = new
      BY <1>6
    <3> HIDE DEF N
    <3>2. \A k \in 1..n : \E t \in ToSet(longer) : sorted[k] \in LinesOf(t)
      <4> TAKE k \in 1..n
      <4>1. CASE k = n
        BY <4>1, <2>1, <3>1, <1>8 DEF ToSet
      <4>2. CASE k # n
        <5>1. PICK t \in ToSet(ranges) : sorted[k] \in LinesOf(t)
          BY <2>0, <4>2
        <5>2. PICK i \in 1..N : t = ranges[i]
          BY DEF ToSet, N
        <5>3. i \in DOMAIN longer /\ longer[i] = t
          BY <3>1, <5>2
        <5>4. QED
          BY <5>1, <5>3, Zenon DEF ToSet
      <4>3. QED
        BY <4>1, <4>2
    <3>3. \A t \in ToSet(longer) : /\ t.last - t.first < SearchLines
                                   /\ \E k \in 1..n : sorted[k] \in LinesOf(t)
      <4> TAKE t \in ToSet(longer)
      <4>1. PICK i \in 1..N + 1 : t = longer[i]
        BY <3>1 DEF ToSet
      <4>2. CASE i = N + 1
        BY <4>1, <4>2, <3>1, <2>1, <1>8
      <4>3. CASE i # N + 1
        <5>1. t = ranges[i] /\ t \in ToSet(ranges)
          BY <4>1, <4>3, <3>1 DEF ToSet, N
        <5>2. /\ t.last - t.first < SearchLines
              /\ \E k \in 1..n - 1 : sorted[k] \in LinesOf(t)
          BY <5>1, <1>8 DEF RangesHold
        <5>3. QED
          BY <5>2
      <4>4. QED
        BY <4>2, <4>3
    <3>4. Last(longer).first <= sorted[n]
      BY <3>1, <2>1, <1>2, <1>8 DEF Last, LinesOf, SpanT
    <3>5. \E k \in 1..n : Last(longer).first <= sorted[k]
      BY <3>4, <1>8
    <3>6. Joined(ranges, line) = longer
      BY <1>3, <2>3
    <3> HIDE DEF Fits
    <3>7. QED
      BY <3>1, <3>2, <3>3, <3>5, <3>6 DEF RangesHold
  <2>4. QED
    BY <2>2, <2>3
<1>9. QED
  BY <1>7, <1>8

(* The ranges of a search hold every line it matched; none is longer than  *)
(* a page of it or without a match.                                        *)
THEOREM GroupedRangesHold ==
    ASSUME NEW S \in SUBSET Nat, IsFiniteSet(S)
    PROVE  /\ GroupAllSearchRanges(S) \in Seq(SpanT)
           /\ 0 \notin S =>
                RangesHold(GroupAllSearchRanges(S), Ascending(S), Cardinality(S))
<1> DEFINE sorted == Ascending(S)
           N == Len(sorted)
           V == Seq(SpanT)
           D == 0..N
           grouped == CHOOSE g : g = [n \in D |->
                IF n = 0 THEN <<>> ELSE Joined(g[n - 1], sorted[n])]
<1>1. /\ N \in Nat /\ N = Cardinality(S) /\ sorted \in [1..N -> S]
      /\ \A k \in 1..N, j \in 1..N : k < j => sorted[k] < sorted[j]
  <2>1. /\ Cardinality(S) \in Nat /\ sorted \in [1..Cardinality(S) -> S]
        /\ \A k \in 1..Cardinality(S), j \in 1..Cardinality(S) :
              k < j => sorted[k] < sorted[j]
    BY AscendingIsAll
  <2> HIDE DEF sorted
  <2>2. Len(sorted) = Cardinality(S)
    BY <2>1
  <2>3. QED
    BY <2>1, <2>2
<1>2. GroupAllSearchRanges(S) = grouped[N]
  BY DEF GroupAllSearchRanges
<1> HIDE DEF sorted, N
<1>3. PICK f \in [D -> V] : \A n \in D :
          f[n] = IF n = 0 THEN <<>> ELSE Joined(f[n - 1], sorted[n])
  <2> DEFINE base == [n \in D |-> <<>>]
             step == [n \in D |-> [v \in V |->
                         IF n = 0 THEN v ELSE Joined(v, sorted[n])]]
             next == [n \in D |-> n - 1]
             mu   == [n \in D |-> n]
  <2>1. base \in [D -> V]
    OBVIOUS
  <2>2. step \in [D -> [V -> V]]
    <3> SUFFICES ASSUME NEW n \in D, NEW v \in V
                 PROVE  (IF n = 0 THEN v ELSE Joined(v, sorted[n])) \in V
      BY Zenon
    <3>1. CASE n = 0
      BY <3>1
    <3>2. CASE n # 0
      <4>1. n \in 1..N /\ sorted[n] \in S
        BY <1>1, <3>2
      <4>2. QED
        BY <4>1, <3>2, JoinedHolds
    <3>3. QED
      BY <3>1, <3>2
  <2>3. mu \in [D -> Nat] /\ \A c \in D : mu[c] < N + 1
    BY <1>1
  <2> DEFINE Stop == {0}
             M == N + 1
  <2>4. \A c \in D \ Stop : next[c] \in D /\ mu[next[c]] < mu[c]
    BY <1>1
  <2>5. M \in Nat /\ \A c \in D : mu[c] < M
    BY <1>1, <2>3
  <2> HIDE DEF base, step, mu, next, D, V, Stop, M
  <2>6. PICK f \in [D -> V] : SolvesRecursion(f, D, Stop, base, step, next)
    BY <2>1, <2>2, <2>3, <2>4, <2>5, RecursionHasSolution
  <2> USE DEF D, V, Stop
  <2>7. \A n \in D : f[n] = IF n = 0 THEN <<>> ELSE Joined(f[n - 1], sorted[n])
    <3> TAKE n \in D
    <3>1. CASE n = 0
      BY <2>6, <3>1 DEF base, SolvesRecursion
    <3>2. CASE n # 0
      <4>1. next[n] = n - 1 /\ n - 1 \in D
        BY <3>2, <1>1 DEF next
      <4>2. f[n - 1] \in V
        BY <4>1, <2>6
      <4>3. step[n][f[n - 1]] = Joined(f[n - 1], sorted[n])
        BY <4>2, <3>2 DEF step
      <4>4. QED
        BY <4>1, <4>3, <3>2, <2>6 DEF SolvesRecursion
    <3>3. QED
      BY <3>1, <3>2
  <2>8. QED
    BY <2>6, <2>7
<1>4. /\ grouped \in [D -> V]
      /\ \A n \in D : grouped[n] = IF n = 0 THEN <<>>
                                  ELSE Joined(grouped[n - 1], sorted[n])
  <2> DEFINE Is(g) == g = [n \in D |->
                IF n = 0 THEN <<>> ELSE Joined(g[n - 1], sorted[n])]
  <2>1. Is(f)
    BY <1>3
  <2>2. grouped = CHOOSE g : Is(g)
    OBVIOUS
  <2>3. Is(grouped)
    <3> HIDE DEF Is
    <3>1. QED
      BY <2>1, <2>2
  <2> HIDE DEF grouped
  <2>4. \A n \in D : grouped[n] = IF n = 0 THEN <<>>
                                  ELSE Joined(grouped[n - 1], sorted[n])
    BY <2>3
  <2>5. \A n \in D : grouped[n] = f[n]
    <3> DEFINE Bad == {n \in D : grouped[n] # f[n]}
    <3>1. SUFFICES ASSUME Bad # {} PROVE FALSE
      OBVIOUS
    <3>2. Bad \in SUBSET Nat
      OBVIOUS
    <3>3. PICK n \in Bad : \A m \in Bad : n <= m
      <4> HIDE DEF Bad
      <4>1. QED
        BY <3>1, <3>2, LeastExists
    <3>4. n # 0
      BY <2>4, <1>3
    <3>5. n - 1 \in D /\ ~(n <= n - 1)
      BY <3>4, <1>1
    <3>6. grouped[n - 1] = f[n - 1]
      BY <3>5, <3>3
    <3>7. QED
      BY <3>6, <3>4, <2>4, <1>3
  <2>6. DOMAIN grouped = D
    BY <2>3
  <2>7. grouped = [n \in D |-> grouped[n]]
    BY <2>3
  <2>8. grouped \in [D -> V]
    BY <2>5, <2>7, <1>3
  <2>9. QED
    BY <2>4, <2>8
<1> HIDE DEF grouped
<1>5. ASSUME 0 \notin S
      PROVE  RangesHold(grouped[N], sorted, N)
  <2> DEFINE Bad == {n \in D : ~RangesHold(grouped[n], sorted, n)}
  <2>1. Bad = {}
    <3>1. SUFFICES ASSUME Bad # {} PROVE FALSE
      OBVIOUS
    <3>2. Bad \in SUBSET Nat
      OBVIOUS
    <3>3. PICK n \in Bad : \A m \in Bad : n <= m
      <4> HIDE DEF Bad
      <4>1. QED
        BY <3>1, <3>2, LeastExists
    <3>4. n # 0
      <4>1. grouped[0] = <<>>
        BY <1>4, <1>1
      <4>2. RangesHold(<<>>, sorted, 0)
        BY DEF RangesHold, ToSet
      <4>3. QED
        BY <4>1, <4>2
    <3>5. n \in D /\ n - 1 \in D /\ ~(n <= n - 1) /\ n \in Nat \ {0} /\ n \in 1..N
      BY <3>4, <1>1
    <3>6. RangesHold(grouped[n - 1], sorted, n - 1)
      BY <3>5, <3>3
    <3>7. /\ \A k \in 1..n : sorted[k] \in Nat \ {0}
          /\ \A k \in 1..n - 1 : sorted[k] < sorted[n]
      <4>1. \A k \in 1..n : k \in 1..N
        BY <3>5, <1>1
      <4>2. \A k \in 1..N : sorted[k] \in Nat /\ sorted[k] # 0
        BY <1>1, <1>5
      <4>3. \A k \in 1..n - 1 : k \in 1..N /\ k < n
        BY <3>5, <1>1
      <4>4. QED
        BY <4>1, <4>2, <4>3, <1>1, <3>5
    <3>8. grouped[n - 1] \in V /\ sorted[n] \in Nat
      BY <3>5, <1>4, <1>1
    <3>9. grouped[n] = Joined(grouped[n - 1], sorted[n])
      BY <3>4, <3>5, <1>4
    <3>10. RangesHold(grouped[n], sorted, n)
      BY <3>5, <3>6, <3>7, <3>8, <3>9, JoinedHolds
    <3>11. QED
      BY <3>10, <3>3
  <2>2. N \in D
    BY <1>1
  <2>3. QED
    BY <2>1, <2>2
<1>6. QED
  <2>1. N \in D
    BY <1>1
  <2>2. QED
    BY <2>1, <1>1, <1>2, <1>4, <1>5 DEF sorted

(* Among finitely many rows there is one that reaches furthest, and among  *)
(* those the newest.                                                       *)
LEMMA FurthestIsOne ==
    ASSUME NEW rows, IsFiniteSet(rows), rows # {},
           \A r \in rows : r.span.last \in Nat /\ r.turn \in Nat
    PROVE  Furthest(rows) \in rows
<1> DEFINE Beats(r, s) == \/ r.span.last > s.span.last
                          \/ r.span.last = s.span.last /\ r.turn >= s.turn
           HasBest(T) == \E r \in T : \A s \in T : Beats(r, s)
           Bad == {n \in Nat : \E T \in SUBSET rows :
                       T # {} /\ Cardinality(T) = n /\ ~HasBest(T)}
<1>1. Bad = {}
  <2>1. SUFFICES ASSUME Bad # {} PROVE FALSE
    OBVIOUS
  <2>2. PICK n \in Bad : \A m \in Bad : n <= m
    <3>1. Bad \in SUBSET Nat
      OBVIOUS
    <3> HIDE DEF Bad
    <3>2. QED
      BY <2>1, <3>1, LeastExists
  <2>3. PICK T \in SUBSET rows : T # {} /\ Cardinality(T) = n /\ ~HasBest(T)
    BY <2>2
  <2>4. PICK x \in T : TRUE
    BY <2>3
  <2> DEFINE R == T \ {x}
  <2>5. IsFiniteSet(T)
    BY FS_Subset
  <2>6. R \in SUBSET rows /\ T = R \union {x} /\ x \in rows
    BY <2>4
  <2>7. Cardinality(R) = n - 1
    BY <2>3, <2>4, <2>5, FS_RemoveElement
  <2> HIDE DEF R
  <2>8. n - 1 \in Nat
    <3>1. IsFiniteSet(R)
      BY <2>6, FS_Subset
    <3>2. QED
      BY <3>1, <2>7, FS_CardinalityType
  <2>9. R = {} \/ HasBest(R)
    <3>1. n - 1 \notin Bad
      <4>1. ~(n <= n - 1)
        BY <2>2
      <4> HIDE DEF Bad
      <4>2. QED
        BY <4>1, <2>2
    <3> HIDE DEF HasBest
    <3>2. QED
      BY <3>1, <2>6, <2>7, <2>8
  <2>10. CASE R = {}
    <3>1. T = {x} /\ Beats(x, x)
      BY <2>6, <2>10
    <3>2. QED
      BY <3>1, <2>3
  <2>11. CASE HasBest(R)
    <3>1. PICK r \in R : \A s \in R : Beats(r, s)
      BY <2>11
    <3>2. r \in rows /\ r \in T
      BY <2>6
    <3>3. CASE Beats(r, x)
      BY <3>1, <3>2, <3>3, <2>3, <2>6
    <3>4. CASE ~Beats(r, x)
      <4>1. Beats(x, r) /\ Beats(x, x)
        <5>1. /\ r.span.last \in Nat /\ r.turn \in Nat
              /\ x.span.last \in Nat /\ x.turn \in Nat
          BY <3>2, <2>6
        <5>2. \A i \in Nat, j \in Nat, k \in Nat, l \in Nat :
                 \/ (i > k \/ (i = k /\ j >= l))
                 \/ (k > i \/ (k = i /\ l >= j))
          OBVIOUS
        <5>3. Beats(r, x) \/ Beats(x, r)
          BY <5>1, <5>2
        <5>4. Beats(x, x)
          BY <5>1
        <5> HIDE DEF Beats
        <5>5. QED
          BY <5>3, <5>4, <3>4
      <4>2. \A s \in R : Beats(x, s)
        <5> TAKE s \in R
        <5>1. s \in rows /\ Beats(r, s)
          BY <2>6, <3>1
        <5>2. QED
          BY <5>1, <4>1, <3>2, <2>6
      <4>3. \A s \in T : Beats(x, s)
        BY <4>1, <4>2, <2>6
      <4> HIDE DEF Beats
      <4>4. QED
        BY <4>3, <2>3, <2>4
    <3>5. QED
      BY <3>3, <3>4
  <2>12. QED
    BY <2>9, <2>10, <2>11
<1>2. HasBest(rows)
  <2>1. Cardinality(rows) \in Nat /\ Cardinality(rows) \notin Bad
    <3> HIDE DEF Bad
    <3>1. QED
      BY <1>1, FS_CardinalityType
  <2> HIDE DEF HasBest
  <2>2. rows \in SUBSET rows
    OBVIOUS
  <2>3. QED
    BY <2>1, <2>2
<1>3. QED
  BY <1>2 DEF Furthest

(* A request counts as covered exactly when every line of it was read, and *)
(* the ranges chosen are among those read and hold them all.               *)
THEOREM CoveringIsExact ==
    ASSUME NEW rows, IsFiniteSet(rows),
           \A r \in rows : r.span \in SpanT /\ r.turn \in Nat,
           NEW request, request.first \in Nat \ {0}, request.last \in Nat,
           request.first <= request.last + 1
    PROVE  LET chosen == Covering(rows, request) IN
           /\ chosen.by \subseteq rows
           /\ chosen.covers <=>
                LinesOf(request) \subseteq UNION {LinesOf(r.span) : r \in rows}
           /\ chosen.covers =>
                LinesOf(request) \subseteq UNION {LinesOf(r.span) : r \in chosen.by}
<1> DEFINE L == request.last
           D == 1..L + 1
           V == [covers : BOOLEAN, by : SUBSET rows]
           Hits(c) == {r \in rows : c \in LinesOf(r.span)}
           Best(c) == Furthest(Hits(c))
           Next1(c) == Min({Best(c).span.last, L}) + 1
           Body(w, c) == IF c > L THEN [covers |-> TRUE, by |-> {}]
                         ELSE IF Hits(c) = {} THEN [covers |-> FALSE, by |-> {}]
                         ELSE [w[Next1(c)] EXCEPT !.by = @ \union {Best(c)}]
           walk == CHOOSE w : w = [c \in D |-> Body(w, c)]
           Read(T) == UNION {LinesOf(r.span) : r \in T}
<1>1. Covering(rows, request) = walk[request.first]
  BY DEF Covering
<1>2. L \in Nat /\ request.first \in D
  OBVIOUS
<1>3. ASSUME NEW c \in D, Hits(c) # {}
      PROVE  /\ Best(c) \in rows /\ c \in LinesOf(Best(c).span)
             /\ c <= L => /\ Next1(c) \in D /\ Next1(c) > c
                          /\ c..Next1(c) - 1 \subseteq LinesOf(Best(c).span)
  <2> DEFINE H == Hits(c)
  <2>1. H \in SUBSET rows
    OBVIOUS
  <2> HIDE DEF H
  <2>2. IsFiniteSet(H)
    BY <2>1, FS_Subset
  <2>3. Furthest(H) \in H
    <3>1. \A r \in H : r.span.last \in Nat /\ r.turn \in Nat
      BY <2>1 DEF SpanT
    <3>2. H # {}
      BY <1>3 DEF H
    <3>3. QED
      BY <3>1, <3>2, <2>2, FurthestIsOne
  <2>4. Best(c) \in rows /\ c \in LinesOf(Best(c).span)
    BY <2>3 DEF H
  <2> DEFINE b == Best(c)
  <2> HIDE DEF b
  <2>5. b.span.last \in Nat /\ b.span.first \in Nat /\ b.span.first <= c /\ c <= b.span.last
        /\ c \in b.span.first..b.span.last
    BY <2>4 DEF b, LinesOf, SpanT
  <2>6. \A x \in Nat, y \in Nat : Min({x, y}) = IF x <= y THEN x ELSE y
    BY DEF Min
  <2>7. Min({b.span.last, L}) = IF b.span.last <= L THEN b.span.last ELSE L
    BY <2>5, <2>6, <1>2
  <2> DEFINE m == Min({b.span.last, L})
  <2>8. c <= L => /\ m + 1 \in D /\ m + 1 > c
                  /\ c..m \subseteq b.span.first..b.span.last
    <3> HIDE DEF m
    <3>1. m = IF b.span.last <= L THEN b.span.last ELSE L
      BY <2>7 DEF m
    <3>2. c <= L => m + 1 \in D /\ m + 1 > c
      BY <3>1, <2>5, <1>2
    <3>3. m <= b.span.last /\ m \in Nat
      BY <3>1, <2>5, <1>2
    <3>4. \A x \in c..m : b.span.first <= x /\ x <= b.span.last /\ x \in Int
      BY <3>3, <2>5
    <3>5. c..m \subseteq b.span.first..b.span.last
      BY <3>4, <2>5
    <3>6. QED
      BY <3>2, <3>5
  <2>9. Next1(c) = m + 1 /\ m \in Nat
    BY <2>7, <2>5, <1>2 DEF b
  <2>10. c..Next1(c) - 1 = c..m
    <3> HIDE DEF m, Next1
    <3>1. QED
      BY <2>9
  <2>11. QED
    <3> HIDE DEF m, Next1, Best
    <3>1. QED
      BY <2>4, <2>8, <2>9, <2>10 DEF b, LinesOf
<1> HIDE DEF Best, Next1
<1>4. PICK f \in [D -> V] : \A c \in D : f[c] = Body(f, c)
  <2> DEFINE Stop == {c \in D : c > L \/ Hits(c) = {}}
             base == [c \in D |-> IF c > L THEN [covers |-> TRUE, by |-> {}]
                                  ELSE [covers |-> FALSE, by |-> {}]]
             step == [c \in D |-> [v \in V |->
                        IF c \in Stop THEN v
                        ELSE [v EXCEPT !.by = @ \union {Best(c)}]]]
             next == [c \in D |-> Next1(c)]
             mu   == [c \in D |-> L + 1 - c]
             M    == L + 2
  <2>1. base \in [D -> V]
    OBVIOUS
  <2>2. step \in [D -> [V -> V]]
    <3> SUFFICES ASSUME NEW c \in D, NEW v \in V
                 PROVE  (IF c \in Stop THEN v
                         ELSE [v EXCEPT !.by = @ \union {Best(c)}]) \in V
      BY Zenon
    <3>1. CASE c \in Stop
      BY <3>1
    <3>2. CASE c \notin Stop
      <4>1. Best(c) \in rows
        BY <3>2, <1>3
      <4>2. [v EXCEPT !.by = @ \union {Best(c)}] \in V
        BY <4>1
      <4>3. QED
        BY <4>2, <3>2
    <3>3. QED
      BY <3>1, <3>2
  <2>3. mu \in [D -> Nat] /\ M \in Nat /\ \A c \in D : mu[c] < M
    BY <1>2, SMTT(240)
  <2>4. \A c \in D \ Stop : next[c] \in D /\ mu[next[c]] < mu[c]
    <3> TAKE c \in D \ Stop
    <3>1. Next1(c) \in D /\ Next1(c) > c
      BY <1>3
    <3>2. QED
      BY <3>1, <1>2
  <2> HIDE DEF Stop, base, step, next, mu, M, D, V
  <2>5. PICK f \in [D -> V] : SolvesRecursion(f, D, Stop, base, step, next)
    BY <2>1, <2>2, <2>3, <2>4, RecursionHasSolution
  <2>6. \A c \in D : f[c] = Body(f, c)
    <3> TAKE c \in D
    <3>1. CASE c > L
      BY <3>1, <2>5 DEF SolvesRecursion, Stop, base
    <3>2. CASE ~(c > L) /\ Hits(c) = {}
      <4>1. c \in Stop /\ base[c] = [covers |-> FALSE, by |-> {}]
        BY <3>2 DEF Stop, base
      <4>2. QED
        BY <4>1, <3>2, <2>5 DEF SolvesRecursion
    <3>3. CASE ~(c > L) /\ Hits(c) # {}
      <4>1. c \notin Stop /\ next[c] = Next1(c) /\ next[c] \in D
        BY <3>3, <2>4 DEF Stop, next
      <4>2. f[next[c]] \in V
        BY <4>1, <2>5
      <4>3. step[c][f[next[c]]] = [f[next[c]] EXCEPT !.by = @ \union {Best(c)}]
        BY <4>1, <4>2 DEF step
      <4>4. f[c] = step[c][f[next[c]]]
        BY <4>1, <2>5, SMTT(240) DEF SolvesRecursion
      <4>5. QED
        BY <4>1, <4>3, <4>4, <3>3
    <3>4. QED
      BY <3>1, <3>2, <3>3
  <2>7. QED
    BY <2>5, <2>6
<1>5. walk = [c \in D |-> Body(walk, c)]
  <2> DEFINE Is(w) == w = [c \in D |-> Body(w, c)]
  <2>1. Is(f)
    <3>1. f = [c \in D |-> f[c]]
      BY <1>4
    <3> HIDE DEF Body
    <3>2. QED
      BY <3>1, <1>4
  <2>2. walk = CHOOSE w : Is(w)
    OBVIOUS
  <2> HIDE DEF Is
  <2>3. Is(walk)
    BY <2>1, <2>2
  <2>4. QED
    BY <2>3, Zenon DEF Is
<1> HIDE DEF walk
<1>6. \A c \in D : walk[c] = Body(walk, c)
  <2> HIDE DEF Body
  <2>1. QED
    BY <1>5
<1> DEFINE Right(c) == /\ walk[c] \in V
                       /\ walk[c].covers <=> c..L \subseteq Read(rows)
                       /\ walk[c].covers => c..L \subseteq Read(walk[c].by)
<1>7. ASSUME NEW c \in D, \A d \in D : d > c => Right(d)
      PROVE  Right(c)
  <2>1. CASE c > L
    <3>0. c..L = {}
      BY <1>2, <2>1
    <3>1. walk[c] = [covers |-> TRUE, by |-> {}] /\ c..L = {}
      BY <1>6, <2>1, <3>0
    <3>2. QED
      BY <3>1
  <2>2. CASE ~(c > L) /\ Hits(c) = {}
    <3>0. c \in c..L
      BY <1>2, <2>2
    <3>1. walk[c] = [covers |-> FALSE, by |-> {}] /\ c \in c..L
      BY <1>6, <2>2, <3>0
    <3>2. c \notin Read(rows)
      BY <2>2
    <3>3. QED
      BY <3>1, <3>2
  <2>3. CASE ~(c > L) /\ Hits(c) # {}
    <3> DEFINE d == Next1(c)
               b == Best(c)
    <3>1. /\ b \in rows /\ d \in D /\ d > c
          /\ c..d - 1 \subseteq LinesOf(b.span)
      BY <1>2, <1>3, <2>3
    <3>2. walk[c] = [walk[d] EXCEPT !.by = @ \union {b}]
      BY <1>6, <2>3
    <3>3. Right(d)
      BY <3>1, <1>7
    <3> HIDE DEF d, b
    <3>4. /\ walk[c] \in V /\ walk[c].covers = walk[d].covers
          /\ walk[c].by = walk[d].by \union {b}
      BY <3>1, <3>2, <3>3
    <3>5. c..L = (c..d - 1) \union (d..L)
      BY <3>1, <1>2
    <3>6. LinesOf(b.span) \subseteq Read(rows) /\ LinesOf(b.span) \subseteq Read(walk[c].by)
          /\ Read(walk[d].by) \subseteq Read(walk[c].by)
      BY <3>1, <3>4
    <3> HIDE DEF Read
    <3>7. QED
      BY <3>1, <3>3, <3>4, <3>5, <3>6
  <2>4. QED
    BY <2>1, <2>2, <2>3
<1>8. \A c \in D : Right(c)
  <2> DEFINE Bad == {n \in Nat : \E c \in D : n = L + 1 - c /\ ~Right(c)}
  <2> HIDE DEF Right
  <2>1. Bad = {}
    <3>1. SUFFICES ASSUME Bad # {} PROVE FALSE
      OBVIOUS
    <3>2. PICK n \in Bad : \A m \in Bad : n <= m
      <4>1. Bad \in SUBSET Nat
        OBVIOUS
      <4> HIDE DEF Bad
      <4>2. QED
        BY <3>1, <4>1, LeastExists
    <3>3. PICK c \in D : n = L + 1 - c /\ ~Right(c)
      BY <3>2
    <3>4. \A d \in D : d > c => Right(d)
      <4> TAKE d \in D
      <4> HAVE d > c
      <4>1. L + 1 - d \in Nat /\ L + 1 - d < n
        BY <3>3, <1>2, SMTT(240)
      <4>2. L + 1 - d \notin Bad
        <5>1. n \in Nat /\ ~(n <= L + 1 - d)
          BY <4>1, <3>2
        <5> HIDE DEF Bad
        <5>2. QED
          BY <5>1, <3>2
      <4>3. QED
        BY <4>1, <4>2
    <3>5. QED
      BY <3>3, <3>4, <1>7
  <2>2. \A c \in D : L + 1 - c \in Nat
    BY <1>2
  <2>3. QED
    BY <2>1, <2>2
<1>9. request.first..L = LinesOf(request)
  BY DEF LinesOf
<1>10. QED
  BY <1>1, <1>2, <1>8, <1>9

-------------------------------------------------------------------------------
(* Ranges put together.                                                    *)

(* What holds at the start, and goes on from each place to the next, holds *)
(* at every place.                                                         *)
LEMMA FromTheStart ==
    ASSUME NEW N \in Nat, NEW P, 0 \in P, \A n \in 1..N : n - 1 \in P => n \in P
    PROVE  \A n \in 0..N : n \in P
<1> DEFINE Bad == {n \in 0..N : n \notin P}
<1>1. SUFFICES ASSUME Bad # {} PROVE FALSE
  OBVIOUS
<1>2. PICK n \in Bad : \A m \in Bad : n <= m
  <2>1. Bad \in SUBSET Nat
    OBVIOUS
  <2> HIDE DEF Bad
  <2>2. QED
    BY <1>1, <2>1, LeastExists
<1>3. n \in 1..N /\ n - 1 \in 0..N /\ ~(n <= n - 1)
  BY <1>2
<1>4. n - 1 \in P
  BY <1>2, <1>3
<1>5. QED
  BY <1>2, <1>3, <1>4

(* A value taken from step to step through a sequence: there is one at     *)
(* every place.                                                            *)
StepsIn(step, V, N) == step \in [1..N -> [V -> V]]

Stepped(f, v0, step, V, N) ==
    /\ f \in [0..N -> V]
    /\ f[0] = v0 /\ \A n \in 1..N : f[n] = step[n][f[n - 1]]

LEMMA StepsExist ==
    ASSUME NEW V, NEW v0 \in V, NEW N \in Nat, NEW step, StepsIn(step, V, N)
    PROVE  \E f : Stepped(f, v0, step, V, N)
<1>0. step \in [1..N -> [V -> V]]
  BY DEF StepsIn
<1> DEFINE D == 0..N
           Stop == {0}
           base == [n \in D |-> v0]
           go   == [n \in D |-> IF n = 0 THEN [v \in V |-> v] ELSE step[n]]
           next == [n \in D |-> n - 1]
           mu   == [n \in D |-> n]
           M    == N + 1
<1>1. base \in [D -> V] /\ go \in [D -> [V -> V]]
  <2>1. base \in [D -> V]
    OBVIOUS
  <2>2. [v \in V |-> v] \in [V -> V]
    OBVIOUS
  <2>3. \A n \in D : n = 0 \/ n \in 1..N
    OBVIOUS
  <2>4. \A n \in D : (IF n = 0 THEN [v \in V |-> v] ELSE step[n]) \in [V -> V]
    BY <1>0, <2>2, <2>3
  <2>5. go \in [D -> [V -> V]]
    BY <2>4, ZenonT(30)
  <2>6. QED
    BY <2>1, <2>5
<1>2. mu \in [D -> Nat] /\ M \in Nat /\ \A c \in D : mu[c] < M
  OBVIOUS
<1>3. \A c \in D \ Stop : next[c] \in D /\ mu[next[c]] < mu[c]
  OBVIOUS
<1> HIDE DEF D, Stop, base, go, next, mu, M
<1>4. PICK f \in [D -> V] : SolvesRecursion(f, D, Stop, base, go, next)
  BY <1>1, <1>2, <1>3, RecursionHasSolution
<1>5. f[0] = v0
  <2>1. 0 \in D /\ 0 \in Stop /\ base[0] = v0
    BY DEF D, Stop, base
  <2>2. QED
    BY <2>1, <1>4 DEF SolvesRecursion
<1>6. \A n \in 1..N : f[n] = step[n][f[n - 1]]
  <2> TAKE n \in 1..N
  <2>1. n \in D /\ n \notin Stop /\ go[n] = step[n] /\ next[n] = n - 1
    BY DEF D, Stop, go, next
  <2>2. QED
    BY <2>1, <1>4 DEF SolvesRecursion
<1>7. QED
  BY <1>4, <1>5, <1>6 DEF D, Stepped

(* Ranges in order, that do not meet; and the lines they hold.             *)
Apart(r) ==
    /\ r \in Seq(SpanT)
    /\ \A i \in 1..Len(r) : r[i].first <= r[i].last
    /\ \A i \in 1..Len(r), j \in 1..Len(r) : i < j => r[i].last < r[j].first

LinesIn(r) == UNION {LinesOf(s) : s \in ToSet(r)}

LEMMA LinesInIs ==
    ASSUME NEW T, NEW r \in Seq(T), NEW x
    PROVE  x \in LinesIn(r) <=> \E i \in 1..Len(r) : x \in LinesOf(r[i])
BY DEF LinesIn, ToSet

(* A range that begins no earlier than the last one: it is joined, or put  *)
(* behind, and no line is added or lost.                                   *)
LEMMA MergedHolds ==
    ASSUME NEW r, Apart(r), NEW s \in SpanT, s.first <= s.last,
           r # <<>> => Last(r).first <= s.first
    PROVE  /\ Apart(Merged(r, s)) /\ Merged(r, s) # <<>>
           /\ Last(Merged(r, s)).first <= s.first
           /\ LinesIn(Merged(r, s)) = LinesIn(r) \union LinesOf(s)
<1> DEFINE N == Len(r)
           last == Last(r)
           m == Merged(r, s)
<1>1. N \in Nat /\ r \in Seq(SpanT) /\ s.first \in Nat /\ s.last \in Nat
      /\ \A i \in 1..N : r[i] \in SpanT /\ r[i].first \in Nat /\ r[i].last \in Nat
  <2>1. r \in Seq(SpanT)
    BY DEF Apart
  <2>2. N \in Nat /\ \A i \in 1..N : r[i] \in SpanT
    BY <2>1
  <2>3. \A t \in SpanT : t.first \in Nat /\ t.last \in Nat
    BY DEF SpanT
  <2>4. QED
    BY <2>1, <2>2, <2>3
<1>2. r # <<>> => N > 0 /\ last = r[N]
  BY <1>1 DEF Last
<1>3. CASE r = <<>> \/ s.first > last.last + 1
  <2>1. m = Append(r, s)
    BY <1>3 DEF Merged
  <2>2. /\ m \in Seq(SpanT) /\ Len(m) = N + 1 /\ m[N + 1] = s
        /\ \A i \in 1..N : m[i] = r[i]
    BY <2>1, <1>1, AppendProperties
  <2>3. \A i \in 1..N : r[i].last < s.first
    <3> TAKE i \in 1..N
    <3>1. N > 0 /\ last = r[N] /\ s.first > r[N].last + 1
      BY <1>2, <1>3
    <3>2. i = N \/ r[i].last < r[N].first
      BY <1>1, <3>1 DEF Apart
    <3>3. r[N].first <= r[N].last
      BY <1>1, <3>1 DEF Apart
    <3>4. QED
      BY <1>1, <3>1, <3>2, <3>3
  <2> HIDE DEF m, N
  <2>4. \A i \in 1..Len(m) : m[i].first <= m[i].last
    BY <2>2, <1>1 DEF Apart, N
  <2>5. \A i \in 1..Len(m), j \in 1..Len(m) : i < j => m[i].last < m[j].first
    <3> TAKE i \in 1..Len(m), j \in 1..Len(m)
    <3> HAVE i < j
    <3>1. i \in 1..N /\ m[i] = r[i]
      BY <2>2, <1>1
    <3>2. CASE j = N + 1
      BY <3>1, <3>2, <2>2, <2>3
    <3>3. CASE j # N + 1
      <4>1. j \in 1..N /\ m[j] = r[j]
        BY <3>3, <2>2, <1>1
      <4>2. QED
        BY <3>1, <4>1 DEF Apart, N
    <3>4. QED
      BY <3>2, <3>3
  <2>6. \A x : x \in LinesIn(m) <=> x \in LinesIn(r) \/ x \in LinesOf(s)
    <3> TAKE x
    <3>1. x \in LinesIn(m) <=> \E i \in 1..N + 1 : x \in LinesOf(m[i])
      BY <2>2, LinesInIs
    <3>2. x \in LinesIn(r) <=> \E i \in 1..N : x \in LinesOf(r[i])
      BY <1>1, LinesInIs DEF N
    <3>3. \A i \in 1..N + 1 : i \in 1..N \/ i = N + 1
      BY <1>1
    <3>4. \A i \in 1..N : i \in 1..N + 1
      BY <1>1
    <3>5. N + 1 \in 1..N + 1
      BY <1>1
    <3>6. QED
      BY <3>1, <3>2, <3>3, <3>4, <3>5, <2>2
  <2>7. m # <<>> /\ Last(m) = s
    BY <2>2, <1>1 DEF Last
  <2>8. QED
    BY <2>2, <2>4, <2>5, <2>6, <2>7, <1>1 DEF Apart, m
<1>4. CASE ~(r = <<>> \/ s.first > last.last + 1)
  <2> DEFINE end == Max({last.last, s.last})
             front == Front(r)
             joined == Span(last.first, end)
  <2>1. m = Append(front, joined)
    BY <1>4 DEF Merged
  <2>2. N > 0 /\ last = r[N] /\ last.first \in Nat /\ last.last \in Nat
        /\ last.first <= last.last /\ last.first <= s.first /\ s.first <= last.last + 1
    BY <1>1, <1>2, <1>4 DEF Apart
  <2>3. end \in Nat /\ end >= last.last /\ end >= s.last /\ end \in {last.last, s.last}
    <3>1. \A x \in Int, y \in Int : Max({x, y}) = IF x >= y THEN x ELSE y
      BY DEF Max
    <3>2. last.last \in Int /\ s.last \in Int
      BY <1>1, <2>2
    <3> HIDE DEF last
    <3>3. end = IF last.last >= s.last THEN last.last ELSE s.last
      BY <3>1, <3>2
    <3>4. QED
      BY <3>3, <2>2, <1>1
  <2>4. front \in Seq(SpanT) /\ Len(front) = N - 1 /\ \A i \in 1..N - 1 : front[i] = r[i]
    <3> DEFINE K == N - 1
    <3>1. K \in Int /\ K \in Nat /\ \A i \in 1..K : r[i] \in SpanT
      BY <1>1, <2>2
    <3>2. front = SubSeq(r, 1, K)
      BY DEF Front
    <3> HIDE DEF K, N, front
    <3>3. /\ SubSeq(r, 1, K) \in Seq(SpanT)
          /\ Len(SubSeq(r, 1, K)) = IF 1 <= K THEN K - 1 + 1 ELSE 0
          /\ \A i \in 1..K - 1 + 1 : SubSeq(r, 1, K)[i] = r[1 + i - 1]
      BY <3>1, SubSeqProperties
    <3>4. \A i \in 1..K : i \in 1..K - 1 + 1 /\ 1 + i - 1 = i
      BY <3>1
    <3>5. QED
      BY <3>1, <3>2, <3>3, <3>4 DEF K
  <2>5. joined \in SpanT /\ joined.first = last.first /\ joined.last = end
    BY <2>2, <2>3 DEF Span, SpanT
  <2> HIDE DEF front, joined, m, end, last
  <2>6. /\ m \in Seq(SpanT) /\ Len(m) = N /\ m[N] = joined
        /\ \A i \in 1..N - 1 : m[i] = r[i]
    <3>1. /\ m \in Seq(SpanT) /\ Len(m) = Len(front) + 1 /\ m[Len(front) + 1] = joined
          /\ \A i \in 1..Len(front) : m[i] = front[i]
      BY <2>1, <2>4, <2>5, AppendProperties
    <3>2. Len(front) = N - 1 /\ Len(front) + 1 = N
      BY <2>4, <1>1
    <3>3. \A i \in 1..N - 1 : m[i] = r[i]
      BY <3>1, <3>2, <2>4
    <3>4. QED
      BY <3>1, <3>2, <3>3
  <2>7. LinesOf(joined) = LinesOf(last) \union LinesOf(s)
    BY <2>2, <2>3, <2>5, <1>1 DEF LinesOf
  <2>8. \A i \in 1..N : i \in 1..N - 1 \/ i = N
    BY <1>1
  <2>9. N \in 1..N /\ \A i \in 1..N - 1 : i \in 1..N /\ i < N
    BY <1>1, <2>2
  <2> HIDE DEF N
  <2>10. \A i \in 1..Len(m) : m[i].first <= m[i].last
    <3> TAKE i \in 1..Len(m)
    <3>1. CASE i = N
      BY <3>1, <2>6, <2>5, <2>2, <2>3
    <3>2. CASE i \in 1..N - 1
      BY <3>2, <2>6, <2>9 DEF Apart, N
    <3>3. QED
      BY <3>1, <3>2, <2>6, <2>8
  <2>11. \A i \in 1..Len(m), j \in 1..Len(m) : i < j => m[i].last < m[j].first
    <3> TAKE i \in 1..Len(m), j \in 1..Len(m)
    <3> HAVE i < j
    <3>1. i \in 1..N - 1 /\ m[i] = r[i] /\ i \in 1..N
      BY <2>6, <2>8, <2>9, <1>1
    <3>2. r[i].last < r[j].first
      BY <3>1, <2>6 DEF Apart, N
    <3>3. m[j].first = r[j].first
      <4>1. CASE j = N
        BY <4>1, <2>6, <2>5, <2>2
      <4>2. CASE j \in 1..N - 1
        BY <4>2, <2>6
      <4>3. QED
        BY <4>1, <4>2, <2>6, <2>8
    <3>4. QED
      BY <3>1, <3>2, <3>3
  <2>12. \A x : x \in LinesIn(m) <=> x \in LinesIn(r) \/ x \in LinesOf(s)
    <3> TAKE x
    <3>1. x \in LinesIn(m) <=> \E i \in 1..N : x \in LinesOf(m[i])
      BY <2>6, LinesInIs
    <3>2. x \in LinesIn(r) <=> \E i \in 1..N : x \in LinesOf(r[i])
      BY <1>1, LinesInIs DEF N
    <3>3. x \in LinesOf(m[N]) <=> x \in LinesOf(r[N]) \/ x \in LinesOf(s)
      BY <2>6, <2>7, <2>2
    <3>4. QED
      BY <3>1, <3>2, <3>3, <2>6, <2>8, <2>9
  <2>13. m # <<>> /\ Last(m).first <= s.first
    BY <2>6, <2>5, <2>2, <1>1 DEF Last
  <2>14. QED
    BY <2>6, <2>10, <2>11, <2>12, <2>13 DEF Apart, m
<1>5. QED
  BY <1>3, <1>4

(* Ranges put together one after the other, in the order in which they     *)
(* begin: they stay apart, and hold the lines of those taken so far.       *)
MergedSoFar(g, sorted, n) ==
    /\ Apart(g[n])
    /\ g[n] = <<>> <=> n = 0
    /\ n # 0 => Last(g[n]).first <= sorted[n].first
    /\ \A x : x \in LinesIn(g[n]) <=> \E k \in 1..n : x \in LinesOf(sorted[k])

Rising(sorted, N) ==
    /\ sorted \in [1..N -> SpanT]
    /\ \A k \in 1..N : sorted[k].first <= sorted[k].last
    /\ \A k \in 1..N, j \in 1..N : k < j => sorted[k].first <= sorted[j].first

Merging(g, sorted, N) ==
    /\ g[0] = <<>>
    /\ \A n \in 1..N : Apart(Merged(g[n - 1], sorted[n])) =>
                              g[n] = Merged(g[n - 1], sorted[n])

LEMMA MergingHolds ==
    ASSUME NEW N \in Nat, NEW sorted, Rising(sorted, N),
           NEW g, Merging(g, sorted, N)
    PROVE  /\ \A n \in 0..N : MergedSoFar(g, sorted, n)
           /\ \A n \in 1..N : g[n] = Merged(g[n - 1], sorted[n])
<1>0. /\ sorted \in [1..N -> SpanT]
      /\ \A k \in 1..N : sorted[k].first <= sorted[k].last
      /\ \A k \in 1..N, j \in 1..N : k < j => sorted[k].first <= sorted[j].first
      /\ g[0] = <<>>
      /\ \A n \in 1..N : Apart(Merged(g[n - 1], sorted[n])) =>
                              g[n] = Merged(g[n - 1], sorted[n])
  BY DEF Rising, Merging
<1> DEFINE P == {n \in 0..N : MergedSoFar(g, sorted, n)}
<1>1. 0 \in P
  <2>1. <<>> \in Seq(SpanT) /\ Len(<<>>) = 0
    OBVIOUS
  <2>2. Apart(<<>>)
    BY <2>1 DEF Apart
  <2>3. LinesIn(<<>>) = {}
    BY DEF LinesIn, ToSet
  <2>4. QED
    BY <1>0, <2>2, <2>3 DEF MergedSoFar
<1>2. \A n \in 1..N : n - 1 \in P => n \in P /\ g[n] = Merged(g[n - 1], sorted[n])
  <2> TAKE n \in 1..N
  <2> HAVE n - 1 \in P
  <2> DEFINE r == g[n - 1]
             s == sorted[n]
  <2>1. n - 1 \in 0..N /\ MergedSoFar(g, sorted, n - 1)
    OBVIOUS
  <2>2. s \in SpanT /\ s.first <= s.last /\ s.first \in Nat
    BY <1>0 DEF SpanT
  <2>3. r # <<>> => Last(r).first <= s.first
    <3> HAVE r # <<>>
    <3>1. n - 1 # 0 /\ n - 1 \in 1..N /\ n - 1 < n
      BY <2>1 DEF MergedSoFar
    <3>2. Last(r).first <= sorted[n - 1].first /\ sorted[n - 1].first <= s.first
      BY <1>0, <3>1, <2>1 DEF MergedSoFar
    <3>3. sorted[n - 1].first \in Nat
      BY <1>0, <3>1 DEF SpanT
    <3>4. Last(r) \in SpanT
      <4>1. r \in Seq(SpanT)
        BY <2>1 DEF MergedSoFar, Apart
      <4> HIDE DEF r
      <4>2. Len(r) \in 1..Len(r)
        BY <4>1
      <4>3. QED
        BY <4>1, <4>2 DEF Last
    <3>5. Last(r).first \in Nat
      BY <3>4 DEF SpanT
    <3>6. QED
      BY <3>2, <3>3, <3>5, <2>2
  <2>4. Apart(r)
    BY <2>1 DEF MergedSoFar
  <2> HIDE DEF r, s
  <2>5. /\ Apart(Merged(r, s)) /\ Merged(r, s) # <<>>
        /\ Last(Merged(r, s)).first <= s.first
        /\ LinesIn(Merged(r, s)) = LinesIn(r) \union LinesOf(s)
    BY <2>2, <2>3, <2>4, MergedHolds
  <2>6. g[n] = Merged(r, s)
    BY <1>0, <2>5 DEF r, s
  <2>7. \A k \in 1..n : k \in 1..n - 1 \/ k = n
    OBVIOUS
  <2>8. n \in 1..n /\ n # 0 /\ n \in 0..N /\ \A k \in 1..n - 1 : k \in 1..n
    OBVIOUS
  <2>9. \A x : x \in LinesIn(g[n]) <=> \E k \in 1..n : x \in LinesOf(sorted[k])
    <3> TAKE x
    <3>1. x \in LinesIn(r) <=> \E k \in 1..n - 1 : x \in LinesOf(sorted[k])
      BY <2>1 DEF MergedSoFar, r
    <3>2. x \in LinesIn(g[n]) <=> x \in LinesIn(r) \/ x \in LinesOf(sorted[n])
      BY <2>5, <2>6 DEF s
    <3>3. QED
      BY <3>1, <3>2, <2>7, <2>8
  <2>10. MergedSoFar(g, sorted, n)
    BY <2>5, <2>6, <2>8, <2>9 DEF MergedSoFar, s
  <2>11. QED
    BY <2>6, <2>8, <2>10 DEF r, s
<1> HIDE DEF P
<1>3. \A n \in 0..N : n \in P
  BY <1>1, <1>2, FromTheStart
<1>4. \A n \in 1..N : n - 1 \in 0..N
  OBVIOUS
<1>5. QED
  <2>1. \A n \in 0..N : MergedSoFar(g, sorted, n)
    BY <1>3 DEF P
  <2>2. QED
    BY <2>1, <1>2, <1>3, <1>4

(* The ranges of a finite set put together: apart, in order, and with all  *)
(* of its lines and no other.                                              *)
THEOREM MergedRangesHold ==
    ASSUME NEW S \in SUBSET SpanT, IsFiniteSet(S), \A s \in S : s.first <= s.last
    PROVE  /\ Apart(MergedRanges(S))
           /\ LinesIn(MergedRanges(S)) = UNION {LinesOf(s) : s \in S}
<1> DEFINE R == {p \in S \X S : \/ p[1].first < p[2].first
                                \/ p[1].first = p[2].first /\ p[1].last < p[2].last}
           Precedes(a, b) == a.first < b.first \/ (a.first = b.first /\ a.last < b.last)
           sorted == Ordered(S, Precedes)
           N == Cardinality(S)
           Is(g) == g = [n \in 0..Len(sorted) |->
                            IF n = 0 THEN <<>> ELSE Merged(g[n - 1], sorted[n])]
           merged == CHOOSE g : Is(g)
<1>1. Lists(sorted, S, R)
  <2>1. Orders(R, S)
    <3>1. \A s \in S : s.first \in Nat /\ s.last \in Nat /\ s = [first |-> s.first, last |-> s.last]
      BY DEF SpanT
    <3>2. \A x \in S, y \in S : x.first = y.first /\ x.last = y.last => x = y
      BY <3>1
    <3>3. \A x \in S, y \in S : <<x, y>> \in R <=> Precedes(x, y)
      OBVIOUS
    <3> HIDE DEF R
    <3>4. QED
      BY <3>1, <3>2, <3>3 DEF Orders
  <2>2. \A x \in S : {y \in S : Precedes(y, x)} = Under(S, R, x)
    BY DEF Under
  <2>3. sorted = [k \in 1..N |-> CHOOSE x \in S : Cardinality({y \in S : Precedes(y, x)}) = k - 1]
    BY DEF Ordered
  <2>4. sorted = [k \in 1..N |-> sorted[k]]
    BY <2>3
  <2> HIDE DEF R, sorted, Precedes
  <2>5. \A k \in 1..N, x \in S : Cardinality(Under(S, R, x)) = k - 1 =>
               sorted[k] \in S /\ Cardinality(Under(S, R, sorted[k])) = k - 1
    <3> TAKE k \in 1..N, x \in S
    <3> HAVE Cardinality(Under(S, R, x)) = k - 1
    <3>1. sorted[k] = CHOOSE z \in S : Cardinality({y \in S : Precedes(y, z)}) = k - 1
      BY <2>3
    <3>2. Cardinality({y \in S : Precedes(y, x)}) = k - 1
      BY <2>2
    <3>3. sorted[k] \in S /\ Cardinality({y \in S : Precedes(y, sorted[k])}) = k - 1
      BY <3>1, <3>2
    <3>4. QED
      BY <3>3, <2>2
  <2>6. QED
    BY <2>1, <2>4, <2>5, RankingLists
<1>2. MergedRanges(S) = merged[Len(sorted)]
  BY DEF MergedRanges
<1> HIDE DEF sorted
<1>3. /\ N \in Nat /\ sorted \in [1..N -> SpanT] /\ Len(sorted) = N
      /\ \A k \in 1..N : sorted[k].first <= sorted[k].last
      /\ \A l \in S : \E k \in 1..N : sorted[k] = l
      /\ \A k \in 1..N : sorted[k] \in S
  BY <1>1 DEF Lists
<1>4. Rising(sorted, N)
  <2>1. \A k \in 1..N, j \in 1..N : k < j => sorted[k].first <= sorted[j].first
    <3> TAKE k \in 1..N, j \in 1..N
    <3> HAVE k < j
    <3>1. <<sorted[k], sorted[j]>> \in R
      BY <1>1 DEF Lists
    <3>2. Precedes(sorted[k], sorted[j])
      BY <3>1
    <3>3. sorted[k].first \in Nat /\ sorted[j].first \in Nat
      BY <1>3 DEF SpanT
    <3>4. QED
      BY <3>2, <3>3
  <2>2. QED
    BY <1>3, <2>1 DEF Rising
<1> HIDE DEF R, N
<1>5. \E f : Is(f)
  <2> DEFINE V == {v \in Seq(SpanT) : Apart(v)}
             step == [n \in 1..N |-> [v \in V |->
                        IF Apart(Merged(v, sorted[n])) THEN Merged(v, sorted[n]) ELSE v]]
  <2>1. <<>> \in V
    <3>1. <<>> \in Seq(SpanT) /\ Len(<<>>) = 0
      OBVIOUS
    <3>2. QED
      BY <3>1 DEF Apart
  <2>2. \A v : Apart(v) => v \in V
    BY DEF Apart
  <2>3. step \in [1..N -> [V -> V]]
    <3> HIDE DEF V
    <3>1. \A n \in 1..N, v \in V :
            (IF Apart(Merged(v, sorted[n])) THEN Merged(v, sorted[n]) ELSE v) \in V
      BY <2>2
    <3>2. QED
      BY <3>1, ZenonT(30)
  <2>n. N \in Nat
    BY <1>3
  <2> HIDE DEF V, step
  <2>4. PICK f \in [0..N -> V] :
            f[0] = <<>> /\ \A n \in 1..N : f[n] = step[n][f[n - 1]]
    <3>1. StepsIn(step, V, N)
      BY <2>3 DEF StepsIn
    <3>2. \E f : Stepped(f, <<>>, step, V, N)
      BY <2>n, <2>1, <3>1, StepsExist
    <3>3. QED
      BY <3>2 DEF Stepped
  <2>5. \A n \in 1..N : Apart(Merged(f[n - 1], sorted[n])) =>
                           f[n] = Merged(f[n - 1], sorted[n])
    <3> TAKE n \in 1..N
    <3>1. n - 1 \in 0..N
      BY <1>3
    <3>2. f[n - 1] \in V
      BY <3>1, <2>4
    <3>3. QED
      BY <3>2, <2>4 DEF step
  <2>6. \A n \in 1..N : f[n] = Merged(f[n - 1], sorted[n])
    <3>1. Merging(f, sorted, N)
      BY <2>4, <2>5 DEF Merging
    <3> HIDE DEF sorted
    <3>2. QED
      BY <3>1, <2>n, <1>4, MergingHolds, ZenonT(30)
  <2>7. \A n \in 0..N : n = 0 \/ n \in 1..N
    BY <1>3
  <2>8. f = [n \in 0..N |-> IF n = 0 THEN <<>> ELSE Merged(f[n - 1], sorted[n])]
    <3>1. \A n \in 0..N : f[n] = IF n = 0 THEN <<>> ELSE Merged(f[n - 1], sorted[n])
      BY <2>4, <2>6, <2>7
    <3>2. f = [n \in 0..N |-> f[n]]
      BY <2>4
    <3>3. QED
      BY <3>1, <3>2, ZenonT(30)
  <2>9. QED
    BY <2>8, <1>3
<1>6. Is(merged)
  <2> HIDE DEF Is
  <2>1. QED
    BY <1>5
<1> HIDE DEF merged
<1>7. /\ merged[0] = <<>>
      /\ \A n \in 1..N : merged[n] = Merged(merged[n - 1], sorted[n])
  <2>1. \A n \in 0..N : merged[n] = IF n = 0 THEN <<>> ELSE Merged(merged[n - 1], sorted[n])
    BY <1>6, <1>3
  <2>2. 0 \in 0..N /\ \A n \in 1..N : n \in 0..N /\ n # 0
    BY <1>3
  <2>3. QED
    BY <2>1, <2>2
<1> HIDE DEF Is
<1>8. \A n \in 0..N : MergedSoFar(merged, sorted, n)
  <2>1. Merging(merged, sorted, N)
    BY <1>7 DEF Merging
  <2>2. QED
    BY <2>1, <1>3, <1>4, MergingHolds
<1>9. MergedSoFar(merged, sorted, N) /\ MergedRanges(S) = merged[N]
  BY <1>8, <1>3, <1>2
<1>10. \A x : x \in LinesIn(merged[N]) <=> \E s \in S : x \in LinesOf(s)
  BY <1>9, <1>3 DEF MergedSoFar
<1>11. QED
  BY <1>9, <1>10 DEF MergedSoFar

(* Of ranges that stay apart, what their lengths add up to is how many     *)
(* lines they hold.                                                        *)
LEMMA LinesAddUp ==
    ASSUME NEW r, Apart(r)
    PROVE  /\ IsFiniteSet(LinesIn(r))
           /\ MaterializedLines(r) = Cardinality(LinesIn(r))
<1> DEFINE N == Len(r)
           Below(n) == {x \in Nat : \E k \in 1..n : x \in LinesOf(r[k])}
           Is(g) == g = [n \in 0..N |->
                           IF n = 0 THEN 0
                           ELSE g[n - 1] + (r[n].last - r[n].first + 1)]
           lines == CHOOSE g : Is(g)
<1>1. /\ N \in Nat /\ r \in Seq(SpanT)
      /\ \A i \in 1..N : r[i].first \in Nat /\ r[i].last \in Nat /\ r[i].first <= r[i].last
      /\ \A i \in 1..N, j \in 1..N : i < j => r[i].last < r[j].first
  <2>1. r \in Seq(SpanT)
    BY DEF Apart
  <2>2. N \in Nat /\ \A i \in 1..N : r[i] \in SpanT
    BY <2>1
  <2>3. \A t \in SpanT : t.first \in Nat /\ t.last \in Nat
    BY DEF SpanT
  <2>4. QED
    BY <2>1, <2>2, <2>3 DEF Apart
<1>2. MaterializedLines(r) = lines[N]
  BY DEF MaterializedLines
<1> HIDE DEF N
<1>3. Is(lines)
  <2> DEFINE step == [n \in 1..N |-> [v \in Int |-> v + (r[n].last - r[n].first + 1)]]
  <2>1. step \in [1..N -> [Int -> Int]]
    <3>1. \A n \in 1..N, v \in Int : v + (r[n].last - r[n].first + 1) \in Int
      BY <1>1, SMTT(60)
    <3>2. QED
      BY <3>1, ZenonT(30)
  <2>2. 0 \in Int
    OBVIOUS
  <2> DEFINE V == Int
             none == 0
  <2>3. step \in [1..N -> [V -> V]] /\ none \in V
    BY <2>1, <2>2
  <2> HIDE DEF step, V, none
  <2>4. PICK f \in [0..N -> V] :
            f[0] = none /\ \A n \in 1..N : f[n] = step[n][f[n - 1]]
    <3>1. N \in Nat
      BY <1>1
    <3>2. StepsIn(step, V, N)
      BY <2>3 DEF StepsIn
    <3>3. \E f : Stepped(f, none, step, V, N)
      BY <2>3, <3>1, <3>2, StepsExist
    <3>4. QED
      BY <3>3 DEF Stepped
  <2>5. \A n \in 0..N : f[n] = IF n = 0 THEN 0
                               ELSE f[n - 1] + (r[n].last - r[n].first + 1)
    <3> TAKE n \in 0..N
    <3>1. CASE n = 0
      BY <3>1, <2>4 DEF none
    <3>2. CASE n # 0
      <4>1. n \in 1..N /\ n - 1 \in 0..N
        BY <3>2, <1>1
      <4>2. f[n - 1] \in V
        BY <4>1, <2>4
      <4>3. step[n][f[n - 1]] = f[n - 1] + (r[n].last - r[n].first + 1)
        BY <4>1, <4>2 DEF step, V
      <4>4. QED
        BY <3>2, <4>1, <4>3, <2>4
    <3>3. QED
      BY <3>1, <3>2
  <2>6. f = [n \in 0..N |-> f[n]]
    BY <2>4
  <2>7. Is(f)
    BY <2>5, <2>6, ZenonT(30)
  <2> HIDE DEF Is
  <2>8. QED
    BY <2>7
<1> HIDE DEF lines
<1>4. /\ lines[0] = 0
      /\ \A n \in 1..N : lines[n] = lines[n - 1] + (r[n].last - r[n].first + 1)
  <2>1. \A n \in 0..N : lines[n] = IF n = 0 THEN 0
                                   ELSE lines[n - 1] + (r[n].last - r[n].first + 1)
    BY <1>3
  <2>2. 0 \in 0..N /\ \A n \in 1..N : n \in 0..N /\ n # 0
    BY <1>1
  <2>3. QED
    BY <2>1, <2>2
<1> HIDE DEF Is
<1> DEFINE P == {n \in 0..N : IsFiniteSet(Below(n)) /\ lines[n] = Cardinality(Below(n))}
<1>5. 0 \in P
  <2>1. Below(0) = {}
    OBVIOUS
  <2>2. 0 \in 0..N
    BY <1>1
  <2>3. IsFiniteSet(Below(0)) /\ Cardinality(Below(0)) = 0
    <3> HIDE DEF Below
    <3>1. QED
      BY <2>1, FS_EmptySet
  <2> HIDE DEF Below
  <2>4. QED
    BY <2>2, <2>3, <1>4
<1>6. \A n \in 1..N : n - 1 \in P => n \in P
  <2> TAKE n \in 1..N
  <2> HAVE n - 1 \in P
  <2> DEFINE B == Below(n - 1)
             I == LinesOf(r[n])
             a == r[n].first
             b == r[n].last
  <2>1. IsFiniteSet(B) /\ lines[n - 1] = Cardinality(B)
    OBVIOUS
  <2>2. a \in Nat /\ b \in Nat /\ a <= b /\ I = a..b /\ I \subseteq Nat
    BY <1>1 DEF LinesOf
  <2>3. Below(n) = B \union I
    <3>1. \A k \in 1..n : k \in 1..n - 1 \/ k = n
      BY <1>1
    <3>2. n \in 1..n /\ \A k \in 1..n - 1 : k \in 1..n
      BY <1>1
    <3>3. QED
      BY <3>1, <3>2, <2>2
  <2>4. B \cap I = {}
    <3>1. SUFFICES ASSUME NEW x \in B, x \in I PROVE FALSE
      OBVIOUS
    <3>2. PICK k \in 1..n - 1 : x \in LinesOf(r[k])
      OBVIOUS
    <3>3. k \in 1..N /\ k < n /\ r[k].last < r[n].first
      BY <1>1
    <3>4. x <= r[k].last /\ x \in Nat /\ r[k].last \in Nat
      BY <3>2, <3>3, <1>1 DEF LinesOf
    <3>5. a <= x
      BY <3>1, <2>2
    <3>6. QED
      BY <3>3, <3>4, <3>5, <2>2
  <2> HIDE DEF B, I, a, b, P, Below
  <2>5. IsFiniteSet(I) /\ Cardinality(I) = b - a + 1
    BY <2>2, FS_Interval
  <2>6. IsFiniteSet(B \union I)
        /\ Cardinality(B \union I) = Cardinality(B) + Cardinality(I) - Cardinality(B \cap I)
    BY <2>1, <2>5, FS_Union
  <2>7. Cardinality(B \cap I) = 0
    BY <2>4, FS_EmptySet
  <2>8. Cardinality(B) \in Nat
    BY <2>1, FS_CardinalityType
  <2>9. lines[n] = Cardinality(B) + (b - a + 1)
    BY <2>1, <1>4 DEF a, b
  <2>10. Cardinality(B \union I) = Cardinality(B) + (b - a + 1)
    <3> DEFINE c == Cardinality(B)
               d == Cardinality(I)
               u == Cardinality(B \union I)
               i == Cardinality(B \cap I)
    <3>1. u = c + d - i /\ i = 0 /\ c \in Nat /\ d = b - a + 1
      BY <2>5, <2>6, <2>7, <2>8
    <3> HIDE DEF c, d, u, i
    <3>2. u = c + (b - a + 1)
      BY <3>1, <2>2
    <3>3. QED
      BY <3>2 DEF c, u
  <2>11. n \in 0..N
    BY <1>1
  <2>12. QED
    BY <2>3, <2>6, <2>9, <2>10, <2>11 DEF P
<1> HIDE DEF P
<1>7. \A n \in 0..N : n \in P
  BY <1>1, <1>5, <1>6, FromTheStart
<1>8. N \in P
  BY <1>7, <1>1
<1>9. LinesIn(r) = Below(N)
  <2>1. \A x : x \in LinesIn(r) <=> \E i \in 1..N : x \in LinesOf(r[i])
    BY <1>1, LinesInIs DEF N
  <2>2. \A i \in 1..N : LinesOf(r[i]) \subseteq Nat
    BY <1>1 DEF LinesOf
  <2>3. QED
    BY <2>1, <2>2
<1>10. QED
  BY <1>8, <1>9, <1>2 DEF P

(* A file is said to be covered only if every line of it is in the ranges. *)
THEOREM CoverageIsWhole ==
    ASSUME NEW S \in SUBSET SpanT, IsFiniteSet(S), NEW total \in Nat,
           \A s \in S : 1 <= s.first /\ s.first <= s.last /\ s.last <= total
    PROVE  /\ LinesIn(MergedRanges(S)) = UNION {LinesOf(s) : s \in S}
           /\ CompleteCoverage(MergedRanges(S), total) =>
                 1..total \subseteq LinesIn(MergedRanges(S))
<1> DEFINE r == MergedRanges(S)
           T == 1..total
           L == LinesIn(r)
<1>1. Apart(r) /\ L = UNION {LinesOf(s) : s \in S}
  BY MergedRangesHold
<1>2. L \subseteq T
  <2>1. \A s \in S : s.first \in Nat /\ s.last \in Nat
    BY DEF SpanT
  <2>2. \A s \in S : LinesOf(s) \subseteq T
    BY <2>1 DEF LinesOf
  <2> HIDE DEF T, L
  <2>3. QED
    BY <1>1, <2>2
<1>3. IsFiniteSet(T) /\ Cardinality(T) = total
  <2>1. 1 \in Int /\ total \in Int /\ (1 > total => total = 0)
    OBVIOUS
  <2> DEFINE c == Cardinality(T)
  <2>2. IsFiniteSet(T) /\ c = IF 1 > total THEN 0 ELSE total - 1 + 1
    BY <2>1, FS_Interval
  <2> HIDE DEF c
  <2>3. c = total
    BY <2>1, <2>2
  <2>4. QED
    BY <2>2, <2>3 DEF c
<1> HIDE DEF r, T
<1>4. IsFiniteSet(L) /\ MaterializedLines(r) = Cardinality(L)
  BY <1>1, LinesAddUp
<1> HIDE DEF L
<1>5. ASSUME CompleteCoverage(r, total)
      PROVE  T \subseteq L
  <2>1. Cardinality(L) >= total
    BY <1>4, <1>5 DEF CompleteCoverage
  <2>2. Cardinality(L) \in Nat /\ Cardinality(L) <= Cardinality(T)
        /\ (Cardinality(T) = Cardinality(L) => T = L)
    BY <1>2, <1>3, <1>4, FS_Subset, FS_CardinalityType
  <2>3. QED
    BY <2>1, <2>2, <1>3
<1>6. QED
  BY <1>1, <1>5 DEF L, T, r

(* A sequence of all of a set has its members, and its first k are k.      *)
LEMMA ListIsAll ==
    ASSUME NEW S, NEW R, NEW seq, Lists(seq, S, R)
    PROVE  seq \in Seq(S) /\ ToSet(seq) = S
<1>1. Len(seq) \in Nat /\ seq \in [1..Len(seq) -> S]
  BY DEF Lists
<1>2. seq \in Seq(S)
  BY <1>1, SeqDef
<1>3. ToSet(seq) = S
  BY <1>1 DEF Lists, ToSet
<1>4. QED
  BY <1>2, <1>3

FirstOf(now, seq, S, k) ==
    /\ Len(now) = k /\ ToSet(now) \subseteq S
    /\ \A x : x \in ToSet(now) <=> \E i \in 1..k : x = seq[i]
    /\ IsFiniteSet(S \ ToSet(now))
    /\ Cardinality(S \ ToSet(now)) = Cardinality(S) - k

LEMMA FirstOfList ==
    ASSUME NEW S, IsFiniteSet(S), NEW R, Orders(R, S), NEW seq, Lists(seq, S, R),
           NEW k \in 0..Cardinality(S)
    PROVE  FirstOf(SubSeq(seq, 1, k), seq, S, k)
<1> DEFINE now == SubSeq(seq, 1, k)
           N == Cardinality(S)
           T == ToSet(now)
           f == [i \in 1..k |-> seq[i]]
<1>1. N \in Nat /\ k \in Nat /\ k <= N /\ seq \in [1..N -> S] /\ Len(seq) = N
  BY DEF Lists
<1>2. seq \in Seq(S)
  BY ListIsAll
<1>3. \A i \in 1..k : i \in 1..N
  BY <1>1
<1>4. Len(now) = k /\ \A i \in 1..k : now[i] = seq[i]
  <2>1. 1 \in Int /\ k \in Int /\ \A i \in 1..k : seq[i] \in S
    BY <1>1, <1>3
  <2>2. /\ now \in Seq(S)
        /\ Len(now) = IF 1 <= k THEN k - 1 + 1 ELSE 0
        /\ \A i \in 1..k - 1 + 1 : now[i] = seq[1 + i - 1]
    BY <2>1, SubSeqProperties
  <2> HIDE DEF now
  <2>3. Len(now) = k
    BY <2>2, <1>1
  <2>4. \A i \in 1..k : i \in 1..k - 1 + 1 /\ 1 + i - 1 = i
    BY <1>1
  <2>5. QED
    BY <2>2, <2>3, <2>4
<1>5. now \in Seq(S)
  <2>1. 1 \in Int /\ k \in Int /\ \A i \in 1..k : seq[i] \in S
    BY <1>1, <1>3
  <2>2. QED
    BY <2>1, SubSeqProperties
<1> HIDE DEF now, N
<1>6. \A x : x \in T <=> \E i \in 1..k : x = seq[i]
  <2>1. DOMAIN now = 1..k
    BY <1>4, <1>5
  <2>2. QED
    BY <2>1, <1>4 DEF ToSet
<1>7. T \subseteq S
  BY <1>1, <1>3, <1>6
<1>8. \A i \in 1..k, j \in 1..k : seq[i] = seq[j] => i = j
  <2> TAKE i \in 1..k, j \in 1..k
  <2> HAVE seq[i] = seq[j]
  <2>1. i \in 1..N /\ j \in 1..N /\ seq[i] \in S
    BY <1>1, <1>3
  <2>2. <<seq[i], seq[j]>> \notin R /\ <<seq[j], seq[i]>> \notin R
    BY <2>1 DEF Orders
  <2>3. ~(i < j) /\ ~(j < i)
    BY <2>1, <2>2 DEF Lists, N
  <2>4. QED
    BY <2>3
<1> HIDE DEF T
<1>9. f \in Bijection(1..k, T)
  <2>1. f \in [1..k -> T] /\ \A t \in T : \E i \in 1..k : f[i] = t
    BY <1>6
  <2>2. \A i \in 1..k, j \in 1..k : f[i] = f[j] => i = j
    BY <1>8
  <2> HIDE DEF f
  <2>3. f \in Injection(1..k, T) /\ f \in Surjection(1..k, T)
    BY <2>1, <2>2 DEF Injection, Surjection, IsInjective
  <2>4. QED
    BY <2>3 DEF Bijection
<1>10. IsFiniteSet(T) /\ Cardinality(T) = k
  <2>1. IsFiniteSet(1..k) /\ Cardinality(1..k) = k
    BY <1>1, FS_Interval
  <2> HIDE DEF f
  <2>2. IsFiniteSet(T) /\ Cardinality(T) = Cardinality(1..k)
    <3>1. IsFiniteSet(T)
      BY <1>7, FS_Subset
    <3>2. QED
      BY <1>9, <2>1, <3>1, FS_Bijection DEF ExistsBijection
  <2>3. QED
    BY <2>1, <2>2
<1>11. IsFiniteSet(S \ T) /\ Cardinality(S \ T) = N - k
  <2>1. S \cap T = T
    BY <1>7
  <2>2. IsFiniteSet(S \ T)
        /\ Cardinality(S \ T) = Cardinality(S) - Cardinality(S \cap T)
    BY FS_Difference
  <2>3. QED
    BY <2>1, <2>2, <1>10 DEF N
<1>12. QED
  BY <1>4, <1>6, <1>7, <1>11 DEF now, T, N, FirstOf

(* The ranges of several files in the two orders: round by round, and file *)
(* by file.                                                                *)
InRounds(S) ==
    {p \in S \X S : \/ p[1][2] < p[2][2]
                    \/ p[1][2] = p[2][2] /\ p[1][1] < p[2][1]}

InFiles(S) ==
    {p \in S \X S : \/ p[1][1] < p[2][1]
                    \/ p[1][1] = p[2][1] /\ p[1][2] < p[2][2]}

LEMMA OrdersOfRanges ==
    ASSUME NEW S \in SUBSET (Nat \X Nat)
    PROVE  Orders(InRounds(S), S) /\ Orders(InFiles(S), S)
<1>1. \A x \in S : x[1] \in Nat /\ x[2] \in Nat /\ x = <<x[1], x[2]>>
  OBVIOUS
<1>2. \A x \in S, y \in S : x[1] = y[1] /\ x[2] = y[2] => x = y
  BY <1>1
<1>3. \A x \in S, y \in S :
          /\ <<x, y>> \in InRounds(S) <=> x[2] < y[2] \/ (x[2] = y[2] /\ x[1] < y[1])
          /\ <<x, y>> \in InFiles(S) <=> x[1] < y[1] \/ (x[1] = y[1] /\ x[2] < y[2])
  BY DEF InRounds, InFiles
<1>4. QED
  BY <1>1, <1>2, <1>3 DEF Orders

LEMMA ByFileIsAll ==
    ASSUME NEW S \in SUBSET (Nat \X Nat), IsFiniteSet(S)
    PROVE  Lists(ByFile(S), S, InFiles(S))
<1> DEFINE Precedes(a, b) == a[1] < b[1] \/ (a[1] = b[1] /\ a[2] < b[2])
           seq == ByFile(S)
           N == Cardinality(S)
           R == InFiles(S)
<1>1. seq = [k \in 1..N |-> CHOOSE x \in S : Cardinality({y \in S : Precedes(y, x)}) = k - 1]
  BY DEF ByFile, Ordered
<1>2. seq = [k \in 1..N |-> seq[k]]
  BY <1>1
<1>3. \A x \in S : {y \in S : Precedes(y, x)} = Under(S, R, x)
  BY DEF Under, InFiles
<1> HIDE DEF R, seq, Precedes
<1>4. \A k \in 1..N, x \in S : Cardinality(Under(S, R, x)) = k - 1 =>
             seq[k] \in S /\ Cardinality(Under(S, R, seq[k])) = k - 1
  <2> TAKE k \in 1..N, x \in S
  <2> HAVE Cardinality(Under(S, R, x)) = k - 1
  <2>1. seq[k] = CHOOSE z \in S : Cardinality({y \in S : Precedes(y, z)}) = k - 1
    BY <1>1
  <2>2. Cardinality({y \in S : Precedes(y, x)}) = k - 1
    BY <1>3
  <2>3. seq[k] \in S /\ Cardinality({y \in S : Precedes(y, seq[k])}) = k - 1
    BY <2>1, <2>2
  <2>4. QED
    BY <2>3, <1>3
<1>5. Orders(R, S)
  BY OrdersOfRanges DEF R
<1>6. Lists(seq, S, R)
  BY <1>2, <1>4, <1>5, RankingLists
<1>7. QED
  BY <1>6 DEF seq, R

LEMMA RoundsAreAll ==
    ASSUME NEW counts, RangesFound(counts) \in SUBSET (Nat \X Nat),
           IsFiniteSet(RangesFound(counts))
    PROVE  Lists(Rounds(counts), RangesFound(counts), InRounds(RangesFound(counts)))
<1> DEFINE S == RangesFound(counts)
           Precedes(a, b) == a[2] < b[2] \/ (a[2] = b[2] /\ a[1] < b[1])
           seq == Rounds(counts)
           N == Cardinality(S)
           R == InRounds(S)
<1>1. seq = [k \in 1..N |-> CHOOSE x \in S : Cardinality({y \in S : Precedes(y, x)}) = k - 1]
  BY DEF Rounds, Ordered
<1>2. seq = [k \in 1..N |-> seq[k]]
  BY <1>1
<1>3. \A x \in S : {y \in S : Precedes(y, x)} = Under(S, R, x)
  BY DEF Under, InRounds
<1>4. Orders(R, S)
  BY OrdersOfRanges
<1> HIDE DEF R, seq, Precedes, S
<1>5. \A k \in 1..N, x \in S : Cardinality(Under(S, R, x)) = k - 1 =>
             seq[k] \in S /\ Cardinality(Under(S, R, seq[k])) = k - 1
  <2> TAKE k \in 1..N, x \in S
  <2> HAVE Cardinality(Under(S, R, x)) = k - 1
  <2>1. seq[k] = CHOOSE z \in S : Cardinality({y \in S : Precedes(y, z)}) = k - 1
    BY <1>1
  <2>2. Cardinality({y \in S : Precedes(y, x)}) = k - 1
    BY <1>3
  <2>3. seq[k] \in S /\ Cardinality({y \in S : Precedes(y, seq[k])}) = k - 1
    BY <2>1, <2>2
  <2>4. QED
    BY <2>3, <1>3
<1>6. IsFiniteSet(S)
  BY DEF S
<1>7. Lists(seq, S, R)
  BY <1>2, <1>4, <1>5, <1>6, RankingLists
<1>8. QED
  BY <1>7 DEF seq, R, S

(* A page and its continuation split the ranges found, and no file has two *)
(* in the page while another that has one has none.                        *)
THEOREM PagesAreDiverse ==
    ASSUME NEW F \in Nat, NEW K \in Nat, NEW counts \in [1..F -> 0..K], NEW page \in Nat
    PROVE  LET now == Materialized(counts, page) IN
           /\ ToSet(now) \union ToSet(Remaining(counts, page)) = ToSet(InFileOrder(counts))
           /\ Len(now) + Len(Remaining(counts, page)) = Len(InFileOrder(counts))
           /\ (\E r \in ToSet(now) : r[2] > 1) =>
                 \A f \in DOMAIN counts : counts[f] > 0 => <<f, 1>> \in ToSet(now)
<1> DEFINE S == RangesFound(counts)
           N == Cardinality(S)
           R == InRounds(S)
           all == Rounds(counts)
           k == Min({page, N})
           now == Materialized(counts, page)
           left == S \ ToSet(now)
           rest == Remaining(counts, page)
           whole == InFileOrder(counts)
<1>1. /\ S \in SUBSET ((1..F) \X (1..K))
      /\ \A f \in 1..F : counts[f] > 0 => <<f, 1>> \in S
  <2>1. \A f \in 1..F : counts[f] \in 0..K
    OBVIOUS
  <2>2. \A f \in 1..F : 1..counts[f] \subseteq 1..K
    BY <2>1
  <2>3. \A x \in S : \E f \in 1..F : \E d \in 1..counts[f] : x = <<f, d>>
    BY DEF RangesFound
  <2>4. \A f \in 1..F : \A d \in 1..counts[f] : <<f, d>> \in S
    BY DEF RangesFound
  <2>5. \A f \in 1..F : counts[f] > 0 => 1 \in 1..counts[f]
    BY <2>1
  <2> HIDE DEF S
  <2>6. QED
    BY <2>2, <2>3, <2>4, <2>5
<1>2. S \in SUBSET (Nat \X Nat) /\ IsFiniteSet(S) /\ N \in Nat
  <2>1. IsFiniteSet(1..F) /\ IsFiniteSet(1..K)
    BY FS_Interval
  <2>2. IsFiniteSet((1..F) \X (1..K))
    BY <2>1, FS_Product
  <2> HIDE DEF S
  <2>3. IsFiniteSet(S)
    BY <2>2, <1>1, FS_Subset
  <2>4. (1..F) \X (1..K) \subseteq Nat \X Nat
    OBVIOUS
  <2>5. QED
    BY <2>3, <2>4, <1>1, FS_CardinalityType
<1>3. Lists(all, S, R) /\ Orders(R, S)
  BY <1>2, RoundsAreAll, OrdersOfRanges
<1>4. Len(all) = N /\ \A x \in S : \E i \in 1..N : all[i] = x
  BY <1>3 DEF Lists
<1>5. now = SubSeq(all, 1, k)
  BY <1>4 DEF Materialized
<1>6. k \in 0..N /\ k \in Nat
  <2>1. \A x \in Nat, y \in Nat : Min({x, y}) = IF x <= y THEN x ELSE y
    BY DEF Min
  <2> HIDE DEF N
  <2>2. QED
    BY <2>1, <1>2
<1>7. Lists(whole, S, InFiles(S))
  BY <1>2, ByFileIsAll DEF InFileOrder
<1>8. rest = ByFile(left)
  BY DEF Remaining
<1> HIDE DEF S, R, all, k, now, whole, rest
<1>9. /\ Len(now) = k /\ ToSet(now) \subseteq S
      /\ \A x : x \in ToSet(now) <=> \E i \in 1..k : x = all[i]
      /\ IsFiniteSet(left) /\ Cardinality(left) = N - k
  <2>1. k \in 0..Cardinality(S) /\ IsFiniteSet(S) /\ Lists(all, S, R) /\ Orders(R, S)
    BY <1>2, <1>3, <1>6 DEF N
  <2>2. FirstOf(now, all, S, k)
    BY <2>1, <1>5, FirstOfList
  <2>3. QED
    BY <2>2 DEF FirstOf, N
<1>10. Lists(rest, left, InFiles(left))
  <2>1. left \in SUBSET (Nat \X Nat)
    BY <1>2
  <2> HIDE DEF left
  <2>2. QED
    BY <2>1, <1>8, <1>9, ByFileIsAll
<1>11. ToSet(whole) = S /\ ToSet(rest) = left
  BY <1>7, <1>10, ListIsAll
<1>12. Len(whole) = N /\ Len(rest) = N - k
  BY <1>7, <1>9, <1>10 DEF Lists
<1>13. ToSet(now) \union ToSet(rest) = ToSet(whole)
  BY <1>9, <1>11
<1>14. Len(now) + Len(rest) = Len(whole)
  BY <1>2, <1>6, <1>9, <1>12
<1>15. ASSUME NEW r \in ToSet(now), r[2] > 1, NEW f \in DOMAIN counts, counts[f] > 0
       PROVE  <<f, 1>> \in ToSet(now)
  <2> DEFINE first == <<f, 1>>
  <2>1. first \in S /\ r \in S /\ first[2] = 1
    BY <1>1, <1>9, <1>15
  <2>2. r[2] \in Nat
    BY <2>1, <1>2
  <2>3. <<first, r>> \in R
    BY <2>1, <2>2, <1>15 DEF R, InRounds
  <2> HIDE DEF first
  <2>4. PICK j \in 1..N : all[j] = first
    BY <2>1, <1>4
  <2>5. PICK i \in 1..k : r = all[i]
    BY <1>9
  <2>6. i \in 1..N /\ i \in Nat /\ j \in Nat
    BY <1>6, <1>2
  <2>7. <<r, first>> \notin R /\ r # first
    BY <2>1, <2>3, <1>3 DEF Orders
  <2>8. ~(i < j) /\ i # j
    BY <2>4, <2>5, <2>6, <2>7, <1>3 DEF Lists
  <2>9. j \in 1..k
    BY <2>4, <2>6, <2>8, <1>6
  <2>10. QED
    BY <2>4, <2>9, <1>9 DEF first
<1>16. QED
  BY <1>13, <1>14, <1>15 DEF now, rest, whole

(* The pages after the first are spans, and hold every line that remains.  *)
THEOREM PagesHoldTheRest ==
    ASSUME NEW shown \in Nat, NEW end \in Nat
    PROVE  /\ PagesAfter(shown, end) \in Seq(SpanT)
           /\ (end <= shown) => PagesAfter(shown, end) = <<>>
           /\ \A l \in (shown + 1)..end :
                 \E s \in ToSet(PagesAfter(shown, end)) : l \in LinesOf(s)
<1> USE RangesAssumption
<1> DEFINE P == PageLines
           count == (end - shown + P - 1) \div P
           pages == PagesAfter(shown, end)
<1>1. P \in Nat /\ P > 0
  OBVIOUS
<1>2. ASSUME NEW a \in Nat
      PROVE  /\ a \div P \in Nat
             /\ (a \div P) * P <= a
             /\ a < (a \div P) * P + P
  BY <1>1
<1>3. CASE end <= shown
  <2>1. pages = <<>>
    BY <1>3, <1>1 DEF PagesAfter
  <2>2. (shown + 1)..end = {}
    BY <1>3
  <2>3. QED
    BY <2>1, <2>2
<1>4. CASE end > shown
  <2>1. count \in Nat
    BY <1>4, <1>1, <1>2
  <2>2. pages = [k \in 1..count |-> Span(shown + 1 + (k - 1) * P,
                                         Min({end, shown + k * P}))]
    BY <1>4 DEF PagesAfter
  <2> HIDE DEF P
  <2>3. \A k \in 1..count : /\ k * P \in Nat /\ (k - 1) * P \in Nat
                            /\ k * P = (k - 1) * P + P
    BY <1>1, <2>1
  <2>4. \A x \in Nat, y \in Nat : Min({x, y}) = IF x <= y THEN x ELSE y
    BY DEF Min
  <2>5. \A k \in 1..count : pages[k] \in SpanT
    <3> TAKE k \in 1..count
    <3>1. pages[k] = Span(shown + 1 + (k - 1) * P, Min({end, shown + k * P}))
      BY <2>2
    <3>2. QED
      BY <3>1, <2>3, <2>4 DEF Span, SpanT
  <2>6. pages \in Seq(SpanT)
    <3>1. pages = [k \in 1..count |-> pages[k]]
      BY <2>2
    <3> HIDE DEF pages, count
    <3>2. QED
      BY <3>1, <2>1, <2>5, SMTT(240)
  <2>7. ASSUME NEW l \in (shown + 1)..end
        PROVE  \E s \in ToSet(pages) : l \in LinesOf(s)
    <3> DEFINE q == (l - shown - 1) \div P
    <3>1. q \in Nat /\ q * P <= l - shown - 1 /\ l - shown - 1 < q * P + P
      BY <1>2
    <3>2. q + 1 <= count
      <4>1. /\ count * P <= end - shown + P - 1
            /\ end - shown + P - 1 < count * P + P
        BY <1>2, <1>1, <1>4
      <4> HIDE DEF q, count
      <4>2. q * P < count * P
        BY <3>1, <4>1, <1>1, <2>1
      <4>3. q < count
        BY <4>2, <3>1, <2>1, <1>1
      <4>4. QED
        BY <4>3, <3>1, <2>1
    <3> HIDE DEF q, count
    <3>3. q + 1 \in 1..count /\ q + 1 \in DOMAIN pages
      BY <3>1, <3>2, <2>1, <2>2
    <3>4. (q + 1) * P = q * P + P /\ q * P \in Nat
      BY <3>1, <1>1
    <3>5. pages[q + 1] = Span(shown + 1 + q * P, Min({end, shown + (q + 1) * P}))
      BY <3>3, <2>2, <3>1
    <3>6. l \in LinesOf(pages[q + 1])
      BY <3>5, <3>4, <3>1, <2>4, <1>1 DEF LinesOf, Span
    <3>7. QED
      BY <3>6, <3>3 DEF ToSet
  <2>8. QED
    BY <2>6, <2>7, <1>4
<1>5. QED
  BY <1>3, <1>4
-------------------------------------------------------------------------------
(* The invariant.  What everything is.                                     *)
Tools == {"read", "search", "find", "tree"}
Caps  == Tools \union {"continue", "write"}
Rev   == Revisions \union Listings
Bodies == Rev \union {NoBody}

MaterialT == [cap : Caps, of : {"file", "facts"}, from : SUBSET Caps, span : SpanT,
              rev : Rev, epoch : Nat, token : Nat, body : Bodies]
SnapshotT == [cap : Tools, items : Seq(SpanT), rev : Rev, epoch : Nat]
HandleT   == {h \in [snapshot : SnapshotT, offset : Nat] :
                 h.offset < Len(h.snapshot.items)}
FrontierT == [handle : HandleT, epoch : Nat, status : {"open", "consumed", "stale"}]
RequestT  == [path : {"", "file", "secret"}, span : SpanT]
EntryT    == [cap : Caps, request : RequestT, epoch : Nat, materials : SUBSET Nat,
              frontiers : SUBSET Nat, token : Nat, examined : SpanT,
              revision : Bodies, refused : BOOLEAN, turn : Nat]
LedgerT   == [entries : SUBSET EntryT, handles : SUBSET HandleT,
              snapshots : SUBSET SnapshotT, frontiers : Seq(FrontierT),
              materials : Seq(MaterialT)]

Pcs     == {"idle", "prove", "before", "look", "show", "bind", "walk", "after"}
Results == {"none", "ok", "failed", "refused", "revised"}

OpTyped ==
    op \in [cap : Caps \union {"none"}, request : RequestT, pc : Pcs,
            prev : {op.prev}, left : SUBSET Nat, pre : Nat, seen : {op.seen},
            found : Seq(SpanT), page : SUBSET MaterialT, rest : SUBSET SnapshotT,
            examined : SpanT, result : Results]

(* A ledger in itself: a handle keeps its snapshot, and no two frontiers   *)
(* are open on one handle.                                                 *)
LedgerHolds(l, ep) ==
    /\ l \in LedgerT /\ IsFiniteSet(l.entries)
    /\ \A i \in DOMAIN l.materials :
          /\ l.materials[i].epoch <= ep
          /\ l.materials[i].body \in {NoBody, l.materials[i].rev}
    /\ \A e \in l.entries : /\ e.epoch <= ep
                            /\ e.materials \subseteq DOMAIN l.materials
                            /\ e.refused => e.request.path = "secret"
    /\ \A h \in l.handles : h.snapshot \in l.snapshots
    /\ \A i \in DOMAIN l.frontiers :
          l.frontiers[i].epoch = l.frontiers[i].handle.snapshot.epoch
    /\ \A i \in DOMAIN l.frontiers, j \in DOMAIN l.frontiers :
          /\ l.frontiers[i].status = "open" /\ l.frontiers[j].status = "open"
          /\ l.frontiers[i].handle = l.frontiers[j].handle
          => i = j

ToldBy(l, ep, cap, world) ==
    UNION {LinesOf(m.span) : m \in {m \in ToSet(l.materials) :
        cap \in m.from /\ m.epoch = ep /\ m.rev = RevOf(cap, world)}}

AheadBy(l, ep, cap, world) ==
    UNION {LinesOf(s) : s \in UNION {ToSet(ItemsBehind(f.handle)) :
        f \in {f \in ToSet(l.frontiers) :
            /\ f.status = "open" /\ f.epoch = ep
            /\ f.handle.snapshot.cap = cap
            /\ f.handle.snapshot.rev = RevOf(cap, world)
            /\ HandleError(l, f.handle, ep) = "none"}}}

Reached(l, ep, cap, world) == ToldBy(l, ep, cap, world) \union AheadBy(l, ep, cap, world)

(* A ledger and the files: what carries the token of the tree as it is is  *)
(* true of the files as they are, and complete.                            *)
EntryFresh(l, ep, e, world) ==
    /\ \A i \in e.materials : l.materials[i].rev = RevOf(e.cap, world)
    /\ e.epoch = ep =>
         /\ Scope(e.cap, e.request, world) \subseteq Reached(l, ep, e.cap, world)
         /\ e.cap = "read" /\ e.examined.last > 0 =>
              LinesOf(e.examined) \subseteq ToldBy(l, ep, "read", world)

LedgerFresh(l, ep, world, now) ==
    /\ \A i \in DOMAIN l.materials :
          /\ l.materials[i].token <= now
          /\ l.materials[i].token = now /\ HasToken(l.materials[i].cap) =>
                l.materials[i].rev = RevOf(l.materials[i].cap, world)
    /\ \A e \in l.entries :
          /\ e.token <= now
          /\ e.token = now /\ HasToken(e.cap) => EntryFresh(l, ep, e, world)

(* The operation under way: what it has read so far.                       *)
LinesShown(page) == UNION {LinesOf(m.span) : m \in page}
LinesLeft(rest)  == UNION {LinesOf(s) : s \in UNION {ToSet(r.items) : r \in rest}}

PageLinesRead == LinesShown(op.page)
RestLines     == LinesLeft(op.rest)

OpHolds ==
    /\ OpTyped /\ op.pre <= writes
    /\ op.pc # "idle" => answer.what = "none"
    /\ op.pc = "look" => op.page = {} /\ op.rest = {} /\ op.examined = Span(0, 0)
    /\ op.pc \in {"idle", "prove", "before"} =>
          op.page = {} /\ op.rest = {} /\ op.examined = Span(0, 0)
    /\ op.pc # "idle" => op.cap # "none"
    /\ op.pc = "prove" => op.left \subseteq DOMAIN ledger.materials
    /\ op.pc \in {"show", "bind"} /\ op.cap # "continue" => op.found # <<>>
    /\ op.pc = "bind" => Len(op.found) # 1
    /\ op.result = "refused" => op.cap = "read" /\ op.request.path = "secret"
    /\ \A m \in op.page :
          /\ m.cap = op.cap /\ m.epoch = epoch /\ m.body = m.rev
          /\ op.cap \in Tools => m.from = {op.cap}
          /\ op.page = {m}
    /\ \A s \in op.rest :
          s.cap = op.cap /\ s.epoch = epoch /\ s.items # <<>> /\ op.rest = {s}

(* Nobody has written since the token of the operation was read.           *)
OpFresh ==
    op.pre = writes /\ HasToken(op.cap) =>
        /\ \A m \in op.page : m.rev = RevOf(op.cap, World)
        /\ \A s \in op.rest : s.rev = RevOf(op.cap, World)
        /\ op.cap = "search" /\ op.pc \in {"show", "bind"} =>
              op.found = GroupAllSearchRanges(Matched[file])
        /\ op.pc = "bind" =>
              LinesOf(Head(op.found)) \intersect (1..Lines[file]) \subseteq PageLinesRead
        /\ op.cap = "find" /\ op.pc = "show" => op.found = Places /\ Len(Places) = 1
        /\ op.pc = "walk" => 1 \in PageLinesRead
        /\ op.pc = "after" /\ Reusable =>
              Scope(op.cap, op.request, World) \subseteq PageLinesRead \union RestLines
        /\ op.pc = "after" /\ op.cap = "read" /\ op.examined.last > 0 =>
              LinesOf(op.examined) \subseteq PageLinesRead

(* The cursor continued stays what it was; and if something in the ledger  *)
(* is fresh, nobody has written since it was compared with the file.       *)
Continuing == \/ op.pc = "show"
              \/ op.pc = "after" /\ op.result \in {"ok", "revised"}

SomethingFresh == \E e \in ledger.entries : e.token = writes

CursorHolds ==
    op.cap = "continue" /\ Continuing =>
        /\ CursorError = "none" /\ op.rest = {}
        /\ op.pc = "show" => Cursor.snapshot.cap \in {"read", "search"}
        /\ \A m \in op.page : m.from = {Cursor.snapshot.cap}
        /\ op.result = "revised" => op.page = {}
        /\ SomethingFresh =>
             /\ op.pc = "show" => Cursor.snapshot.rev = file
             /\ op.pc = "after" /\ op.result = "revised" =>
                   /\ Cursor.snapshot.cap # "tree" /\ Cursor.snapshot.rev # file
             /\ op.pc = "after" /\ op.result = "ok"
                /\ Cursor.snapshot.rev = RevOf(Cursor.snapshot.cap, World) =>
                   /\ \A m \in op.page : m.rev = Cursor.snapshot.rev
                   /\ \A l \in LinesOf(Item) :
                        (Cursor.snapshot.cap \in {"read", "search"} => l <= Lines[file])
                           => l \in PageLinesRead

(* A replay that is being proved.                                          *)
ProofHolds ==
    op.pc = "prove" /\ HasToken(op.cap) =>
        \E w \in op.seen :
            /\ \A e \in op.prev : \A i \in e.materials :
                  ledger.materials[i].rev = RevOf(op.cap, w)
            /\ Scope(op.cap, op.request, w) \subseteq Reached(ledger, epoch, op.cap, w)

CountsHold ==
    /\ SourceTypeOK /\ epoch \in Nat /\ epoch <= effects
    /\ saved.epoch \in Nat /\ saved.epoch <= effects
    /\ effects \in 0..MaxEffects /\ ops \in 0..MaxOps /\ kills \in 0..MaxKills

(* What is recalled, of the tools that have a proof, is what the files     *)
(* hold.                                                                   *)
RecallIsProved ==
    (answer.what = "recall" /\ answer.current) =>
        \A i \in answer.materials :
            /\ HasToken(answer.cap) =>
                  \A w \in answer.seen : ledger.materials[i].rev = RevOf(answer.cap, w)
            /\ ledger.materials[i].body \in {NoBody, ledger.materials[i].rev}

ObservationIInv ==
    /\ CountsHold
    /\ LedgerHolds(ledger, epoch) /\ LedgerFresh(ledger, epoch, World, writes)
    /\ saved = [ledger |-> saved.ledger, epoch |-> saved.epoch, moments |-> saved.moments]
    /\ LedgerHolds(saved.ledger, saved.epoch)
    /\ LedgerFresh(saved.ledger, saved.epoch, World, writes)
    /\ OpHolds /\ OpFresh /\ CursorHolds /\ ProofHolds
    /\ RecallIsProved /\ ReplayIsCurrent

-------------------------------------------------------------------------------
(* The operators of the ledger.                                            *)

(* What lies behind a handle, and the page it stands for.                  *)
LEMMA BehindIs ==
    ASSUME NEW h \in HandleT
    PROVE  /\ ToSet(ItemsBehind(h)) =
                {h.snapshot.items[k] : k \in (h.offset + 1)..Len(h.snapshot.items)}
           /\ PageOf(h, 1)[1] = h.snapshot.items[h.offset + 1]
           /\ PageOf(h, 1)[1] \in SpanT
<1> DEFINE items == h.snapshot.items
           k == h.offset
           N == Len(items)
<1>1. items \in Seq(SpanT) /\ k \in Nat /\ N \in Nat /\ k < N
  BY DEF HandleT, SnapshotT
<1>2. \A i \in 1..N : items[i] \in SpanT
  <2> HIDE DEF items
  <2>1. QED
    BY <1>1
<1>3. ItemsBehind(h) = SubSeq(items, k + 1, N)
  BY DEF ItemsBehind
<1>4. PageOf(h, 1) = SubSeq(items, k + 1, k + 1)
  <2>1. Min({k + 1, N}) = k + 1
    <3> HIDE DEF k, N
    <3>1. QED
      BY <1>1 DEF Min
  <2>2. QED
    BY <2>1 DEF PageOf
<1> HIDE DEF items, k, N
<1>5. /\ Len(SubSeq(items, k + 1, N)) = N - k
      /\ SubSeq(items, k + 1, N) \in Seq(SpanT)
      /\ \A i \in 1..N - k : SubSeq(items, k + 1, N)[i] = items[k + i]
  <2>1. k + 1 \in Int /\ N \in Int /\ \A i \in k + 1..N : items[i] \in SpanT
    BY <1>1, <1>2
  <2> DEFINE m == k + 1
  <2> HIDE DEF m
  <2>2. /\ SubSeq(items, m, N) \in Seq(SpanT)
        /\ Len(SubSeq(items, m, N)) = IF m <= N THEN N - m + 1 ELSE 0
        /\ \A i \in 1..N - m + 1 : SubSeq(items, m, N)[i] = items[m + i - 1]
    BY <2>1, SubSeqProperties DEF m
  <2>3. m <= N /\ N - m + 1 = N - k /\ \A i \in Int : m + i - 1 = k + i
    BY <1>1 DEF m
  <2>4. QED
    BY <2>2, <2>3 DEF m
<1>6. SubSeq(items, k + 1, k + 1)[1] = items[k + 1]
  <2>1. k + 1 \in Int /\ items[k + 1] \in SpanT
    BY <1>1, <1>2
  <2> DEFINE m == k + 1
             n == k + 1
  <2> HIDE DEF m, n
  <2>2. m \in Int /\ n \in Int /\ \A i \in m..n : items[i] \in SpanT
    BY <2>1 DEF m, n
  <2>3. \A i \in 1..n - m + 1 : SubSeq(items, m, n)[i] = items[m + i - 1]
    BY <2>2, SubSeqProperties
  <2>4. 1 \in 1..n - m + 1 /\ m + 1 - 1 = m
    BY <2>1 DEF m, n
  <2>5. QED
    BY <2>3, <2>4 DEF m, n
<1>7. ToSet(ItemsBehind(h)) = {items[i] : i \in k + 1..N}
  <2> DEFINE q == ItemsBehind(h)
  <2>1. q \in Seq(SpanT) /\ Len(q) = N - k /\ \A i \in 1..N - k : q[i] = items[k + i]
    BY <1>3, <1>5
  <2> HIDE DEF q
  <2>2. DOMAIN q = 1..N - k
    BY <2>1
  <2>3. ASSUME NEW i \in 1..N - k PROVE q[i] \in {items[j] : j \in k + 1..N}
    <3>1. k + i \in k + 1..N
      BY <1>1
    <3>2. QED
      BY <3>1, <2>1
  <2>4. ASSUME NEW j \in k + 1..N PROVE items[j] \in {q[i] : i \in 1..N - k}
    <3>1. j - k \in 1..N - k /\ k + (j - k) = j
      BY <1>1
    <3>2. QED
      BY <3>1, <2>1
  <2>5. {q[i] : i \in 1..N - k} = {items[j] : j \in k + 1..N}
    BY <2>3, <2>4
  <2>6. QED
    BY <2>2, <2>5 DEF ToSet, q
<1>8. items[k + 1] \in SpanT
  BY <1>1, <1>2
<1>9. QED
  BY <1>4, <1>6, <1>7, <1>8 DEF items, k, N

(* Registering the material of a page: every material known stays known,   *)
(* for all it was read for, and the one of the page is there.              *)
LEMMA MaterialsStay ==
    ASSUME NEW l \in LedgerT, NEW found \in SUBSET MaterialT,
           \A m \in found : found = {m}
    PROVE  LET r == RegisterMaterialCandidates(l, found) IN
           /\ r \in LedgerT
           /\ r.entries = l.entries /\ r.handles = l.handles
           /\ r.snapshots = l.snapshots /\ r.frontiers = l.frontiers
           /\ DOMAIN l.materials \subseteq DOMAIN r.materials
           /\ \A i \in DOMAIN l.materials :
                 /\ SameMaterial(l.materials[i], r.materials[i])
                 /\ l.materials[i].from \subseteq r.materials[i].from
           /\ \A i \in DOMAIN r.materials :
                 \/ i \in DOMAIN l.materials /\ r.materials[i] = l.materials[i]
                 \/ \E m \in found : /\ SameMaterial(m, r.materials[i])
                                     /\ r.materials[i].token = m.token
                                     /\ r.materials[i].body = m.body
           /\ \A m \in found : \E i \in DOMAIN r.materials :
                 SameMaterial(m, r.materials[i]) /\ m.from \subseteq r.materials[i].from
<1> DEFINE r == RegisterMaterialCandidates(l, found)
           mats == l.materials
           N == Len(mats)
<1>1. l.materials \in Seq(MaterialT) /\ N \in Nat /\ DOMAIN mats = 1..N
  BY DEF LedgerT
<1>2. CASE found = {}
  <2>1. r = l
    BY <1>2 DEF RegisterMaterialCandidates
  <2>2. QED
    BY <2>1, <1>2 DEF SameMaterial
<1>3. CASE found # {}
  <2>1. PICK m \in found : m = CHOOSE x \in found : TRUE
    BY <1>3
  <2>2. found = {m} /\ m \in MaterialT
    BY <2>1
  <2> DEFINE ids == IdsOf(l, found)
  <2>3. CASE ids = {}
    <3>1. r = [l EXCEPT !.materials = Append(@, m)]
      BY <2>1, <2>3, <1>3 DEF RegisterMaterialCandidates
    <3> DEFINE new == Append(mats, m)
    <3>2. new \in Seq(MaterialT) /\ Len(new) = N + 1 /\ new[N + 1] = m
          /\ \A i \in 1..N : new[i] = mats[i]
      BY <2>2, <1>1, AppendProperties
    <3> HIDE DEF new
    <3>3. /\ r.entries = l.entries /\ r.handles = l.handles
          /\ r.snapshots = l.snapshots /\ r.frontiers = l.frontiers
          /\ r.materials = new /\ r \in LedgerT
      BY <3>1, <3>2 DEF LedgerT, new
    <3>4. DOMAIN new = 1..N + 1 /\ N + 1 \in 1..N + 1 /\ 1..N \subseteq 1..N + 1
          /\ \A i \in 1..N + 1 : i \in 1..N \/ i = N + 1
      BY <3>2, <1>1
    <3> HIDE DEF r, N, mats
    <3>5. /\ \A i \in 1..N : SameMaterial(mats[i], new[i])
                             /\ mats[i].from \subseteq new[i].from
          /\ SameMaterial(m, new[N + 1])
      BY <3>2 DEF SameMaterial
    <3>6. \A i \in 1..N + 1 : \/ i \in 1..N /\ new[i] = mats[i]
                              \/ new[i] = m
      BY <3>2, <3>4
    <3>7. \A i \in 1..N + 1 :
             \/ i \in DOMAIN mats /\ new[i] = mats[i]
             \/ \E x \in found : /\ SameMaterial(x, new[i])
                                 /\ new[i].token = x.token /\ new[i].body = x.body
      BY <3>6, <2>2, <1>1 DEF SameMaterial
    <3>8. \A x \in found : \E i \in DOMAIN new :
             SameMaterial(x, new[i]) /\ x.from \subseteq new[i].from
      BY <3>4, <3>5, <3>2, <2>2
    <3>9. QED
      BY <3>3, <3>4, <3>5, <3>7, <3>8, <1>1, Zenon DEF r, mats
  <2>4. CASE ids # {}
    <3>1. PICK old \in ids : old = CHOOSE i \in ids : TRUE
      BY <2>4
    <3>2. old \in 1..N /\ SameMaterial(mats[old], m) /\ mats[old] \in MaterialT
      <4>1. old \in DOMAIN mats /\ \E x \in found : SameMaterial(mats[old], x)
        BY <3>1 DEF IdsOf, MaterialIds
      <4>2. SameMaterial(mats[old], m)
        BY <4>1, <2>2
      <4> HIDE DEF mats
      <4>3. QED
        BY <4>1, <4>2, <1>1 DEF mats
    <3> DEFINE n == [m EXCEPT !.from = m.from \union mats[old].from]
               new == [mats EXCEPT ![old] = n]
    <3>3. r = [l EXCEPT !.materials[old] = n]
      BY <2>1, <2>4, <3>1, <1>3 DEF RegisterMaterialCandidates
    <3>4. /\ n \in MaterialT /\ n.from = m.from \union mats[old].from
          /\ n.token = m.token /\ n.body = m.body
          /\ SameMaterial(mats[old], n) /\ SameMaterial(m, n)
      BY <2>2, <3>2 DEF MaterialT, SameMaterial
    <3> HIDE DEF n
    <3>5. new \in Seq(MaterialT) /\ DOMAIN new = 1..N /\ new[old] = n
          /\ \A i \in 1..N : i # old => new[i] = mats[i]
      BY <3>2, <3>4, <1>1
    <3>6. /\ r.entries = l.entries /\ r.handles = l.handles
          /\ r.snapshots = l.snapshots /\ r.frontiers = l.frontiers
          /\ r.materials = new /\ r \in LedgerT
      <4>1. r = [l EXCEPT !.materials = new]
        BY <3>3
      <4> HIDE DEF new, r
      <4>2. QED
        BY <4>1, <3>5 DEF LedgerT
    <3> HIDE DEF r, N, mats, new
    <3>7. \A i \in 1..N : SameMaterial(mats[i], new[i])
                          /\ mats[i].from \subseteq new[i].from
      <4> TAKE i \in 1..N
      <4>1. CASE i = old
        BY <4>1, <3>4, <3>5
      <4>2. CASE i # old
        BY <4>2, <3>5 DEF SameMaterial
      <4>3. QED
        BY <4>1, <4>2
    <3>8. \A i \in DOMAIN new :
             \/ i \in DOMAIN mats /\ new[i] = mats[i]
             \/ \E x \in found : /\ SameMaterial(x, new[i])
                                 /\ new[i].token = x.token /\ new[i].body = x.body
      <4> TAKE i \in DOMAIN new
      <4>1. CASE i = old
        BY <4>1, <3>4, <3>5
      <4>2. CASE i # old
        BY <4>2, <3>5, <1>1
      <4>3. QED
        BY <4>1, <4>2
    <3>9. \A x \in found : \E i \in DOMAIN new :
             SameMaterial(x, new[i]) /\ x.from \subseteq new[i].from
      BY <3>2, <3>4, <3>5, <2>2
    <3>10. QED
      BY <3>6, <3>5, <3>7, <3>8, <3>9, <1>1, ZenonT(240) DEF r, mats
  <2>5. QED
    BY <2>3, <2>4
<1>4. QED
  BY <1>2, <1>3
(* Nothing but handles and snapshots goes with a released handle; no other *)
(* handle loses its snapshot.                                              *)
LEMMA ReleaseKeeps ==
    ASSUME NEW l \in LedgerT, \A h \in l.handles : h.snapshot \in l.snapshots,
           NEW h
    PROVE  LET r == ReleaseSnapshotHandle(l, h) IN
           /\ r \in LedgerT
           /\ r.entries = l.entries /\ r.materials = l.materials
           /\ r.frontiers = l.frontiers /\ r.handles = l.handles \ {h}
           /\ \A g \in r.handles : g.snapshot \in r.snapshots
<1> DEFINE r == ReleaseSnapshotHandle(l, h)
           left == l.handles \ {h}
           kept == IF \E g \in left : g.snapshot = h.snapshot
                   THEN l.snapshots ELSE l.snapshots \ {h.snapshot}
<1>1. CASE h \notin l.handles
  <2>1. r = l /\ l.handles \ {h} = l.handles
    BY <1>1 DEF ReleaseSnapshotHandle
  <2>2. QED
    BY <2>1
<1>2. CASE h \in l.handles
  <2>1. r = [l EXCEPT !.handles = left, !.snapshots = kept]
    BY <1>2 DEF ReleaseSnapshotHandle
  <2>2. \A g \in left : g.snapshot \in kept
    OBVIOUS
  <2>3. left \subseteq l.handles /\ kept \subseteq l.snapshots
    OBVIOUS
  <2> HIDE DEF r, left, kept
  <2>4. /\ r.handles = left /\ r.snapshots = kept
        /\ r.entries = l.entries /\ r.materials = l.materials
        /\ r.frontiers = l.frontiers /\ r \in LedgerT
    BY <2>1, <2>3 DEF LedgerT
  <2>5. QED
    BY <2>2, <2>4 DEF r, left
<1>3. QED
  BY <1>1, <1>2

(* A handle into a snapshot that is stored.                                *)
LEMMA RegisterKeeps ==
    ASSUME NEW l \in LedgerT, \A h \in l.handles : h.snapshot \in l.snapshots,
           NEW s \in SnapshotT, NEW o \in Nat, o < Len(s.items)
    PROVE  LET r == RegisterSnapshotHandle(l, s, o) IN
           /\ r \in LedgerT
           /\ r.entries = l.entries /\ r.materials = l.materials
           /\ r.frontiers = l.frontiers
           /\ r.handles = l.handles \union {Handle(s, o)}
           /\ Handle(s, o) \in HandleT
           /\ \A g \in r.handles : g.snapshot \in r.snapshots
<1>1. Handle(s, o) \in HandleT /\ Handle(s, o).snapshot = s
  BY DEF Handle, HandleT
<1> DEFINE h == Handle(s, o)
           r == RegisterSnapshotHandle(l, s, o)
<1>2. r = [l EXCEPT !.snapshots = l.snapshots \union {s},
                    !.handles = l.handles \union {h}]
  BY DEF RegisterSnapshotHandle
<1> HIDE DEF h, r
<1>3. /\ r.handles = l.handles \union {h} /\ r.snapshots = l.snapshots \union {s}
      /\ r.entries = l.entries /\ r.materials = l.materials
      /\ r.frontiers = l.frontiers /\ r \in LedgerT
  BY <1>1, <1>2 DEF LedgerT, h
<1>4. QED
  BY <1>1, <1>3 DEF h, r

Marked(l, i, st) == [l EXCEPT !.frontiers[i].status = st]

(* A frontier that is marked.                                              *)
LEMMA MarkKeeps ==
    ASSUME NEW l \in LedgerT, NEW i \in DOMAIN l.frontiers,
           NEW st \in {"consumed", "stale"}
    PROVE  LET r == Marked(l, i, st) IN
           /\ r \in LedgerT
           /\ r.entries = l.entries /\ r.materials = l.materials
           /\ r.handles = l.handles /\ r.snapshots = l.snapshots
           /\ DOMAIN r.frontiers = DOMAIN l.frontiers
           /\ r.frontiers[i].status = st
           /\ \A j \in DOMAIN l.frontiers :
                 /\ r.frontiers[j].handle = l.frontiers[j].handle
                 /\ r.frontiers[j].epoch = l.frontiers[j].epoch
                 /\ j # i => r.frontiers[j] = l.frontiers[j]
<1> DEFINE f == l.frontiers
           marked == [f[i] EXCEPT !.status = st]
           new == [f EXCEPT ![i] = marked]
           r == Marked(l, i, st)
<1>1. f \in Seq(FrontierT) /\ f[i] \in FrontierT
  BY DEF LedgerT
<1>2. /\ marked \in FrontierT /\ marked.status = st
      /\ marked.handle = f[i].handle /\ marked.epoch = f[i].epoch
  <2> DEFINE fi == f[i]
  <2>1. fi \in FrontierT
    BY <1>1
  <2> HIDE DEF fi
  <2>2. /\ [fi EXCEPT !.status = st] \in FrontierT
        /\ [fi EXCEPT !.status = st].status = st
        /\ [fi EXCEPT !.status = st].handle = fi.handle
        /\ [fi EXCEPT !.status = st].epoch = fi.epoch
    BY <2>1 DEF FrontierT
  <2>3. QED
    BY <2>2 DEF fi
<1>3. r = [l EXCEPT !.frontiers = new]
  BY DEF Marked
<1> HIDE DEF marked
<1>4. /\ new \in Seq(FrontierT) /\ DOMAIN new = DOMAIN f /\ new[i] = marked
      /\ \A j \in DOMAIN f : j # i => new[j] = f[j]
  BY <1>1, <1>2
<1> HIDE DEF new, r, f
<1>5. /\ r.entries = l.entries /\ r.materials = l.materials
      /\ r.handles = l.handles /\ r.snapshots = l.snapshots
      /\ r.frontiers = new /\ r \in LedgerT
  BY <1>3, <1>4 DEF LedgerT
<1>6. \A j \in DOMAIN f : /\ new[j].handle = f[j].handle /\ new[j].epoch = f[j].epoch
                          /\ j # i => new[j] = f[j]
  <2> TAKE j \in DOMAIN f
  <2>1. CASE j = i
    BY <2>1, <1>2, <1>4
  <2>2. CASE j # i
    BY <2>2, <1>4
  <2>3. QED
    BY <2>1, <2>2
<1>7. new[i].status = st
  BY <1>2, <1>4
<1>8. QED
  BY <1>4, <1>5, <1>6, <1>7 DEF f, r

(* A frontier on a handle, new or the one that is open.                    *)
LEMMA ExposeKeeps ==
    ASSUME NEW l \in LedgerT, NEW h \in HandleT, NEW ep \in Nat
    PROVE  LET r == ExposeFrontier(l, h, ep) IN
           /\ r \in LedgerT
           /\ r.entries = l.entries /\ r.materials = l.materials
           /\ r.handles = l.handles /\ r.snapshots = l.snapshots
           /\ DOMAIN l.frontiers \subseteq DOMAIN r.frontiers
           /\ \A j \in DOMAIN l.frontiers : r.frontiers[j] = l.frontiers[j]
           /\ \A j \in DOMAIN r.frontiers \ DOMAIN l.frontiers :
                 /\ r.frontiers[j].handle = h /\ OpenFor(l, h) = {}
                 /\ \A k \in DOMAIN r.frontiers \ DOMAIN l.frontiers : k = j
           /\ \E j \in DOMAIN r.frontiers :
                 /\ r.frontiers[j].handle = h /\ r.frontiers[j].status = "open"
                 /\ j \in DOMAIN l.frontiers \/ r.frontiers[j].epoch = ep
<1> DEFINE r == ExposeFrontier(l, h, ep)
           f == l.frontiers
           N == Len(f)
           fresh == [handle |-> h, epoch |-> ep, status |-> "open"]
           new == Append(f, fresh)
<1>1. f \in Seq(FrontierT) /\ N \in Nat /\ DOMAIN f = 1..N /\ fresh \in FrontierT
  BY DEF LedgerT, FrontierT
<1>2. CASE OpenFor(l, h) # {}
  <2>1. r = l
    BY <1>2 DEF ExposeFrontier
  <2>2. QED
    BY <2>1, <1>2 DEF OpenFor, FrontierIds
<1>3. CASE OpenFor(l, h) = {}
  <2>1. r = [l EXCEPT !.frontiers = new]
    BY <1>3 DEF ExposeFrontier
  <2> HIDE DEF fresh
  <2>2. /\ new \in Seq(FrontierT) /\ Len(new) = N + 1 /\ new[N + 1] = fresh
        /\ \A j \in 1..N : new[j] = f[j]
    BY <1>1, AppendProperties
  <2>3. /\ DOMAIN new = 1..N + 1 /\ 1..N \subseteq 1..N + 1 /\ N + 1 \in 1..N + 1
        /\ \A j \in (1..N + 1) \ (1..N) : j = N + 1
    BY <2>2, <1>1
  <2> HIDE DEF new, r, f, N
  <2>4. /\ r.entries = l.entries /\ r.materials = l.materials
        /\ r.handles = l.handles /\ r.snapshots = l.snapshots
        /\ r.frontiers = new /\ r \in LedgerT
    BY <2>1, <2>2 DEF LedgerT
  <2>5. fresh.handle = h /\ fresh.status = "open" /\ fresh.epoch = ep
    BY DEF fresh
  <2>6. \A j \in DOMAIN new \ DOMAIN f :
            /\ new[j].handle = h /\ OpenFor(l, h) = {}
            /\ \A k \in DOMAIN new \ DOMAIN f : k = j
    BY <2>2, <2>3, <2>5, <1>1, <1>3
  <2>7. \E j \in DOMAIN new :
            /\ new[j].handle = h /\ new[j].status = "open"
            /\ j \in DOMAIN f \/ new[j].epoch = ep
    BY <2>2, <2>3, <2>5
  <2>8. DOMAIN f \subseteq DOMAIN new /\ \A j \in DOMAIN f : new[j] = f[j]
    BY <2>2, <2>3, <1>1
  <2>9. QED
    BY <2>4, <2>6, <2>7, <2>8, Zenon DEF r, f
<1>4. QED
  BY <1>2, <1>3

(* A cursor that gives a page: its frontier is open and of this epoch, and *)
(* its handle leads to a snapshot.                                         *)
LEMMA CursorIsGood ==
    ASSUME ledger \in LedgerT, CursorError = "none"
    PROVE  /\ Frontier \in DOMAIN ledger.frontiers
           /\ ledger.frontiers[Frontier].status = "open"
           /\ ledger.frontiers[Frontier].epoch = epoch
           /\ Cursor = ledger.frontiers[Frontier].handle
           /\ Cursor \in ledger.handles /\ Cursor \in HandleT
           /\ Cursor.snapshot.epoch = epoch /\ Cursor.snapshot \in ledger.snapshots
           /\ Cursor.snapshot \in SnapshotT /\ Item \in SpanT
<1>1. /\ FrontierError(ledger, Frontier, epoch) = "none"
      /\ HandleError(ledger, Cursor, epoch) = "none"
  BY DEF CursorError, Cursor
<1>2. /\ Frontier \in DOMAIN ledger.frontiers
      /\ ledger.frontiers[Frontier].status = "open"
      /\ ledger.frontiers[Frontier].epoch = epoch
  BY <1>1 DEF FrontierError, FrontierIds
<1>3. /\ Cursor \in ledger.handles /\ Cursor.snapshot.epoch = epoch
      /\ Cursor.snapshot \in ledger.snapshots
  BY <1>1 DEF HandleError
<1>4. Cursor \in HandleT
  BY <1>3 DEF LedgerT
<1>5. Cursor.snapshot \in SnapshotT
  BY <1>4 DEF HandleT
<1>6. Item \in SpanT
  BY <1>4, BehindIs DEF Item
<1>7. QED
  BY <1>2, <1>3, <1>4, <1>5, <1>6 DEF Cursor

Advances == op.cap = "continue" /\ op.result = "ok"
Stales   == op.cap = "continue" /\ op.result = "revised"

(* What WithCursors makes of the ledger.                                   *)
CursorsMoved(l) ==
    /\ l \in LedgerT /\ l.entries = ledger.entries /\ l.materials = ledger.materials
    /\ \A h \in l.handles : h.snapshot \in l.snapshots
    /\ DOMAIN l.frontiers = DOMAIN ledger.frontiers
    /\ \A j \in DOMAIN l.frontiers :
          /\ l.frontiers[j].handle = ledger.frontiers[j].handle
          /\ l.frontiers[j].epoch = ledger.frontiers[j].epoch
          /\ l.frontiers[j].status = "open" => ledger.frontiers[j].status = "open"
          /\ (Advances \/ Stales => j # Frontier)
                => l.frontiers[j].status = ledger.frontiers[j].status
    /\ ~Advances /\ ~Stales => ledger.handles \subseteq l.handles
    /\ Advances => /\ ledger.handles \ {Cursor} \subseteq l.handles
                   /\ l.frontiers[Frontier].status # "open"
    /\ Stales => \A g \in ledger.handles :
                    g.snapshot # Cursor.snapshot => g \in l.handles
    /\ \A h \in Exposed : /\ h \in HandleT /\ h \in l.handles
                          /\ h.snapshot.epoch = epoch /\ Exposed = {h}

(* The cursors after the tool.                                             *)
LEMMA CursorsMove ==
    ASSUME LedgerHolds(ledger, epoch), OpHolds, CursorHolds, op.pc = "after"
    PROVE  CursorsMoved(WithCursors)
<1> DEFINE l == WithCursors
           next == HandleAfter(Cursor, 1)
           more == op.cap = "continue" /\ op.result \in {"ok", "revised"}
                   /\ ~Exhausted(Cursor, 1)
           held == IF more THEN RegisterSnapshotHandle(ledger, Cursor.snapshot, next.offset)
                   ELSE ledger
<1>0. /\ ledger \in LedgerT
      /\ \A h \in ledger.handles : h.snapshot \in ledger.snapshots
  BY DEF LedgerHolds
<1>1. CASE op.cap # "continue" /\ op.rest # {}
  <2>1. PICK s \in op.rest : s = CHOOSE x \in op.rest : TRUE
    BY <1>1
  <2>2. s \in SnapshotT /\ s.epoch = epoch /\ s.items # <<>> /\ op.rest = {s}
    BY <2>1 DEF OpHolds, OpTyped
  <2>3. 0 < Len(s.items)
    BY <2>2 DEF SnapshotT
  <2>4. l = RegisterSnapshotHandle(ledger, s, 0)
    BY <1>1, <2>1 DEF WithCursors
  <2>5. Exposed = {Handle(s, 0)} /\ Handle(s, 0).snapshot = s
    BY <1>1, <2>2 DEF Exposed, Handle
  <2>6. ~Advances /\ ~Stales
    BY <1>1 DEF Advances, Stales
  <2>7. /\ l \in LedgerT
        /\ l.entries = ledger.entries /\ l.materials = ledger.materials
        /\ l.frontiers = ledger.frontiers
        /\ l.handles = ledger.handles \union {Handle(s, 0)}
        /\ Handle(s, 0) \in HandleT
        /\ \A g \in l.handles : g.snapshot \in l.snapshots
    BY <2>2, <2>3, <2>4, <1>0, RegisterKeeps
  <2> HIDE DEF l
  <2>8. QED
    BY <2>2, <2>5, <2>6, <2>7 DEF CursorsMoved, l
<1>2. CASE ~Advances /\ ~Stales /\ (op.cap = "continue" \/ op.rest = {})
  <2>1. l = ledger
    BY <1>2 DEF WithCursors, Advances, Stales
  <2>2. Exposed = {}
    BY <1>2 DEF Exposed, Advances, Stales
  <2>3. QED
    BY <2>1, <2>2, <1>0, <1>2 DEF CursorsMoved
<1>3. CASE Advances \/ Stales
  <2>1. CursorError = "none" /\ op.cap = "continue"
    BY <1>3 DEF CursorHolds, Continuing, Advances, Stales
  <2>2. /\ Frontier \in DOMAIN ledger.frontiers
        /\ Cursor = ledger.frontiers[Frontier].handle
        /\ Cursor \in HandleT /\ Cursor \in ledger.handles
        /\ Cursor.snapshot.epoch = epoch /\ Cursor.snapshot \in SnapshotT
    BY <1>0, <2>1, CursorIsGood
  <2> DEFINE k == Cursor.offset
             s == Cursor.snapshot
  <2>3. k \in Nat /\ k < Len(s.items) /\ Cursor = Handle(s, k)
    BY <2>2 DEF HandleT, Handle
  <2>4. next = Handle(s, k + 1) /\ next.offset = k + 1 /\ next.snapshot = s
        /\ next # Cursor
    BY <2>3 DEF HandleAfter, Handle
  <2>5. more => k + 1 < Len(s.items)
    <3>1. Len(s.items) \in Nat
      BY <2>2 DEF SnapshotT
    <3>2. QED
      BY <3>1, <2>3 DEF Exhausted
  <2>6. /\ held \in LedgerT
        /\ held.entries = ledger.entries /\ held.materials = ledger.materials
        /\ held.frontiers = ledger.frontiers
        /\ held.handles = ledger.handles \union (IF more THEN {next} ELSE {})
        /\ more => next \in HandleT
        /\ \A g \in held.handles : g.snapshot \in held.snapshots
    <3>1. CASE more
      <4>1. held = RegisterSnapshotHandle(ledger, s, k + 1)
        BY <3>1, <2>4
      <4>2. s \in SnapshotT /\ k + 1 \in Nat /\ k + 1 < Len(s.items)
        BY <3>1, <2>2, <2>3, <2>5
      <4> HIDE DEF more, held, next, k, s
      <4> DEFINE o == k + 1
      <4>3. held = RegisterSnapshotHandle(ledger, s, o) /\ next = Handle(s, o)
            /\ s \in SnapshotT /\ o \in Nat /\ o < Len(s.items)
        BY <4>1, <4>2, <2>4
      <4> HIDE DEF o
      <4>4. /\ held \in LedgerT
            /\ held.entries = ledger.entries
            /\ held.materials = ledger.materials
            /\ held.frontiers = ledger.frontiers
            /\ held.handles = ledger.handles \union {next}
            /\ next \in HandleT
            /\ \A g \in held.handles : g.snapshot \in held.snapshots
        BY <4>3, <1>0, RegisterKeeps
      <4>5. QED
        BY <4>4, <3>1
    <3>2. CASE ~more
      <4>1. held = ledger /\ ledger.handles \union {} = ledger.handles
        BY <3>2
      <4> HIDE DEF more, held
      <4>2. QED
        BY <4>1, <3>2, <1>0
    <3>3. QED
      BY <3>1, <3>2
  <2>7. CASE Advances
    <3>1. l = ConsumeFrontier(held, Frontier)
      BY <2>7 DEF WithCursors, Advances
    <3>2. Exposed = IF more THEN {next} ELSE {}
      BY <2>7 DEF Exposed, Advances
    <3> DEFINE marked == Marked(held, Frontier, "consumed")
    <3> HIDE DEF held, more, next, l
    <3>3. /\ marked \in LedgerT
          /\ marked.entries = held.entries /\ marked.materials = held.materials
          /\ marked.handles = held.handles /\ marked.snapshots = held.snapshots
          /\ DOMAIN marked.frontiers = DOMAIN held.frontiers
          /\ marked.frontiers[Frontier].status = "consumed"
          /\ \A j \in DOMAIN held.frontiers :
                /\ marked.frontiers[j].handle = held.frontiers[j].handle
                /\ marked.frontiers[j].epoch = held.frontiers[j].epoch
                /\ j # Frontier => marked.frontiers[j] = held.frontiers[j]
      BY <2>2, <2>6, MarkKeeps
    <3>4. l = ReleaseSnapshotHandle(marked, Cursor)
      BY <3>1, <2>2, <2>6 DEF ConsumeFrontier, Marked
    <3> HIDE DEF marked
    <3>5. /\ l \in LedgerT
          /\ l.entries = marked.entries /\ l.materials = marked.materials
          /\ l.frontiers = marked.frontiers /\ l.handles = marked.handles \ {Cursor}
          /\ \A g \in l.handles : g.snapshot \in l.snapshots
      BY <3>3, <3>4, <2>6, ReleaseKeeps, SMTT(240)
    <3>6. \A h \in Exposed : /\ h \in HandleT /\ h \in l.handles
                             /\ h.snapshot.epoch = epoch /\ Exposed = {h}
      BY <3>2, <3>3, <3>5, <2>6, <2>4, <2>2
    <3>7. ~Stales
      BY <2>7 DEF Advances, Stales
    <3>8. QED
      BY <3>3, <3>5, <3>6, <3>7, <2>6, <2>7 DEF CursorsMoved, l
  <2>8. CASE Stales
    <3> DEFINE base == IF more THEN ReleaseSnapshotHandle(held, next) ELSE held
    <3>1. l = StaleFrontier(base, Frontier)
      BY <2>8 DEF WithCursors, Stales
    <3>2. Exposed = {}
      BY <2>8 DEF Exposed, Stales
    <3> DEFINE marked == Marked(base, Frontier, "stale")
    <3> HIDE DEF held, more, next, l
    <3>3. /\ base \in LedgerT
          /\ base.entries = held.entries /\ base.materials = held.materials
          /\ base.frontiers = held.frontiers
          /\ base.handles = held.handles \ (IF more THEN {next} ELSE {})
          /\ \A g \in base.handles : g.snapshot \in base.snapshots
      <4>1. CASE more
        BY <4>1, <2>6, ReleaseKeeps
      <4>2. CASE ~more
        BY <4>2, <2>6
      <4>3. QED
        BY <4>1, <4>2
    <3> HIDE DEF base
    <3>4. /\ marked \in LedgerT
          /\ marked.entries = base.entries /\ marked.materials = base.materials
          /\ marked.handles = base.handles /\ marked.snapshots = base.snapshots
          /\ DOMAIN marked.frontiers = DOMAIN base.frontiers
          /\ marked.frontiers[Frontier].status = "stale"
          /\ \A j \in DOMAIN base.frontiers :
                /\ marked.frontiers[j].handle = base.frontiers[j].handle
                /\ marked.frontiers[j].epoch = base.frontiers[j].epoch
                /\ j # Frontier => marked.frontiers[j] = base.frontiers[j]
      BY <2>2, <2>6, <3>3, MarkKeeps, SMTT(240)
    <3>5. l = ReleaseSnapshotHandle(marked, Cursor)
      BY <3>1, <2>2, <2>6, <3>3 DEF StaleFrontier, Marked
    <3> HIDE DEF marked
    <3>6. /\ l \in LedgerT
          /\ l.entries = marked.entries /\ l.materials = marked.materials
          /\ l.frontiers = marked.frontiers /\ l.handles = marked.handles \ {Cursor}
          /\ \A g \in l.handles : g.snapshot \in l.snapshots
      BY <3>3, <3>4, <3>5, ReleaseKeeps
    <3>7. \A g \in ledger.handles : g.snapshot # Cursor.snapshot => g \in l.handles
      BY <3>3, <3>4, <3>6, <2>4, <2>6
    <3>8. ~Advances
      BY <2>8 DEF Advances, Stales
    <3>9. QED
      BY <3>2, <3>3, <3>4, <3>6, <3>7, <3>8, <2>6, <2>8 DEF CursorsMoved, l
  <2>9. QED
    BY <2>7, <2>8, <1>3
<1>4. QED
  BY <1>1, <1>2, <1>3 DEF Advances, Stales

-------------------------------------------------------------------------------
(* Materials stay: replaced at most by the same, read for more.            *)
MaterialsKept(l, r) ==
    /\ DOMAIN l.materials \subseteq DOMAIN r.materials
    /\ \A i \in DOMAIN l.materials :
          /\ SameMaterial(l.materials[i], r.materials[i])
          /\ l.materials[i].from \subseteq r.materials[i].from

(* What was told stays told while the materials stay.                      *)
LEMMA ToldStays ==
    ASSUME NEW l, NEW r, MaterialsKept(l, r), NEW ep, NEW cap, NEW w
    PROVE  ToldBy(l, ep, cap, w) \subseteq ToldBy(r, ep, cap, w)
<1> SUFFICES ASSUME NEW x \in ToldBy(l, ep, cap, w)
             PROVE  x \in ToldBy(r, ep, cap, w)
  OBVIOUS
<1>1. PICK i \in DOMAIN l.materials :
          /\ cap \in l.materials[i].from /\ l.materials[i].epoch = ep
          /\ l.materials[i].rev = RevOf(cap, w) /\ x \in LinesOf(l.materials[i].span)
  BY DEF ToldBy, ToSet
<1>2. /\ i \in DOMAIN r.materials
      /\ cap \in r.materials[i].from /\ r.materials[i].epoch = ep
      /\ r.materials[i].rev = RevOf(cap, w) /\ x \in LinesOf(r.materials[i].span)
  BY <1>1 DEF MaterialsKept, SameMaterial
<1>3. QED
  BY <1>2 DEF ToldBy, ToSet

(* A material is told for all it was read for.                             *)
LEMMA ToldHas ==
    ASSUME NEW l, NEW i \in DOMAIN l.materials, NEW ep, NEW cap, NEW w,
           cap \in l.materials[i].from, l.materials[i].epoch = ep,
           l.materials[i].rev = RevOf(cap, w)
    PROVE  LinesOf(l.materials[i].span) \subseteq ToldBy(l, ep, cap, w)
BY DEF ToldBy, ToSet

(* An open frontier that works: what is behind it lies ahead.              *)
LeadsOn(l, i, ep, cap, w) ==
    /\ i \in DOMAIN l.frontiers
    /\ l.frontiers[i].status = "open" /\ l.frontiers[i].epoch = ep
    /\ l.frontiers[i].handle.snapshot.cap = cap
    /\ l.frontiers[i].handle.snapshot.rev = RevOf(cap, w)
    /\ l.frontiers[i].handle \in l.handles
    /\ l.frontiers[i].handle.snapshot.epoch = ep
    /\ l.frontiers[i].handle.snapshot \in l.snapshots

(* What lies ahead, frontier by frontier.                                  *)
LEMMA AheadIs ==
    ASSUME NEW l, NEW ep, NEW cap, NEW w, NEW x
    PROVE  x \in AheadBy(l, ep, cap, w) <=>
              \E i : /\ LeadsOn(l, i, ep, cap, w)
                     /\ \E s \in ToSet(ItemsBehind(l.frontiers[i].handle)) :
                            x \in LinesOf(s)
<1>1. \A h : HandleError(l, h, ep) = "none" <=>
                /\ h \in l.handles /\ h.snapshot.epoch = ep
                /\ h.snapshot \in l.snapshots
  BY DEF HandleError
<1>2. ASSUME x \in AheadBy(l, ep, cap, w)
      PROVE  \E i : /\ LeadsOn(l, i, ep, cap, w)
                    /\ \E s \in ToSet(ItemsBehind(l.frontiers[i].handle)) :
                           x \in LinesOf(s)
  <2>1. PICK f \in ToSet(l.frontiers) :
            /\ f.status = "open" /\ f.epoch = ep
            /\ f.handle.snapshot.cap = cap
            /\ f.handle.snapshot.rev = RevOf(cap, w)
            /\ HandleError(l, f.handle, ep) = "none"
            /\ \E s \in ToSet(ItemsBehind(f.handle)) : x \in LinesOf(s)
    BY <1>2 DEF AheadBy
  <2>2. PICK i \in DOMAIN l.frontiers : f = l.frontiers[i]
    BY DEF ToSet
  <2>3. LeadsOn(l, i, ep, cap, w)
    BY <2>1, <2>2, <1>1 DEF LeadsOn
  <2>4. QED
    BY <2>1, <2>2, <2>3
<1>3. ASSUME NEW i, LeadsOn(l, i, ep, cap, w),
             NEW s \in ToSet(ItemsBehind(l.frontiers[i].handle)), x \in LinesOf(s)
      PROVE  x \in AheadBy(l, ep, cap, w)
  <2> DEFINE f == l.frontiers[i]
  <2>1. f \in ToSet(l.frontiers)
    BY <1>3 DEF LeadsOn, ToSet
  <2>2. HandleError(l, f.handle, ep) = "none"
    BY <1>1, <1>3 DEF LeadsOn
  <2>3. /\ f.status = "open" /\ f.epoch = ep
        /\ f.handle.snapshot.cap = cap /\ f.handle.snapshot.rev = RevOf(cap, w)
    BY <1>3 DEF LeadsOn
  <2>4. s \in ToSet(ItemsBehind(f.handle))
    OBVIOUS
  <2> HIDE DEF f
  <2>5. QED
    BY <2>1, <2>2, <2>3, <2>4, <1>3 DEF AheadBy
<1>4. QED
  BY <1>2, <1>3

-------------------------------------------------------------------------------
(* The end of an operation: the ledger with its cursors, its materials and *)
(* its frontier, before the entry is recorded.                             *)
Page  == {[m EXCEPT !.token = TokenAfter] : m \in op.page}
Read  == RegisterMaterialCandidates(WithCursors, Page)
Shown == IF Exposed = {} THEN Read
         ELSE ExposeFrontier(Read, CHOOSE h \in Exposed : TRUE, epoch)
Entry == [cap |-> op.cap, request |-> op.request, epoch |-> epoch,
          materials |-> IdsOf(Shown, Page),
          frontiers |-> UNION {OpenFor(Shown, h) : h \in Exposed},
          token |-> TokenAfter, examined |-> op.examined,
          revision |-> IF op.cap = "read" /\ op.page # {}
                       THEN (CHOOSE m \in op.page : TRUE).rev ELSE NoBody,
          refused |-> op.result = "refused", turn |-> ops]

(* What Record writes: the cursors, then the materials of the page, then   *)
(* the frontier, then the entry.                                           *)
LEMMA RecordedIs ==
    Recorded = IF Reusable THEN RecordEntry(Shown, Entry) ELSE Shown
BY DEF Recorded, Shown, Read, Page, Entry

(* The page with its token: one material at most.                          *)
LEMMA PageIsTyped ==
    ASSUME CountsHold, OpHolds, op.pc = "after"
    PROVE  /\ TokenAfter \in Nat /\ TokenAfter <= writes
           /\ TokenAfter = writes => op.pre = writes /\ HasToken(op.cap)
           /\ Page \in SUBSET MaterialT /\ \A m \in Page : Page = {m}
           /\ \A m \in op.page : \E n \in Page :
                 /\ SameMaterial(m, n) /\ n.from = m.from
           /\ \A n \in Page : \E m \in op.page :
                 /\ SameMaterial(m, n) /\ n.from = m.from
                 /\ n.token = TokenAfter /\ n.body = m.body
<1>1. writes \in Nat /\ writes # 0 /\ op.page \in SUBSET MaterialT
      /\ \A m \in op.page : op.page = {m}
  BY DEF CountsHold, SourceTypeOK, OpHolds, OpTyped
<1>2. /\ TokenAfter \in Nat /\ TokenAfter <= writes
      /\ TokenAfter = writes => op.pre = writes /\ HasToken(op.cap)
  BY <1>1 DEF TokenAfter, TokenOf, NoToken
<1>3. ASSUME NEW m \in op.page
      PROVE  LET n == [m EXCEPT !.token = TokenAfter] IN
             /\ n \in MaterialT /\ SameMaterial(m, n) /\ n.from = m.from
             /\ n.token = TokenAfter /\ n.body = m.body
  <2>1. m \in MaterialT
    BY <1>1
  <2>2. QED
    BY <2>1, <1>2 DEF MaterialT, SameMaterial
<1>4. /\ \A m \in op.page : \E n \in Page : SameMaterial(m, n) /\ n.from = m.from
      /\ \A n \in Page : \E m \in op.page :
            /\ SameMaterial(m, n) /\ n.from = m.from
            /\ n.token = TokenAfter /\ n.body = m.body
      /\ Page \in SUBSET MaterialT
  BY <1>3, ZenonT(240) DEF Page
<1>5. \A m \in Page : Page = {m}
  <2> TAKE m \in Page
  <2>1. PICK x \in op.page : m = [x EXCEPT !.token = TokenAfter]
    BY DEF Page
  <2>2. op.page = {x}
    BY <1>1
  <2>3. QED
    BY <2>1, <2>2 DEF Page
<1>6. QED
  BY <1>2, <1>4, <1>5


(* What the end of an operation makes of the ledger.                       *)
ShownIs(r) ==
    /\ r.entries = ledger.entries /\ MaterialsKept(ledger, r)
    /\ \A i \in DOMAIN r.materials :
          \/ i \in DOMAIN ledger.materials /\ r.materials[i] = ledger.materials[i]
          \/ \E m \in op.page : /\ SameMaterial(m, r.materials[i])
                                /\ r.materials[i].token = TokenAfter
                                /\ r.materials[i].body = m.body
    /\ \A m \in op.page : \E i \in DOMAIN r.materials :
          SameMaterial(m, r.materials[i]) /\ m.from \subseteq r.materials[i].from
    /\ DOMAIN ledger.frontiers \subseteq DOMAIN r.frontiers
    /\ \A j \in DOMAIN ledger.frontiers :
          /\ r.frontiers[j].handle = ledger.frontiers[j].handle
          /\ r.frontiers[j].epoch = ledger.frontiers[j].epoch
          /\ (Advances \/ Stales => j # Frontier)
                => r.frontiers[j].status = ledger.frontiers[j].status
    /\ ~Advances /\ ~Stales => ledger.handles \subseteq r.handles
    /\ Advances => ledger.handles \ {Cursor} \subseteq r.handles
    /\ Stales => \A g \in ledger.handles :
                    g.snapshot # Cursor.snapshot => g \in r.handles
    /\ \A h \in Exposed :
          /\ h \in HandleT /\ h \in r.handles /\ h.snapshot.epoch = epoch
          /\ \E j \in DOMAIN r.frontiers :
                /\ r.frontiers[j].handle = h /\ r.frontiers[j].status = "open"
                /\ r.frontiers[j].epoch = epoch

(* The ledger with the page registered.                                    *)
LEMMA ReadIs ==
    ASSUME CountsHold, LedgerHolds(ledger, epoch), OpHolds, CursorHolds,
           op.pc = "after"
    PROVE  /\ Read \in LedgerT /\ Read.entries = ledger.entries
           /\ Read.handles = WithCursors.handles
           /\ Read.snapshots = WithCursors.snapshots
           /\ Read.frontiers = WithCursors.frontiers
           /\ MaterialsKept(ledger, Read)
           /\ \A i \in DOMAIN Read.materials :
                 \/ /\ i \in DOMAIN ledger.materials
                    /\ Read.materials[i] = ledger.materials[i]
                 \/ \E m \in op.page : /\ SameMaterial(m, Read.materials[i])
                                       /\ Read.materials[i].token = TokenAfter
                                       /\ Read.materials[i].body = m.body
           /\ \A m \in op.page : \E i \in DOMAIN Read.materials :
                 /\ SameMaterial(m, Read.materials[i])
                 /\ m.from \subseteq Read.materials[i].from
<1>1. CursorsMoved(WithCursors)
  BY CursorsMove
<1>2. /\ Page \in SUBSET MaterialT /\ \A m \in Page : Page = {m}
      /\ \A m \in op.page : \E n \in Page : SameMaterial(m, n) /\ n.from = m.from
      /\ \A n \in Page : \E m \in op.page :
            /\ SameMaterial(m, n) /\ n.from = m.from
            /\ n.token = TokenAfter /\ n.body = m.body
  BY PageIsTyped
<1> DEFINE l == WithCursors
           r == Read
<1>3. /\ l \in LedgerT /\ l.entries = ledger.entries
      /\ l.materials = ledger.materials
  BY <1>1 DEF CursorsMoved
<1>4. r = RegisterMaterialCandidates(l, Page)
  BY DEF Read
<1> HIDE DEF l, r
<1>5. /\ r \in LedgerT
      /\ r.entries = l.entries /\ r.handles = l.handles
      /\ r.snapshots = l.snapshots /\ r.frontiers = l.frontiers
      /\ DOMAIN l.materials \subseteq DOMAIN r.materials
      /\ \A i \in DOMAIN l.materials :
            /\ SameMaterial(l.materials[i], r.materials[i])
            /\ l.materials[i].from \subseteq r.materials[i].from
      /\ \A i \in DOMAIN r.materials :
            \/ i \in DOMAIN l.materials /\ r.materials[i] = l.materials[i]
            \/ \E m \in Page : /\ SameMaterial(m, r.materials[i])
                               /\ r.materials[i].token = m.token
                               /\ r.materials[i].body = m.body
      /\ \A m \in Page : \E i \in DOMAIN r.materials :
            SameMaterial(m, r.materials[i]) /\ m.from \subseteq r.materials[i].from
  BY <1>2, <1>3, <1>4, MaterialsStay
<1>6. ASSUME NEW i \in DOMAIN r.materials
      PROVE  \/ i \in DOMAIN ledger.materials /\ r.materials[i] = ledger.materials[i]
             \/ \E m \in op.page : /\ SameMaterial(m, r.materials[i])
                                   /\ r.materials[i].token = TokenAfter
                                   /\ r.materials[i].body = m.body
  <2>1. CASE i \in DOMAIN l.materials /\ r.materials[i] = l.materials[i]
    BY <2>1, <1>3
  <2>2. ASSUME NEW n \in Page, SameMaterial(n, r.materials[i]),
               r.materials[i].token = n.token, r.materials[i].body = n.body
        PROVE  \E m \in op.page : /\ SameMaterial(m, r.materials[i])
                                  /\ r.materials[i].token = TokenAfter
                                  /\ r.materials[i].body = m.body
    <3>1. PICK m \in op.page : /\ SameMaterial(m, n) /\ n.token = TokenAfter
                               /\ n.body = m.body
      BY <1>2
    <3>2. QED
      BY <3>1, <2>2 DEF SameMaterial
  <2>3. QED
    BY <2>1, <2>2, <1>5
<1>7. ASSUME NEW m \in op.page
      PROVE  \E i \in DOMAIN r.materials :
                 SameMaterial(m, r.materials[i]) /\ m.from \subseteq r.materials[i].from
  <2>1. PICK n \in Page : SameMaterial(m, n) /\ n.from = m.from
    BY <1>2
  <2>2. PICK i \in DOMAIN r.materials :
            SameMaterial(n, r.materials[i]) /\ n.from \subseteq r.materials[i].from
    BY <1>5
  <2>3. QED
    BY <2>1, <2>2 DEF SameMaterial
<1>8. MaterialsKept(ledger, r)
  BY <1>3, <1>5 DEF MaterialsKept
<1>9. QED
  BY <1>3, <1>5, <1>6, <1>7, <1>8 DEF l, r


(* The frontiers after it: none but the one exposed is new, and no two are *)
(* open on one handle.                                                     *)
LEMMA FrontiersAfter ==
    ASSUME CountsHold, LedgerHolds(ledger, epoch), OpHolds, CursorHolds,
           op.pc = "after"
    PROVE  /\ Shown \in LedgerT
           /\ Shown.entries = Read.entries /\ Shown.materials = Read.materials
           /\ Shown.handles = Read.handles /\ Shown.snapshots = Read.snapshots
           /\ DOMAIN ledger.frontiers \subseteq DOMAIN Shown.frontiers
           /\ \A j \in DOMAIN ledger.frontiers :
                 /\ Shown.frontiers[j].handle = ledger.frontiers[j].handle
                 /\ Shown.frontiers[j].epoch = ledger.frontiers[j].epoch
                 /\ (Advances \/ Stales => j # Frontier)
                       => Shown.frontiers[j].status = ledger.frontiers[j].status
           /\ \A j \in DOMAIN Shown.frontiers :
                 Shown.frontiers[j].epoch = Shown.frontiers[j].handle.snapshot.epoch
           /\ \A i \in DOMAIN Shown.frontiers, j \in DOMAIN Shown.frontiers :
                 /\ Shown.frontiers[i].status = "open"
                 /\ Shown.frontiers[j].status = "open"
                 /\ Shown.frontiers[i].handle = Shown.frontiers[j].handle
                 => i = j
           /\ \A h \in Exposed : \E j \in DOMAIN Shown.frontiers :
                 /\ Shown.frontiers[j].handle = h
                 /\ Shown.frontiers[j].status = "open"
                 /\ Shown.frontiers[j].epoch = epoch
<1> DEFINE f == ledger.frontiers
           g == Read.frontiers
           s == Shown
<1>1. /\ Read \in LedgerT /\ g = WithCursors.frontiers
  BY ReadIs
<1>2. CursorsMoved(WithCursors) /\ epoch \in Nat
  BY CursorsMove DEF CountsHold
<1>3. /\ DOMAIN g = DOMAIN f
      /\ \A j \in DOMAIN f :
            /\ g[j].handle = f[j].handle /\ g[j].epoch = f[j].epoch
            /\ g[j].status = "open" => f[j].status = "open"
            /\ (Advances \/ Stales => j # Frontier) => g[j].status = f[j].status
      /\ \A h \in Exposed : /\ h \in HandleT /\ h.snapshot.epoch = epoch
                            /\ Exposed = {h}
  BY <1>1, <1>2 DEF CursorsMoved
<1>4. /\ \A j \in DOMAIN f : f[j].epoch = f[j].handle.snapshot.epoch
      /\ \A i \in DOMAIN f, j \in DOMAIN f :
            f[i].status = "open" /\ f[j].status = "open" /\ f[i].handle = f[j].handle
            => i = j
  BY DEF LedgerHolds
<1>5. /\ \A j \in DOMAIN g : g[j].epoch = g[j].handle.snapshot.epoch
      /\ \A i \in DOMAIN g, j \in DOMAIN g :
            g[i].status = "open" /\ g[j].status = "open" /\ g[i].handle = g[j].handle
            => i = j
  BY <1>3, <1>4
<1>6. CASE Exposed = {}
  <2>1. s = Read
    BY <1>6 DEF Shown
  <2> HIDE DEF f, g, s
  <2>2. s.frontiers = g
    BY <2>1 DEF g
  <2>3. QED
    BY <1>1, <1>3, <1>5, <1>6, <2>1, <2>2 DEF s, f
<1>7. ASSUME NEW h \in Exposed
      PROVE  /\ s \in LedgerT
             /\ s.entries = Read.entries /\ s.materials = Read.materials
             /\ s.handles = Read.handles /\ s.snapshots = Read.snapshots
             /\ DOMAIN f \subseteq DOMAIN s.frontiers
             /\ \A j \in DOMAIN f : s.frontiers[j] = g[j]
             /\ \A j \in DOMAIN s.frontiers :
                   s.frontiers[j].epoch = s.frontiers[j].handle.snapshot.epoch
             /\ \A i \in DOMAIN s.frontiers, j \in DOMAIN s.frontiers :
                   /\ s.frontiers[i].status = "open" /\ s.frontiers[j].status = "open"
                   /\ s.frontiers[i].handle = s.frontiers[j].handle
                   => i = j
             /\ \E j \in DOMAIN s.frontiers :
                   /\ s.frontiers[j].handle = h /\ s.frontiers[j].status = "open"
                   /\ s.frontiers[j].epoch = epoch
  <2>1. /\ s = ExposeFrontier(Read, h, epoch)
        /\ h \in HandleT /\ h.snapshot.epoch = epoch
    BY <1>3, <1>7 DEF Shown
  <2> HIDE DEF s
  <2>2. /\ s \in LedgerT
        /\ s.entries = Read.entries /\ s.materials = Read.materials
        /\ s.handles = Read.handles /\ s.snapshots = Read.snapshots
        /\ DOMAIN g \subseteq DOMAIN s.frontiers
        /\ \A j \in DOMAIN g : s.frontiers[j] = g[j]
        /\ \A j \in DOMAIN s.frontiers \ DOMAIN g :
              /\ s.frontiers[j].handle = h /\ OpenFor(Read, h) = {}
              /\ \A k \in DOMAIN s.frontiers \ DOMAIN g : k = j
        /\ \E j \in DOMAIN s.frontiers :
              /\ s.frontiers[j].handle = h /\ s.frontiers[j].status = "open"
              /\ j \in DOMAIN g \/ s.frontiers[j].epoch = epoch
    BY <1>1, <1>2, <2>1, ExposeKeeps
  <2>3. OpenFor(Read, h) = {} => \A j \in DOMAIN g :
            ~(g[j].handle = h /\ g[j].status = "open")
    BY DEF OpenFor, FrontierIds
  <2> HIDE DEF f, g
  <2>4. \A j \in DOMAIN s.frontiers \ DOMAIN g :
            s.frontiers[j].epoch = epoch
    BY <2>2, <2>3
  <2>5. \A j \in DOMAIN s.frontiers :
            s.frontiers[j].epoch = s.frontiers[j].handle.snapshot.epoch
    BY <2>1, <2>2, <2>4, <1>5
  <2>6. ASSUME NEW i \in DOMAIN s.frontiers, NEW j \in DOMAIN s.frontiers,
               s.frontiers[i].status = "open", s.frontiers[j].status = "open",
               s.frontiers[i].handle = s.frontiers[j].handle
        PROVE  i = j
    BY <2>2, <2>3, <2>6, <1>5
  <2>7. \E j \in DOMAIN s.frontiers :
            /\ s.frontiers[j].handle = h /\ s.frontiers[j].status = "open"
            /\ s.frontiers[j].epoch = epoch
    BY <2>1, <2>2, <2>5
  <2>8. QED
    BY <1>3, <2>2, <2>5, <2>6, <2>7
<1>8. CASE Exposed # {}
  <2>1. PICK h \in Exposed : Exposed = {h}
    BY <1>3, <1>8
  <2> HIDE DEF f, g, s
  <2>2. \A j \in DOMAIN f : s.frontiers[j] = g[j]
    BY <1>7, <2>1
  <2>3. /\ s \in LedgerT
        /\ s.entries = Read.entries /\ s.materials = Read.materials
        /\ s.handles = Read.handles /\ s.snapshots = Read.snapshots
        /\ DOMAIN f \subseteq DOMAIN s.frontiers
        /\ \A j \in DOMAIN s.frontiers :
              s.frontiers[j].epoch = s.frontiers[j].handle.snapshot.epoch
        /\ \A i \in DOMAIN s.frontiers, j \in DOMAIN s.frontiers :
              /\ s.frontiers[i].status = "open" /\ s.frontiers[j].status = "open"
              /\ s.frontiers[i].handle = s.frontiers[j].handle
              => i = j
        /\ \A k \in Exposed : \E j \in DOMAIN s.frontiers :
              /\ s.frontiers[j].handle = k /\ s.frontiers[j].status = "open"
              /\ s.frontiers[j].epoch = epoch
    BY <1>7, <2>1
  <2>4. QED
    BY <1>3, <2>2, <2>3 DEF s, f
<1>9. QED
  BY <1>6, <1>8

(* The ledger at the end of an operation is whole again.                   *)
LEMMA ShownHolds ==
    ASSUME CountsHold, LedgerHolds(ledger, epoch), OpHolds, CursorHolds,
           op.pc = "after"
    PROVE  LedgerHolds(Shown, epoch) /\ ShownIs(Shown)
<1> DEFINE s == Shown
<1>1. /\ Read.entries = ledger.entries
      /\ Read.handles = WithCursors.handles
      /\ Read.snapshots = WithCursors.snapshots
      /\ MaterialsKept(ledger, Read)
      /\ \A i \in DOMAIN Read.materials :
            \/ i \in DOMAIN ledger.materials /\ Read.materials[i] = ledger.materials[i]
            \/ \E m \in op.page : /\ SameMaterial(m, Read.materials[i])
                                  /\ Read.materials[i].token = TokenAfter
                                  /\ Read.materials[i].body = m.body
      /\ \A m \in op.page : \E i \in DOMAIN Read.materials :
            /\ SameMaterial(m, Read.materials[i])
            /\ m.from \subseteq Read.materials[i].from
  BY ReadIs
<1>2. /\ s \in LedgerT
      /\ s.entries = Read.entries /\ s.materials = Read.materials
      /\ s.handles = Read.handles /\ s.snapshots = Read.snapshots
      /\ DOMAIN ledger.frontiers \subseteq DOMAIN s.frontiers
      /\ \A j \in DOMAIN ledger.frontiers :
            /\ s.frontiers[j].handle = ledger.frontiers[j].handle
            /\ s.frontiers[j].epoch = ledger.frontiers[j].epoch
            /\ (Advances \/ Stales => j # Frontier)
                  => s.frontiers[j].status = ledger.frontiers[j].status
      /\ \A j \in DOMAIN s.frontiers :
            s.frontiers[j].epoch = s.frontiers[j].handle.snapshot.epoch
      /\ \A i \in DOMAIN s.frontiers, j \in DOMAIN s.frontiers :
            /\ s.frontiers[i].status = "open" /\ s.frontiers[j].status = "open"
            /\ s.frontiers[i].handle = s.frontiers[j].handle
            => i = j
      /\ \A h \in Exposed : \E j \in DOMAIN s.frontiers :
            /\ s.frontiers[j].handle = h /\ s.frontiers[j].status = "open"
            /\ s.frontiers[j].epoch = epoch
  BY FrontiersAfter
<1>3. CursorsMoved(WithCursors) /\ epoch \in Nat
  BY CursorsMove DEF CountsHold
<1> HIDE DEF s
<1>4. \A i \in DOMAIN s.materials :
          s.materials[i].epoch <= epoch
          /\ s.materials[i].body \in {NoBody, s.materials[i].rev}
  <2> TAKE i \in DOMAIN s.materials
  <2>1. CASE /\ i \in DOMAIN ledger.materials
             /\ s.materials[i] = ledger.materials[i]
    BY <2>1 DEF LedgerHolds
  <2>2. CASE \E m \in op.page : /\ SameMaterial(m, s.materials[i])
                                /\ s.materials[i].body = m.body
    <3>1. PICK m \in op.page : /\ SameMaterial(m, s.materials[i])
                               /\ s.materials[i].body = m.body
      BY <2>2
    <3>2. m.epoch = epoch /\ m.body = m.rev
      BY DEF OpHolds
    <3>3. QED
      BY <3>1, <3>2, <1>3 DEF SameMaterial
  <2>3. QED
    BY <2>1, <2>2, <1>1, <1>2
<1>5. LedgerHolds(s, epoch)
  <2>1. /\ IsFiniteSet(s.entries)
        /\ \A e \in s.entries : /\ e.epoch <= epoch
                                /\ e.materials \subseteq DOMAIN s.materials
                                /\ e.refused => e.request.path = "secret"
    BY <1>1, <1>2 DEF LedgerHolds, MaterialsKept
  <2>2. \A h \in s.handles : h.snapshot \in s.snapshots
    BY <1>1, <1>2, <1>3 DEF CursorsMoved
  <2>3. QED
    BY <1>2, <1>4, <2>1, <2>2 DEF LedgerHolds
<1>6. ShownIs(s)
  <2>1. s.entries = ledger.entries /\ MaterialsKept(ledger, s)
    BY <1>1, <1>2 DEF MaterialsKept
  <2>2. /\ \A h \in Exposed : /\ h \in HandleT /\ h \in s.handles
                              /\ h.snapshot.epoch = epoch
        /\ ~Advances /\ ~Stales => ledger.handles \subseteq s.handles
        /\ Advances => ledger.handles \ {Cursor} \subseteq s.handles
        /\ Stales => \A g \in ledger.handles :
                        g.snapshot # Cursor.snapshot => g \in s.handles
    BY <1>1, <1>2, <1>3 DEF CursorsMoved
  <2>3. QED
    BY <1>1, <1>2, <2>1, <2>2 DEF ShownIs
<1>7. QED
  BY <1>5, <1>6 DEF s


(* What lay behind the cursor continued is told with the page or lies      *)
(* behind the next cursor.                                                 *)
LEMMA CursorLeadsOn ==
    ASSUME CountsHold, LedgerHolds(ledger, epoch), OpHolds, CursorHolds,
           op.pc = "after", SomethingFresh, Advances,
           Cursor.snapshot.rev = RevOf(Cursor.snapshot.cap, World),
           NEW s \in ToSet(ItemsBehind(Cursor)), NEW x \in LinesOf(s),
           Cursor.snapshot.cap \in {"read", "search"} => x <= Lines[file]
    PROVE  x \in Reached(Shown, epoch, Cursor.snapshot.cap, World)
<1> DEFINE cap == Cursor.snapshot.cap
           k == Cursor.offset
           items == Cursor.snapshot.items
           next == HandleAfter(Cursor, 1)
<1>1. op.cap = "continue" /\ op.result = "ok"
  BY DEF Advances
<1>2. CursorError = "none" /\ Continuing
  BY <1>1 DEF CursorHolds, Continuing
<1>3. Cursor \in HandleT /\ Cursor.snapshot.epoch = epoch
  BY <1>2, CursorIsGood DEF LedgerHolds
<1>4. PICK n \in (k + 1)..Len(items) : s = items[n]
  BY <1>3, BehindIs
<1>5. LedgerHolds(Shown, epoch) /\ ShownIs(Shown)
  BY ShownHolds
<1>6. k \in Nat /\ Len(items) \in Nat
  BY <1>3 DEF HandleT, SnapshotT
<1>7. CASE n = k + 1
  <2>1. s = Item
    BY <1>3, <1>4, <1>7, BehindIs DEF Item
  <2>2. /\ \A m \in op.page : m.from = {cap} /\ m.rev = Cursor.snapshot.rev
        /\ x \in PageLinesRead
    BY <1>1, <1>2, <2>1 DEF CursorHolds
  <2>3. PICK m \in op.page : x \in LinesOf(m.span)
    BY <2>2 DEF PageLinesRead, LinesShown
  <2>4. m.epoch = epoch
    BY DEF OpHolds
  <2>5. PICK i \in DOMAIN Shown.materials :
            /\ SameMaterial(m, Shown.materials[i])
            /\ m.from \subseteq Shown.materials[i].from
    BY <1>5 DEF ShownIs
  <2>6. /\ cap \in Shown.materials[i].from /\ Shown.materials[i].epoch = epoch
        /\ Shown.materials[i].rev = RevOf(cap, World)
        /\ x \in LinesOf(Shown.materials[i].span)
    BY <2>2, <2>3, <2>4, <2>5 DEF SameMaterial
  <2>7. x \in ToldBy(Shown, epoch, cap, World)
    BY <2>6, ToldHas
  <2>8. QED
    BY <2>7 DEF Reached
<1>8. CASE n # k + 1
  <2>1. n \in (k + 2)..Len(items) /\ k + 1 < Len(items)
    BY <1>4, <1>6, <1>8, SMTT(240)
  <2>2. ~Exhausted(Cursor, 1)
    BY <2>1, <1>6 DEF Exhausted
  <2>3. next \in Exposed
    BY <1>1, <2>2 DEF Exposed
  <2>4. next.snapshot = Cursor.snapshot /\ next.offset = k + 1
    BY DEF HandleAfter, Handle
  <2>5. /\ next \in HandleT /\ next \in Shown.handles
        /\ \E j \in DOMAIN Shown.frontiers :
              /\ Shown.frontiers[j].handle = next
              /\ Shown.frontiers[j].status = "open"
              /\ Shown.frontiers[j].epoch = epoch
    BY <1>5, <2>3 DEF ShownIs
  <2>6. PICK j \in DOMAIN Shown.frontiers :
              /\ Shown.frontiers[j].handle = next
              /\ Shown.frontiers[j].status = "open"
              /\ Shown.frontiers[j].epoch = epoch
    BY <2>5
  <2> HIDE DEF next, items, k
  <2>7. next.snapshot \in Shown.snapshots
    BY <1>5, <2>5 DEF LedgerHolds
  <2>8. LeadsOn(Shown, j, epoch, cap, World)
    BY <1>3, <2>4, <2>5, <2>6, <2>7 DEF LeadsOn
  <2>9. s \in ToSet(ItemsBehind(next))
    <3>1. (k + 1) + 1 = k + 2
      BY <1>6
    <3>2. next.snapshot.items = items /\ Len(next.snapshot.items) = Len(items)
      BY <2>4 DEF items
    <3>3. n \in (next.offset + 1)..Len(next.snapshot.items)
      BY <3>1, <3>2, <2>1, <2>4
    <3>4. s = next.snapshot.items[n]
      BY <3>2, <1>4
    <3>5. QED
      BY <3>3, <3>4, <2>5, BehindIs
  <2>10. x \in AheadBy(Shown, epoch, cap, World)
    BY <2>6, <2>8, <2>9, AheadIs
  <2>11. QED
    BY <2>10 DEF Reached
<1>9. QED
  BY <1>7, <1>8

(* What was told or lay ahead is told or lies ahead after the operation.   *)
LEMMA ReachedStays ==
    ASSUME CountsHold, LedgerHolds(ledger, epoch), OpHolds, CursorHolds,
           op.pc = "after", SomethingFresh, NEW cap,
           NEW x \in Reached(ledger, epoch, cap, World),
           cap \in {"read", "search"} => x <= Lines[file]
    PROVE  x \in Reached(Shown, epoch, cap, World)
<1>1. LedgerHolds(Shown, epoch) /\ ShownIs(Shown)
  BY ShownHolds
<1>2. CASE x \in ToldBy(ledger, epoch, cap, World)
  <2>1. MaterialsKept(ledger, Shown)
    BY <1>1 DEF ShownIs
  <2>2. x \in ToldBy(Shown, epoch, cap, World)
    BY <1>2, <2>1, ToldStays
  <2>3. QED
    BY <2>2 DEF Reached
<1>3. CASE x \in AheadBy(ledger, epoch, cap, World)
  <2>1. PICK i : /\ LeadsOn(ledger, i, epoch, cap, World)
                 /\ \E s \in ToSet(ItemsBehind(ledger.frontiers[i].handle)) :
                        x \in LinesOf(s)
    BY <1>3, AheadIs
  <2>2. PICK s \in ToSet(ItemsBehind(ledger.frontiers[i].handle)) : x \in LinesOf(s)
    BY <2>1
  <2> DEFINE h == ledger.frontiers[i].handle
  <2>3. /\ i \in DOMAIN ledger.frontiers
        /\ ledger.frontiers[i].status = "open" /\ ledger.frontiers[i].epoch = epoch
        /\ h.snapshot.cap = cap /\ h.snapshot.rev = RevOf(cap, World)
        /\ h \in ledger.handles /\ h.snapshot.epoch = epoch
    BY <2>1 DEF LeadsOn
  <2>4. ASSUME h \in Shown.handles, Advances \/ Stales => i # Frontier
        PROVE  x \in Reached(Shown, epoch, cap, World)
    <3>1. /\ i \in DOMAIN Shown.frontiers /\ Shown.frontiers[i].handle = h
          /\ Shown.frontiers[i].status = "open" /\ Shown.frontiers[i].epoch = epoch
      BY <1>1, <2>3, <2>4 DEF ShownIs
    <3>2. h.snapshot \in Shown.snapshots
      BY <1>1, <2>4 DEF LedgerHolds
    <3>3. LeadsOn(Shown, i, epoch, cap, World)
      BY <2>3, <2>4, <3>1, <3>2 DEF LeadsOn
    <3>4. x \in AheadBy(Shown, epoch, cap, World)
      BY <2>2, <3>1, <3>3, AheadIs
    <3>5. QED
      BY <3>4 DEF Reached
  <2>5. CASE ~Advances /\ ~Stales
    BY <1>1, <2>3, <2>4, <2>5 DEF ShownIs
  <2>6. ASSUME Advances \/ Stales
        PROVE  /\ Frontier \in DOMAIN ledger.frontiers
               /\ ledger.frontiers[Frontier].status = "open"
               /\ Cursor = ledger.frontiers[Frontier].handle
    <3>1. CursorError = "none"
      BY <2>6 DEF Advances, Stales, CursorHolds, Continuing
    <3>2. QED
      BY <3>1, CursorIsGood DEF LedgerHolds
  <2>7. CASE Stales
    <3>1. Cursor.snapshot.cap # "tree" /\ Cursor.snapshot.rev # file
      BY <2>7 DEF Stales, CursorHolds, Continuing
    <3>2. h.snapshot # Cursor.snapshot
      BY <3>1, <2>3 DEF RevOf, World
    <3>3. i # Frontier
      BY <2>6, <2>7, <3>2
    <3>4. h \in Shown.handles
      BY <1>1, <2>3, <2>7, <3>2 DEF ShownIs
    <3>5. QED
      BY <2>4, <3>3, <3>4
  <2>8. CASE Advances /\ i # Frontier
    <3>1. h # Cursor
      BY <2>3, <2>6, <2>8 DEF LedgerHolds
    <3>2. h \in Shown.handles
      BY <1>1, <2>3, <2>8, <3>1 DEF ShownIs
    <3>3. QED
      BY <2>4, <2>8, <3>2 DEF Advances, Stales
  <2>9. CASE Advances /\ i = Frontier
    <3>1. Cursor = h
      BY <2>6, <2>9
    <3> HIDE DEF h
    <3>2. /\ Cursor.snapshot.rev = RevOf(Cursor.snapshot.cap, World)
          /\ Cursor.snapshot.cap = cap
      BY <3>1, <2>3
    <3>3. s \in ToSet(ItemsBehind(Cursor))
      BY <3>1 DEF h
    <3>4. QED
      BY <2>2, <2>9, <3>2, <3>3, CursorLeadsOn
  <2>10. QED
    BY <2>5, <2>7, <2>8, <2>9
<1>4. QED
  BY <1>2, <1>3 DEF Reached


(* What is fresh is told, or lies behind the frontier exposed.             *)
LEMMA PageIsTold ==
    ASSUME CountsHold, LedgerHolds(ledger, epoch), OpHolds, OpFresh, CursorHolds,
           op.pc = "after", op.pre = writes, HasToken(op.cap)
    PROVE  /\ PageLinesRead \subseteq ToldBy(Shown, epoch, op.cap, World)
           /\ RestLines \subseteq AheadBy(Shown, epoch, op.cap, World)
<1>1. LedgerHolds(Shown, epoch) /\ ShownIs(Shown)
  BY ShownHolds
<1>2. op.cap \in Tools /\ op.cap # "continue"
  BY DEF HasToken, Tools
<1>3. ASSUME NEW m \in op.page, NEW x \in LinesOf(m.span)
      PROVE  x \in ToldBy(Shown, epoch, op.cap, World)
  <2>1. m.epoch = epoch /\ m.from = {op.cap} /\ m.rev = RevOf(op.cap, World)
    BY <1>2 DEF OpHolds, OpFresh
  <2>2. PICK i \in DOMAIN Shown.materials :
            /\ SameMaterial(m, Shown.materials[i])
            /\ m.from \subseteq Shown.materials[i].from
    BY <1>1 DEF ShownIs
  <2>3. /\ op.cap \in Shown.materials[i].from /\ Shown.materials[i].epoch = epoch
        /\ Shown.materials[i].rev = RevOf(op.cap, World)
        /\ x \in LinesOf(Shown.materials[i].span)
    BY <2>1, <2>2, <1>3 DEF SameMaterial
  <2>4. QED
    BY <2>3, ToldHas
<1>4. ASSUME NEW r \in op.rest, NEW s \in ToSet(r.items), NEW x \in LinesOf(s)
      PROVE  x \in AheadBy(Shown, epoch, op.cap, World)
  <2> DEFINE h == Handle(r, 0)
  <2>1. /\ r.cap = op.cap /\ r.epoch = epoch /\ r.rev = RevOf(op.cap, World)
        /\ h \in Exposed /\ h.snapshot = r /\ h.offset = 0
    BY <1>2 DEF OpHolds, OpFresh, Exposed, Handle
  <2> HIDE DEF h
  <2>2. /\ h \in HandleT /\ h \in Shown.handles
        /\ \E j \in DOMAIN Shown.frontiers :
              /\ Shown.frontiers[j].handle = h
              /\ Shown.frontiers[j].status = "open"
              /\ Shown.frontiers[j].epoch = epoch
    BY <1>1, <2>1 DEF ShownIs
  <2>3. PICK j \in DOMAIN Shown.frontiers :
              /\ Shown.frontiers[j].handle = h
              /\ Shown.frontiers[j].status = "open"
              /\ Shown.frontiers[j].epoch = epoch
    BY <2>2
  <2>4. h.snapshot \in Shown.snapshots
    BY <1>1, <2>2 DEF LedgerHolds
  <2>5. LeadsOn(Shown, j, epoch, op.cap, World)
    BY <2>1, <2>2, <2>3, <2>4 DEF LeadsOn
  <2>6. s \in ToSet(ItemsBehind(h))
    <3>1. r.items \in Seq(SpanT)
      BY <2>1, <2>2 DEF HandleT, SnapshotT
    <3>2. PICK n \in 1..Len(r.items) : s = r.items[n]
      BY <3>1 DEF ToSet
    <3>3. n \in (h.offset + 1)..Len(h.snapshot.items) /\ s = h.snapshot.items[n]
      BY <3>2, <2>1
    <3>4. QED
      BY <3>3, <2>2, BehindIs
  <2>7. QED
    BY <2>3, <2>5, <2>6, <1>4, AheadIs
<1>5. QED
  BY <1>3, <1>4 DEF PageLinesRead, RestLines, LinesShown, LinesLeft

(* The ledger at the end of an operation still tells the truth of the      *)
(* files.                                                                  *)
LEMMA ShownIsFresh ==
    ASSUME CountsHold, LedgerHolds(ledger, epoch),
           LedgerFresh(ledger, epoch, World, writes),
           OpHolds, OpFresh, CursorHolds, op.pc = "after"
    PROVE  LedgerFresh(Shown, epoch, World, writes)
<1>1. LedgerHolds(Shown, epoch) /\ ShownIs(Shown)
  BY ShownHolds
<1>2. /\ TokenAfter \in Nat /\ TokenAfter <= writes
      /\ TokenAfter = writes => op.pre = writes /\ HasToken(op.cap)
  BY PageIsTyped
<1>3. ASSUME NEW i \in DOMAIN Shown.materials
      PROVE  /\ Shown.materials[i].token <= writes
             /\ Shown.materials[i].token = writes /\ HasToken(Shown.materials[i].cap) =>
                  Shown.materials[i].rev = RevOf(Shown.materials[i].cap, World)
  <2>1. CASE /\ i \in DOMAIN ledger.materials
             /\ Shown.materials[i] = ledger.materials[i]
    BY <2>1 DEF LedgerFresh
  <2>2. ASSUME NEW m \in op.page, SameMaterial(m, Shown.materials[i]),
               Shown.materials[i].token = TokenAfter
        PROVE  /\ Shown.materials[i].token <= writes
               /\ Shown.materials[i].token = writes =>
                    Shown.materials[i].rev = RevOf(Shown.materials[i].cap, World)
    <3>1. m.cap = op.cap
      BY DEF OpHolds
    <3>2. TokenAfter = writes => m.rev = RevOf(op.cap, World)
      BY <1>2 DEF OpFresh
    <3>3. QED
      BY <3>1, <3>2, <2>2, <1>2 DEF SameMaterial
  <2>3. QED
    BY <2>1, <2>2, <1>1 DEF ShownIs
<1>4. ASSUME NEW e \in ledger.entries, e.token = writes, HasToken(e.cap)
      PROVE  EntryFresh(Shown, epoch, e, World)
  <2>1. EntryFresh(ledger, epoch, e, World) /\ SomethingFresh
    BY <1>4 DEF LedgerFresh, SomethingFresh
  <2>2. MaterialsKept(ledger, Shown) /\ e.materials \subseteq DOMAIN ledger.materials
    BY <1>1 DEF ShownIs, LedgerHolds
  <2>3. \A i \in e.materials : Shown.materials[i].rev = RevOf(e.cap, World)
    BY <2>1, <2>2 DEF EntryFresh, MaterialsKept, SameMaterial
  <2>4. ASSUME e.epoch = epoch, NEW x \in Scope(e.cap, e.request, World)
        PROVE  x \in Reached(Shown, epoch, e.cap, World)
    <3>1. x \in Reached(ledger, epoch, e.cap, World)
      BY <2>1, <2>4 DEF EntryFresh
    <3>2. e.cap \in {"read", "search"} => x <= Lines[file]
      <4>1. e.cap \in {"read", "search"} => x \in 1..Lines[World.file]
        BY <2>4 DEF Scope
      <4>2. Lines[file] \in Nat
        BY SourceAssumption DEF CountsHold, SourceTypeOK
      <4>3. QED
        BY <4>1, <4>2 DEF World
    <3>3. QED
      BY <2>1, <3>1, <3>2, ReachedStays
  <2>5. ToldBy(ledger, epoch, "read", World) \subseteq ToldBy(Shown, epoch, "read", World)
    BY <2>2, ToldStays
  <2>6. QED
    BY <2>1, <2>3, <2>4, <2>5 DEF EntryFresh
<1>5. QED
  BY <1>1, <1>3, <1>4 DEF LedgerFresh, ShownIs

(* The entry recorded is true of the files, if it carries their token.     *)
LEMMA EntryIsFresh ==
    ASSUME CountsHold, LedgerHolds(ledger, epoch),
           OpHolds, OpFresh, CursorHolds, op.pc = "after"
    PROVE  /\ Entry \in EntryT /\ Entry.epoch = epoch
           /\ Entry.materials \subseteq DOMAIN Shown.materials
           /\ Entry.refused => Entry.request.path = "secret"
           /\ Entry.token <= writes
           /\ Reusable /\ Entry.token = writes /\ HasToken(Entry.cap) =>
                 EntryFresh(Shown, epoch, Entry, World)
<1>1. LedgerHolds(Shown, epoch) /\ ShownIs(Shown)
  BY ShownHolds
<1>2. /\ TokenAfter \in Nat /\ TokenAfter <= writes
      /\ TokenAfter = writes => op.pre = writes /\ HasToken(op.cap)
      /\ \A n \in Page : \E m \in op.page : SameMaterial(m, n)
  BY PageIsTyped
<1> DEFINE e == Entry
<1>3. /\ e.cap = op.cap /\ e.request = op.request /\ e.epoch = epoch
      /\ e.materials = IdsOf(Shown, Page) /\ e.token = TokenAfter
      /\ e.examined = op.examined /\ e.refused = (op.result = "refused")
  BY DEF Entry
<1>4. IdsOf(Shown, Page) \subseteq DOMAIN Shown.materials
  BY DEF IdsOf, MaterialIds
<1>5. e \in EntryT
  <2>1. /\ op.cap \in Caps /\ op.request \in RequestT /\ op.examined \in SpanT
        /\ op.page \in SUBSET MaterialT
    BY DEF OpHolds, OpTyped
  <2>2. Shown.materials \in Seq(MaterialT) /\ Shown.frontiers \in Seq(FrontierT)
    BY <1>1 DEF LedgerHolds, LedgerT
  <2>3. DOMAIN Shown.materials \subseteq Nat /\ DOMAIN Shown.frontiers \subseteq Nat
    BY <2>2
  <2> DEFINE F == UNION {OpenFor(Shown, h) : h \in Exposed}
             R == IF op.cap = "read" /\ op.page # {}
                  THEN (CHOOSE m \in op.page : TRUE).rev ELSE NoBody
             C == op.result = "refused"
  <2>4. F \in SUBSET Nat
    BY <2>3 DEF OpenFor, FrontierIds
  <2>5. R \in Bodies
    <3>1. CASE op.page # {}
      <4>1. (CHOOSE m \in op.page : TRUE) \in MaterialT
        BY <2>1, <3>1
      <4>2. (CHOOSE m \in op.page : TRUE).rev \in Rev
        BY <4>1 DEF MaterialT
      <4>3. QED
        BY <4>2 DEF Bodies
    <3>2. QED
      BY <3>1 DEF Bodies
  <2>6. C \in BOOLEAN /\ IdsOf(Shown, Page) \in SUBSET Nat
        /\ ops \in Nat /\ epoch \in Nat
    BY <1>4, <2>3 DEF CountsHold
  <2>7. e = [cap |-> op.cap, request |-> op.request, epoch |-> epoch,
             materials |-> IdsOf(Shown, Page), frontiers |-> F,
             token |-> TokenAfter, examined |-> op.examined, revision |-> R,
             refused |-> C, turn |-> ops]
    BY DEF Entry
  <2> HIDE DEF F, R, C, e
  <2>8. QED
    BY <1>2, <2>1, <2>4, <2>5, <2>6, <2>7 DEF EntryT
<1> HIDE DEF e
<1>6. e.refused => e.request.path = "secret"
  BY <1>3 DEF OpHolds
<1>7. ASSUME Reusable, e.token = writes, HasToken(e.cap)
      PROVE  EntryFresh(Shown, epoch, e, World)
  <2>1. op.pre = writes /\ HasToken(op.cap)
    BY <1>2, <1>3, <1>7
  <2>2. /\ PageLinesRead \subseteq ToldBy(Shown, epoch, op.cap, World)
        /\ RestLines \subseteq AheadBy(Shown, epoch, op.cap, World)
    BY <2>1, PageIsTold
  <2>3. ASSUME NEW i \in e.materials
        PROVE  Shown.materials[i].rev = RevOf(op.cap, World)
    <3>1. PICK n \in Page : SameMaterial(Shown.materials[i], n)
      BY <1>3 DEF IdsOf
    <3>2. PICK m \in op.page : SameMaterial(m, n)
      BY <1>2
    <3>3. m.rev = RevOf(op.cap, World)
      BY <2>1 DEF OpFresh
    <3>4. QED
      BY <3>1, <3>2, <3>3 DEF SameMaterial
  <2>4. /\ Scope(op.cap, op.request, World) \subseteq PageLinesRead \union RestLines
        /\ op.cap = "read" /\ op.examined.last > 0 =>
              LinesOf(op.examined) \subseteq PageLinesRead
    BY <2>1, <1>7 DEF OpFresh
  <2>5. Scope(op.cap, op.request, World) \subseteq Reached(Shown, epoch, op.cap, World)
    BY <2>2, <2>4 DEF Reached
  <2>6. op.cap = "read" /\ op.examined.last > 0 =>
            LinesOf(op.examined) \subseteq ToldBy(Shown, epoch, "read", World)
    BY <2>2, <2>4
  <2>7. QED
    BY <1>3, <2>3, <2>5, <2>6 DEF EntryFresh
<1>8. QED
  BY <1>2, <1>3, <1>4, <1>5, <1>6, <1>7 DEF e


(* What was reached stays reached when only entries, and the texts of the  *)
(* materials, change.                                                      *)
LEMMA ReachedSame ==
    ASSUME NEW l, NEW r, MaterialsKept(l, r), r.frontiers = l.frontiers,
           r.handles = l.handles, r.snapshots = l.snapshots,
           NEW ep, NEW e, e.materials \subseteq DOMAIN l.materials, NEW w,
           EntryFresh(l, ep, e, w)
    PROVE  EntryFresh(r, ep, e, w)
<1>1. \A i \in e.materials : r.materials[i].rev = RevOf(e.cap, w)
  BY DEF EntryFresh, MaterialsKept, SameMaterial
<1>2. \A cap : ToldBy(l, ep, cap, w) \subseteq ToldBy(r, ep, cap, w)
  BY ToldStays
<1>3. \A cap, i : LeadsOn(l, i, ep, cap, w) => LeadsOn(r, i, ep, cap, w)
  BY DEF LeadsOn
<1>4. ASSUME NEW cap, NEW x \in AheadBy(l, ep, cap, w)
      PROVE  x \in AheadBy(r, ep, cap, w)
  <2>1. PICK i : /\ LeadsOn(l, i, ep, cap, w)
                 /\ \E s \in ToSet(ItemsBehind(l.frontiers[i].handle)) :
                        x \in LinesOf(s)
    BY AheadIs
  <2>2. /\ LeadsOn(r, i, ep, cap, w)
        /\ \E s \in ToSet(ItemsBehind(r.frontiers[i].handle)) : x \in LinesOf(s)
    BY <2>1, <1>3
  <2>3. QED
    BY <2>2, AheadIs
<1>5. Reached(l, ep, e.cap, w) \subseteq Reached(r, ep, e.cap, w)
  BY <1>2, <1>4 DEF Reached
<1>6. QED
  BY <1>1, <1>2, <1>5 DEF EntryFresh

(* The end of an operation keeps what the session keeps.                   *)
LEMMA RecordKeeps ==
    ASSUME CountsHold, LedgerHolds(ledger, epoch),
           LedgerFresh(ledger, epoch, World, writes),
           OpHolds, OpFresh, CursorHolds, op.pc = "after"
    PROVE  /\ LedgerHolds(Recorded, epoch)
           /\ LedgerFresh(Recorded, epoch, World, writes)
<1>1. LedgerHolds(Shown, epoch) /\ LedgerFresh(Shown, epoch, World, writes)
  BY ShownHolds, ShownIsFresh
<1>2. /\ Entry \in EntryT /\ Entry.epoch = epoch /\ Entry.token <= writes
      /\ Entry.materials \subseteq DOMAIN Shown.materials
      /\ Entry.refused => Entry.request.path = "secret"
      /\ Reusable /\ Entry.token = writes /\ HasToken(Entry.cap) =>
            EntryFresh(Shown, epoch, Entry, World)
  BY EntryIsFresh
<1>3. CASE ~Reusable
  BY <1>1, <1>3, RecordedIs
<1>4. CASE Reusable
  <2> DEFINE old == Shown.entries \ Lookup(Shown, op.cap, op.request, epoch)
             r == Recorded
             s == Shown
             e == Entry
  <2>1. r = [s EXCEPT !.entries = old \union {e}]
    BY <1>4, RecordedIs DEF RecordEntry, Entry
  <2>2. old \subseteq s.entries
    OBVIOUS
  <2>3. s \in LedgerT /\ epoch \in Nat
    BY <1>1 DEF LedgerHolds, CountsHold
  <2> HIDE DEF old, r, s, e
  <2>4. /\ r.entries = old \union {e} /\ r.materials = s.materials
        /\ r.frontiers = s.frontiers /\ r.handles = s.handles
        /\ r.snapshots = s.snapshots
    BY <2>1, <2>3 DEF LedgerT
  <2>5. r \in LedgerT
    BY <2>1, <2>2, <2>3, <1>2 DEF LedgerT, e
  <2>6. IsFiniteSet(r.entries)
    <3>1. IsFiniteSet(old)
      BY <1>1, <2>2, FS_Subset DEF LedgerHolds, s
    <3>2. QED
      BY <3>1, <2>4, FS_AddElement
  <2>7. \A x \in r.entries : /\ x.epoch <= epoch
                             /\ x.materials \subseteq DOMAIN r.materials
                             /\ x.refused => x.request.path = "secret"
    BY <1>1, <1>2, <2>2, <2>3, <2>4 DEF LedgerHolds, s, e
  <2>8. LedgerHolds(r, epoch)
    BY <1>1, <2>4, <2>5, <2>6, <2>7 DEF LedgerHolds, s
  <2>9. MaterialsKept(s, r)
    BY <2>4 DEF MaterialsKept, SameMaterial
  <2>10. ASSUME NEW x \in r.entries
         PROVE  /\ x.token <= writes
                /\ x.token = writes /\ HasToken(x.cap) =>
                     EntryFresh(r, epoch, x, World)
    <3>1. x.materials \subseteq DOMAIN s.materials
      BY <2>4, <2>7
    <3>2. /\ x.token <= writes
          /\ x.token = writes /\ HasToken(x.cap) => EntryFresh(s, epoch, x, World)
      BY <1>1, <1>2, <1>4, <2>2, <2>4 DEF LedgerFresh, s, e
    <3>3. QED
      BY <2>4, <2>9, <3>1, <3>2, ReachedSame
  <2>11. LedgerFresh(r, epoch, World, writes)
    BY <1>1, <2>4, <2>10 DEF LedgerFresh, s
  <2>12. QED
    BY <2>8, <2>11 DEF r
<1>5. QED
  BY <1>3, <1>4

-------------------------------------------------------------------------------
(* The steps keep the invariant.                                           *)

(* A step of an operation leaves the rest alone.                           *)
LEMMA StepsKeep ==
    ASSUME ObservationIInv,
           UNCHANGED <<sourceVars, sessionVars, answer, countVars>>,
           OpHolds', OpFresh', CursorHolds', ProofHolds'
    PROVE  ObservationIInv'
<1>1. /\ file' = file /\ listing' = listing /\ writes' = writes /\ edits' = edits
      /\ ledger' = ledger /\ epoch' = epoch /\ saved' = saved
      /\ answer' = answer /\ ops' = ops /\ effects' = effects /\ kills' = kills
  BY DEF sourceVars, sessionVars, countVars
<1>2. CountsHold'
  BY <1>1 DEF ObservationIInv, CountsHold, SourceTypeOK
<1>3. World' = World
  BY <1>1 DEF World
<1>4. /\ LedgerHolds(ledger, epoch)' /\ LedgerFresh(ledger, epoch, World, writes)'
      /\ LedgerHolds(saved.ledger, saved.epoch)'
      /\ LedgerFresh(saved.ledger, saved.epoch, World, writes)'
      /\ (saved = [ledger |-> saved.ledger, epoch |-> saved.epoch, moments |-> saved.moments])'
  BY <1>1, <1>3 DEF ObservationIInv
<1>5. RecallIsProved' /\ ReplayIsCurrent'
  <2>1. /\ \A cap, w : Told(cap, w)' = Told(cap, w)
        /\ \A cap, w : Ahead(cap, w)' = Ahead(cap, w)
    BY <1>1 DEF Told, Ahead
  <2>2. RecallIsProved'
    BY <1>1 DEF ObservationIInv, RecallIsProved
  <2>3. QED
    BY <1>1, <2>1, <2>2 DEF ObservationIInv, ReplayIsCurrent
<1>6. QED
  BY <1>2, <1>4, <1>5 DEF ObservationIInv

(* Between two operations there is nothing to be true of one.              *)
LEMMA IdleHolds ==
    ASSUME writes \in Nat, op = NoOp
    PROVE  OpHolds /\ OpFresh /\ CursorHolds /\ ProofHolds
<1>1. /\ op.cap = "none" /\ op.request = NoRequest /\ op.pc = "idle"
      /\ op.left = {} /\ op.pre = NoToken /\ op.found = <<>>
      /\ op.page = {} /\ op.rest = {} /\ op.examined = Span(0, 0)
      /\ op.result = "none"
  BY DEF NoOp
<1>2. OpTyped
  <2>1. NoRequest \in RequestT /\ Span(0, 0) \in SpanT
    BY DEF NoRequest, RequestT, SpanT, Span
  <2>2. <<>> \in Seq(SpanT) /\ NoToken \in Nat
    BY DEF NoToken
  <2>3. QED
    BY <2>1, <2>2 DEF OpTyped, NoOp, Pcs, Results
<1>3. OpHolds
  BY <1>1, <1>2 DEF OpHolds, NoToken
<1>4. OpFresh
  BY <1>1 DEF OpFresh, HasToken
<1>5. CursorHolds /\ ProofHolds
  BY <1>1 DEF CursorHolds, ProofHolds, HasToken
<1>6. QED
  BY <1>3, <1>4, <1>5

(* The end of an operation.                                                *)
LEMMA RecordStep ==
    ASSUME ObservationIInv, Record
    PROVE  ObservationIInv'
<1>1. /\ op.pc = "after" /\ ledger' = Recorded /\ op' = NoOp
      /\ file' = file /\ listing' = listing /\ writes' = writes /\ edits' = edits
      /\ epoch' = epoch /\ saved' = saved
      /\ answer' = answer /\ ops' = ops /\ effects' = effects /\ kills' = kills
  BY DEF Record, sourceVars, countVars
<1>2. CountsHold' /\ World' = World
  BY <1>1 DEF ObservationIInv, CountsHold, SourceTypeOK, World
<1>3. LedgerHolds(Recorded, epoch) /\ LedgerFresh(Recorded, epoch, World, writes)
  BY <1>1, RecordKeeps DEF ObservationIInv
<1>4. LedgerHolds(ledger, epoch)' /\ LedgerFresh(ledger, epoch, World, writes)'
  BY <1>1, <1>2, <1>3
<1>5. /\ LedgerHolds(saved.ledger, saved.epoch)'
      /\ LedgerFresh(saved.ledger, saved.epoch, World, writes)'
      /\ (saved = [ledger |-> saved.ledger, epoch |-> saved.epoch, moments |-> saved.moments])'
  BY <1>1, <1>2 DEF ObservationIInv
<1>6. OpHolds' /\ OpFresh' /\ CursorHolds' /\ ProofHolds'
  <2>1. writes' \in Nat
    BY <1>2 DEF CountsHold, SourceTypeOK
  <2>2. ((writes \in Nat /\ op = NoOp) => (OpHolds /\ OpFresh /\ CursorHolds /\ ProofHolds))'
    BY IdleHolds, PTL
  <2>3. QED
    BY <2>1, <2>2, <1>1
<1>7. RecallIsProved' /\ ReplayIsCurrent'
  BY <1>1 DEF ObservationIInv, OpHolds, RecallIsProved, ReplayIsCurrent
<1>8. QED
  BY <1>2, <1>4, <1>5, <1>6, <1>7 DEF ObservationIInv


(* A material made by the operation under way.                             *)
LEMMA MaterialIs ==
    ASSUME CountsHold, op.cap \in Caps, NEW of \in {"file", "facts"},
           NEW from \in Caps, NEW span \in SpanT, NEW rev \in Rev
    PROVE  LET m == Material(of, from, span, rev) IN
           /\ m \in MaterialT /\ m.cap = op.cap /\ m.from = {from}
           /\ m.span = span /\ m.rev = rev /\ m.body = rev /\ m.epoch = epoch
BY DEF Material, MaterialT, Bodies, NoToken, CountsHold

(* A range of lines read: those of the file that are in it.                *)
LEMMA LerFaixaIs ==
    ASSUME CountsHold, op.cap \in Caps, NEW from \in Caps, NEW span \in SpanT
    PROVE  LET p == LerFaixa(from, span) IN
           /\ p \in SUBSET MaterialT
           /\ \A m \in p : /\ p = {m} /\ m.cap = op.cap /\ m.epoch = epoch
                           /\ m.from = {from} /\ m.rev = file /\ m.body = m.rev
           /\ \A l \in LinesOf(span) :
                 l <= Lines[file] => \E m \in p : l \in LinesOf(m.span)
<1> DEFINE cut == Span(span.first, Min({span.last, Lines[file]}))
           m == Material("file", from, cut, file)
<1>1. /\ span.first \in Nat /\ span.last \in Nat /\ Lines[file] \in Nat
      /\ file \in Rev
  BY SourceAssumption DEF CountsHold, SourceTypeOK, SpanT, Rev
<1>2. \A x \in Nat, y \in Nat : Min({x, y}) = IF x <= y THEN x ELSE y
  BY DEF Min
<1>3. cut \in SpanT /\ cut.first = span.first
      /\ cut.last = IF span.last <= Lines[file] THEN span.last ELSE Lines[file]
  BY <1>1, <1>2 DEF Span, SpanT
<1> HIDE DEF cut
<1>4. /\ m \in MaterialT /\ m.cap = op.cap /\ m.from = {from}
      /\ m.span = cut /\ m.rev = file /\ m.body = file /\ m.epoch = epoch
  BY <1>1, <1>3, MaterialIs
<1>5. CASE span.first > Lines[file]
  <2>1. LerFaixa(from, span) = {}
    BY <1>5 DEF LerFaixa
  <2>2. \A l \in LinesOf(span) : ~(l <= Lines[file])
    BY <1>1, <1>5 DEF LinesOf
  <2>3. QED
    BY <2>1, <2>2
<1>6. CASE ~(span.first > Lines[file])
  <2>1. LerFaixa(from, span) = {m}
    BY <1>6 DEF LerFaixa, cut
  <2>2. \A l \in LinesOf(span) : l <= Lines[file] => l \in LinesOf(cut)
    BY <1>1, <1>3 DEF LinesOf
  <2> HIDE DEF m
  <2>3. QED
    BY <2>1, <2>2, <1>4
<1>7. QED
  BY <1>5, <1>6

(* read_file.                                                              *)
LEMMA ReadFileStep ==
    ASSUME ObservationIInv, ReadFile
    PROVE  ObservationIInv'
<1> DEFINE request == op.request.span
           end == IF request.last = 0 THEN Lines[file]
                  ELSE Min({request.last, Lines[file]})
           shown == Span(request.first, Min({request.first + PageLines - 1, end}))
           pages == PagesAfter(shown.last, end)
           page == LerFaixa("read", shown)
           rest == IF pages = <<>> THEN {} ELSE {Snapshot("read", pages, file)}
           refuse == [op EXCEPT !.pc = "after", !.result = "refused"]
           fail == [op EXCEPT !.pc = "after", !.result = "failed"]
           show == [op EXCEPT !.pc = "after", !.result = "ok",
                              !.page = page, !.examined = shown, !.rest = rest]
<1>1. /\ op.cap = "read" /\ op.pc = "look"
      /\ UNCHANGED <<sourceVars, sessionVars, answer, countVars>>
  BY DEF ReadFile, Looks, Steps
<1>2. \/ op.request.path = "secret" /\ op' = refuse
      \/ op.request.path # "secret" /\ request.first > Lines[file] /\ op' = fail
      \/ /\ op.request.path # "secret" /\ ~(request.first > Lines[file])
         /\ op' = show
  BY DEF ReadFile, Steps
<1>3. /\ op \in [cap : Caps \union {"none"}, request : RequestT, pc : Pcs,
                 prev : {op.prev}, left : SUBSET Nat, pre : Nat, seen : {op.seen},
                 found : Seq(SpanT), page : SUBSET MaterialT,
                 rest : SUBSET SnapshotT, examined : SpanT, result : Results]
      /\ op.page = {} /\ op.rest = {} /\ op.examined = Span(0, 0)
      /\ op.pre <= writes /\ answer.what = "none" /\ CountsHold
  BY <1>1 DEF ObservationIInv, OpHolds, OpTyped
<1>4. /\ World' = World /\ writes' = writes /\ file' = file /\ epoch' = epoch
      /\ ledger' = ledger /\ answer' = answer
  BY <1>1 DEF World, sourceVars, sessionVars
<1>5. /\ request \in SpanT /\ Lines[file] \in Nat /\ end \in Nat
      /\ end = (IF request.last = 0 THEN Lines[file]
                ELSE IF request.last <= Lines[file] THEN request.last
                ELSE Lines[file])
      /\ shown \in SpanT /\ shown.first = request.first
      /\ shown.last <= end /\ shown.last \in Nat
  <2>1. request \in SpanT /\ Lines[file] \in Nat
    BY <1>3, SourceAssumption DEF RequestT, CountsHold, SourceTypeOK
  <2>2. \A x \in Nat, y \in Nat : Min({x, y}) = IF x <= y THEN x ELSE y
    BY DEF Min
  <2>3. end \in Nat
        /\ end = (IF request.last = 0 THEN Lines[file]
                  ELSE IF request.last <= Lines[file] THEN request.last
                  ELSE Lines[file])
    BY <2>1, <2>2 DEF SpanT
  <2>4. request.first \in Nat /\ request.first + PageLines - 1 \in Nat
    BY <2>1, RangesAssumption DEF SpanT
  <2> DEFINE stop == Min({request.first + PageLines - 1, end})
  <2> HIDE DEF end
  <2>5. stop \in Nat /\ stop <= end
    BY <2>2, <2>3, <2>4
  <2> HIDE DEF stop
  <2>6. shown = [first |-> request.first, last |-> stop]
    BY DEF Span, stop
  <2>7. QED
    BY <2>1, <2>3, <2>4, <2>5, <2>6 DEF SpanT
<1> HIDE DEF request, end, shown
<1>6. /\ page \in SUBSET MaterialT
      /\ \A m \in page : /\ page = {m} /\ m.cap = op.cap /\ m.epoch = epoch
                         /\ m.from = {"read"} /\ m.rev = file /\ m.body = m.rev
      /\ \A l \in LinesOf(shown) :
            l <= Lines[file] => \E m \in page : l \in LinesOf(m.span)
  BY <1>1, <1>3, <1>5, LerFaixaIs DEF Caps, Tools
<1>7. /\ pages \in Seq(SpanT)
      /\ \A l \in (shown.last + 1)..end :
            \E s \in ToSet(pages) : l \in LinesOf(s)
  BY <1>5, PagesHoldTheRest
<1> HIDE DEF page, pages
<1>8. /\ rest \in SUBSET SnapshotT
      /\ \A s \in rest : /\ s.cap = "read" /\ s.epoch = epoch /\ s.items = pages
                         /\ s.rev = file /\ s.items # <<>> /\ rest = {s}
      /\ pages # <<>> => rest # {}
  <2> DEFINE snap == Snapshot("read", pages, file)
  <2>1. /\ snap.cap = "read" /\ snap.epoch = epoch /\ snap.items = pages
        /\ snap.rev = file /\ snap = [cap |-> "read", items |-> pages,
                                      rev |-> file, epoch |-> epoch]
    BY DEF Snapshot
  <2>2. rest = IF pages = <<>> THEN {} ELSE {snap}
    OBVIOUS
  <2> HIDE DEF snap, rest
  <2>3. snap \in SnapshotT
    <3>1. file \in Rev /\ epoch \in Nat
      BY <1>3 DEF Rev, CountsHold, SourceTypeOK
    <3>2. QED
      BY <3>1, <1>7, <2>1 DEF SnapshotT, Tools
  <2>4. QED
    BY <2>1, <2>2, <2>3
<1> HIDE DEF rest
<1>9. \A l \in LinesOf(shown) : l <= Lines[file]
  BY <1>5 DEF LinesOf, SpanT
<1>10. Scope("read", op.request, World) \subseteq LinesShown(page) \union LinesLeft(rest)
  <2>1. ASSUME NEW l \in Scope("read", op.request, World)
        PROVE  l \in LinesShown(page) \union LinesLeft(rest)
    <3>1. /\ l \in 1..Lines[file] /\ l >= request.first
          /\ request.last # 0 => l <= request.last
      BY DEF Scope, World, request
    <3>2. request.first \in Nat /\ request.last \in Nat /\ l \in Nat /\ l <= Lines[file]
      BY <1>5, <3>1 DEF SpanT
    <3>3. l <= end
      BY <1>5, <3>1, <3>2
    <3>4. CASE l <= shown.last
      <4>1. l \in shown.first..shown.last
        BY <1>5, <3>1, <3>2, <3>4
      <4>2. QED
        BY <4>1, <3>2, <1>6 DEF LinesOf, LinesShown
    <3>5. CASE ~(l <= shown.last)
      <4>1. l \in (shown.last + 1)..end
        BY <1>5, <3>2, <3>3, <3>5
      <4>2. PICK s \in ToSet(pages) : l \in LinesOf(s)
        BY <4>1, <1>7
      <4>3. pages # <<>>
        BY <4>2 DEF ToSet
      <4>4. QED
        BY <4>2, <4>3, <1>8 DEF LinesLeft
    <3>6. QED
      BY <3>4, <3>5
  <2>2. QED
    BY <2>1
<1>11. CASE op.request.path = "secret" /\ op' = refuse
  <2>1. OpHolds'
    BY <1>1, <1>3, <1>4, <1>11 DEF OpHolds, OpTyped, Pcs, Results, Caps
  <2>2. Scope("read", op.request, World) = {}
    BY <1>11 DEF Scope
  <2>3. OpFresh'
    BY <1>1, <1>3, <1>4, <1>11, <2>2 DEF OpFresh, HasToken, Span
  <2>4. CursorHolds' /\ ProofHolds'
    BY <1>1, <1>3, <1>11 DEF CursorHolds, ProofHolds
  <2>5. QED
    BY <1>1, <2>1, <2>3, <2>4, StepsKeep
<1>12. CASE request.first > Lines[file] /\ op' = fail
  <2>1. OpHolds'
    BY <1>1, <1>3, <1>4, <1>12 DEF OpHolds, OpTyped, Pcs, Results, Caps
  <2>2. OpFresh'
    BY <1>1, <1>3, <1>4, <1>12 DEF OpFresh, HasToken, Span, Reusable
  <2>3. CursorHolds' /\ ProofHolds'
    BY <1>1, <1>3, <1>12 DEF CursorHolds, ProofHolds
  <2>4. QED
    BY <1>1, <2>1, <2>2, <2>3, StepsKeep
<1>13. CASE op' = show
  <2>1. /\ op'.cap = "read" /\ op'.pc = "after" /\ op'.result = "ok"
        /\ op'.page = page /\ op'.rest = rest /\ op'.examined = shown
        /\ op'.request = op.request /\ op'.pre = op.pre
    BY <1>1, <1>3, <1>13
  <2>2. OpTyped'
    BY <1>3, <1>5, <1>6, <1>8, <1>13, ZenonT(240) DEF OpTyped, Pcs, Results
  <2>3. OpHolds'
    BY <1>1, <1>3, <1>4, <1>6, <1>8, <2>1, <2>2 DEF OpHolds
  <2>4. PageLinesRead' = LinesShown(page) /\ RestLines' = LinesLeft(rest)
    BY <2>1 DEF PageLinesRead, RestLines
  <2>5. LinesOf(shown) \subseteq LinesShown(page)
    BY <1>6, <1>9 DEF LinesShown
  <2>6. OpFresh'
    <3>1. \A m \in op'.page : m.rev = RevOf(op'.cap, World')
      BY <1>4, <1>6, <2>1 DEF RevOf, World
    <3>2. \A s \in op'.rest : s.rev = RevOf(op'.cap, World')
      BY <1>4, <1>8, <2>1 DEF RevOf, World
    <3>3. Scope(op'.cap, op'.request, World') \subseteq PageLinesRead' \union RestLines'
      BY <1>4, <1>10, <2>1, <2>4
    <3>4. LinesOf(op'.examined) \subseteq PageLinesRead'
      BY <2>1, <2>4, <2>5
    <3>5. QED
      BY <2>1, <3>1, <3>2, <3>3, <3>4 DEF OpFresh
  <2>7. CursorHolds' /\ ProofHolds'
    BY <2>1 DEF CursorHolds, ProofHolds
  <2>8. QED
    BY <1>1, <2>3, <2>6, <2>7, StepsKeep
<1>14. QED
  BY <1>2, <1>11, <1>12, <1>13


(* What is to be shown of a step of search_code, find_symbol or list_tree. *)
PageFits(page) ==
    \A m \in page : /\ page = {m} /\ m.cap = op.cap /\ m.epoch = epoch
                    /\ m.from = {op.cap} /\ m.body = m.rev

RestFits(rest) ==
    \A s \in rest : /\ s.cap = op.cap /\ s.epoch = epoch
                    /\ s.items # <<>> /\ rest = {s}

StepIsFresh(pc, found, page, rest, result) ==
    op.pre = writes =>
        /\ \A m \in page : m.rev = RevOf(op.cap, World)
        /\ \A s \in rest : s.rev = RevOf(op.cap, World)
        /\ op.cap = "search" /\ pc \in {"show", "bind"} =>
              found = GroupAllSearchRanges(Matched[file])
        /\ pc = "bind" => LinesOf(Head(found)) \intersect (1..Lines[file])
                            \subseteq LinesShown(page)
        /\ op.cap = "find" /\ pc = "show" => found = Places /\ Len(Places) = 1
        /\ pc = "walk" => 1 \in LinesShown(page)
        /\ pc = "after" /\ (result = "ok" \/ page # {}) =>
              Scope(op.cap, op.request, World)
                 \subseteq LinesShown(page) \union LinesLeft(rest)

(* Where such a step leads.                                                *)
StepsTo(pc, found, page, rest, result) ==
    /\ pc \in {"show", "bind", "walk", "after"}
    /\ found \in Seq(SpanT)
    /\ page \in SUBSET MaterialT
    /\ rest \in SUBSET SnapshotT
    /\ result \in Results \ {"refused"}
    /\ op' = [op EXCEPT !.pc = pc, !.found = found, !.page = page,
                        !.rest = rest, !.result = result]
    /\ PageFits(page)
    /\ RestFits(rest)
    /\ pc \in {"show", "bind"} => found # <<>>
    /\ pc = "bind" => Len(found) # 1
    /\ StepIsFresh(pc, found, page, rest, result)

(* Such a step.                                                            *)
LEMMA ToolStep ==
    ASSUME ObservationIInv, op.pc \in {"look", "show", "bind", "walk"},
           op.cap \in {"search", "find", "tree"},
           UNCHANGED <<sourceVars, sessionVars, answer, countVars>>,
           NEW pc, NEW found, NEW page, NEW rest, NEW result,
           StepsTo(pc, found, page, rest, result)
    PROVE  ObservationIInv'
<1>0. /\ pc \in {"show", "bind", "walk", "after"} /\ found \in Seq(SpanT)
      /\ page \in SUBSET MaterialT /\ rest \in SUBSET SnapshotT
      /\ result \in Results \ {"refused"}
      /\ op' = [op EXCEPT !.pc = pc, !.found = found, !.page = page,
                          !.rest = rest, !.result = result]
      /\ PageFits(page) /\ RestFits(rest)
      /\ pc \in {"show", "bind"} => found # <<>>
      /\ pc = "bind" => Len(found) # 1
      /\ StepIsFresh(pc, found, page, rest, result)
  BY DEF StepsTo
<1>1. /\ op \in [cap : Caps \union {"none"}, request : RequestT, pc : Pcs,
                 prev : {op.prev}, left : SUBSET Nat, pre : Nat, seen : {op.seen},
                 found : Seq(SpanT), page : SUBSET MaterialT,
                 rest : SUBSET SnapshotT, examined : SpanT, result : Results]
      /\ op.pre <= writes /\ answer.what = "none" /\ CountsHold
  BY DEF ObservationIInv, OpHolds, OpTyped
<1>2. /\ World' = World /\ writes' = writes /\ file' = file /\ epoch' = epoch
      /\ ledger' = ledger /\ answer' = answer
  BY DEF World, sourceVars, sessionVars
<1>3. /\ op'.cap = op.cap /\ op'.pc = pc /\ op'.found = found /\ op'.page = page
      /\ op'.rest = rest /\ op'.result = result /\ op'.pre = op.pre
      /\ op'.request = op.request
  BY <1>0, <1>1
<1>4. OpTyped'
  BY <1>0, <1>1, ZenonT(240) DEF OpTyped, Pcs, Results
<1>5. OpHolds'
  BY <1>0, <1>1, <1>2, <1>3, <1>4 DEF OpHolds, PageFits, RestFits
<1>6. OpFresh'
  <2>1. PageLinesRead' = LinesShown(page) /\ RestLines' = LinesLeft(rest)
    BY <1>3 DEF PageLinesRead, RestLines
  <2>2. Places' = Places
    BY <1>2 DEF Places
  <2>3. Reusable' => result = "ok" \/ page # {}
    BY <1>0, <1>3 DEF Reusable
  <2>4. QED
    BY <1>0, <1>2, <1>3, <2>1, <2>2, <2>3 DEF OpFresh, StepIsFresh
<1>7. CursorHolds' /\ ProofHolds'
  BY <1>0, <1>3 DEF CursorHolds, ProofHolds
<1>8. QED
  BY <1>5, <1>6, <1>7, StepsKeep

(* A sequence is its first member and the rest.                            *)
LEMMA FirstAndRest ==
    ASSUME NEW q \in Seq(SpanT), q # <<>>
    PROVE  /\ Head(q) \in SpanT /\ Tail(q) \in Seq(SpanT)
           /\ Len(q) # 1 => Tail(q) # <<>>
           /\ ToSet(q) \subseteq {Head(q)} \union ToSet(Tail(q))
<1>1. /\ Head(q) \in SpanT /\ Tail(q) \in Seq(SpanT) /\ Head(q) = q[1]
      /\ Len(Tail(q)) = Len(q) - 1 /\ Len(q) \in Nat \ {0}
      /\ \A i \in 1..Len(Tail(q)) : Tail(q)[i] = q[i + 1]
  <2>1. Head(q) \in SpanT /\ Tail(q) \in Seq(SpanT) /\ Len(Tail(q)) = Len(q) - 1
        /\ \A i \in 1..Len(Tail(q)) : Tail(q)[i] = q[i + 1]
    BY HeadTailProperties
  <2>2. Len(q) \in Nat \ {0} /\ Head(q) = q[1]
    BY EmptySeq
  <2>3. QED
    BY <2>1, <2>2
<1>2. ASSUME NEW s \in ToSet(q) PROVE s \in {Head(q)} \union ToSet(Tail(q))
  <2>1. PICK i \in 1..Len(q) : s = q[i]
    BY DEF ToSet
  <2>2. CASE i = 1
    BY <2>1, <2>2, <1>1
  <2>3. CASE i # 1
    <3>1. i - 1 \in 1..Len(Tail(q)) /\ (i - 1) + 1 = i
      BY <2>1, <2>3, <1>1
    <3> DEFINE t == Tail(q)
    <3>2. s = t[i - 1] /\ t \in Seq(SpanT) /\ i - 1 \in 1..Len(t)
      BY <3>1, <2>1, <1>1
    <3> HIDE DEF t
    <3>3. i - 1 \in DOMAIN t
      BY <3>2
    <3>4. s \in ToSet(t)
      BY <3>2, <3>3 DEF ToSet
    <3>5. QED
      BY <3>4 DEF t
  <2>4. QED
    BY <2>2, <2>3
<1>3. QED
  BY <1>1, <1>2

(* search_code: the matches.                                               *)
LEMMA SearchCodeStep ==
    ASSUME ObservationIInv, SearchCode
    PROVE  ObservationIInv'
<1> DEFINE ranges == GroupAllSearchRanges(Matched[file])
           m == Material("facts", "search", Span(0, 0), file)
<1>1. /\ op.cap = "search" /\ op.pc = "look"
      /\ UNCHANGED <<sourceVars, sessionVars, answer, countVars>>
      /\ IF ranges = <<>>
         THEN op' = [op EXCEPT !.pc = "after", !.result = "ok", !.page = {m}]
         ELSE op' = [op EXCEPT !.pc = "show", !.found = ranges]
  BY DEF SearchCode, Looks, Steps
<1>2. /\ CountsHold /\ file \in Revisions
      /\ op \in [cap : Caps \union {"none"}, request : RequestT, pc : Pcs,
                 prev : {op.prev}, left : SUBSET Nat, pre : Nat, seen : {op.seen},
                 found : Seq(SpanT), page : SUBSET MaterialT,
                 rest : SUBSET SnapshotT, examined : SpanT, result : Results]
      /\ op.page = {} /\ op.rest = {}
  BY <1>1 DEF ObservationIInv, OpHolds, OpTyped, CountsHold, SourceTypeOK
<1>3. ranges \in Seq(SpanT)
  BY <1>2, SourceAssumption, GroupedRangesHold
<1>4. /\ m \in MaterialT /\ m.cap = op.cap /\ m.from = {op.cap} /\ m.rev = file
      /\ m.body = m.rev /\ m.epoch = epoch
  <2>1. Span(0, 0) \in SpanT /\ op.cap \in Caps /\ "search" \in Caps /\ file \in Rev
    BY <1>1, <1>2 DEF Span, SpanT, Caps, Tools, Rev
  <2>2. QED
    BY <1>1, <1>2, <2>1, MaterialIs
<1>5. Scope("search", op.request, World) \subseteq
          UNION {LinesOf(s) : s \in ToSet(ranges)}
  BY DEF Scope, World
<1> HIDE DEF ranges, m
<1>6. CASE ranges = <<>>
  <2>0. "ok" \in Results \ {"refused"}
    BY DEF Results
  <2>1. op' = [op EXCEPT !.pc = "after", !.found = op.found, !.page = {m},
                         !.rest = {}, !.result = "ok"]
    BY <1>1, <1>2, <1>6, ZenonT(240)
  <2>2. Scope("search", op.request, World) = {}
    <3>1. ToSet(ranges) = {}
      BY <1>6 DEF ToSet
    <3>2. QED
      BY <3>1, <1>5
  <2>3. RevOf(op.cap, World) = file
    BY <1>1 DEF RevOf, World
  <2>4. op.found \in Seq(SpanT) /\ {m} \in SUBSET MaterialT
    BY <1>2, <1>4
  <2>5. PageFits({m}) /\ RestFits({})
    BY <1>4 DEF PageFits, RestFits
  <2>6. StepIsFresh("after", op.found, {m}, {}, "ok")
    BY <1>1, <1>4, <2>2, <2>3 DEF StepIsFresh
  <2>7. StepsTo("after", op.found, {m}, {}, "ok")
    BY <2>0, <2>1, <2>4, <2>5, <2>6 DEF StepsTo
  <2>8. QED
    BY <1>1, <2>7, ToolStep
<1>7. CASE ranges # <<>>
  <2>1. op.result \in Results /\ op' = [op EXCEPT !.pc = "show", !.found = ranges]
    BY <1>1, <1>2, <1>7
  <2>2. op'.page = {} /\ op'.rest = {} /\ op'.found = ranges /\ op'.pc = "show"
        /\ op'.cap = op.cap /\ op'.pre = op.pre /\ op'.result = op.result
        /\ op'.request = op.request
    BY <1>2, <2>1
  <2>3. OpTyped'
    BY <1>2, <1>3, <2>1 DEF OpTyped, Pcs
  <2>4. /\ writes' = writes /\ ledger' = ledger /\ epoch' = epoch
        /\ answer' = answer /\ file' = file
    BY <1>1 DEF sourceVars, sessionVars
  <2>5. OpHolds'
    BY <1>1, <1>2, <1>7, <2>2, <2>3, <2>4 DEF ObservationIInv, OpHolds
  <2>6. OpFresh'
    BY <1>1, <2>2, <2>4 DEF OpFresh, ranges
  <2>7. CursorHolds' /\ ProofHolds'
    BY <1>1, <2>2 DEF CursorHolds, ProofHolds
  <2>8. QED
    BY <1>1, <2>5, <2>6, <2>7, StepsKeep
<1>8. QED
  BY <1>6, <1>7


(* What such a tool starts from.                                           *)
LEMMA ToolStarts ==
    ASSUME ObservationIInv, op.pc \in {"look", "show", "bind", "walk"},
           op.cap \in {"search", "find", "tree"}
    PROVE  /\ op \in [cap : Caps \union {"none"}, request : RequestT, pc : Pcs,
                      prev : {op.prev}, left : SUBSET Nat, pre : Nat,
                      seen : {op.seen}, found : Seq(SpanT),
                      page : SUBSET MaterialT, rest : SUBSET SnapshotT,
                      examined : SpanT, result : Results]
           /\ CountsHold /\ epoch \in Nat /\ file \in Revisions
           /\ file \in Rev /\ listing \in Rev /\ Lines[file] \in Nat
           /\ op.cap \in Caps /\ op.cap \in Tools
           /\ PageFits(op.page) /\ RestFits(op.rest)
           /\ op.pre = writes =>
                 /\ \A m \in op.page : m.rev = RevOf(op.cap, World)
                 /\ \A s \in op.rest : s.rev = RevOf(op.cap, World)
<1>1. OpHolds /\ OpFresh /\ CountsHold
  BY DEF ObservationIInv
<1>2. op.cap \in Tools /\ op.cap \in Caps /\ HasToken(op.cap)
  BY DEF Tools, Caps, HasToken
<1>3. PageFits(op.page) /\ RestFits(op.rest)
  BY <1>1, <1>2 DEF OpHolds, PageFits, RestFits
<1>4. op.pre = writes =>
          /\ \A m \in op.page : m.rev = RevOf(op.cap, World)
          /\ \A s \in op.rest : s.rev = RevOf(op.cap, World)
  BY <1>1, <1>2 DEF OpFresh
<1>5. /\ epoch \in Nat /\ file \in Revisions /\ file \in Rev /\ listing \in Rev
      /\ Lines[file] \in Nat
  BY <1>1, SourceAssumption DEF CountsHold, SourceTypeOK, Rev
<1>6. QED
  BY <1>1, <1>2, <1>3, <1>4, <1>5 DEF OpHolds, OpTyped

(* search_code: the first range.                                           *)
LEMMA SearchShowStep ==
    ASSUME ObservationIInv, SearchShow
    PROVE  ObservationIInv'
<1> DEFINE p == LerFaixa("search", Head(op.found))
           pc == IF Len(op.found) = 1 THEN "after" ELSE "bind"
           first == Head(op.found)
<1>1. /\ op.cap = "search" /\ op.pc = "show"
      /\ UNCHANGED <<sourceVars, sessionVars, answer, countVars>>
      /\ op' = [op EXCEPT !.result = "ok", !.page = p, !.pc = pc]
  BY DEF SearchShow, Looks, Steps
<1>2. /\ op \in [cap : Caps \union {"none"}, request : RequestT, pc : Pcs,
                 prev : {op.prev}, left : SUBSET Nat, pre : Nat,
                 seen : {op.seen}, found : Seq(SpanT),
                 page : SUBSET MaterialT, rest : SUBSET SnapshotT,
                 examined : SpanT, result : Results]
      /\ CountsHold /\ epoch \in Nat /\ Lines[file] \in Nat
      /\ op.cap \in Caps /\ RestFits(op.rest)
      /\ op.pre = writes => \A s \in op.rest : s.rev = RevOf(op.cap, World)
  BY <1>1, ToolStarts
<1>3. op.found \in Seq(SpanT) /\ op.found # <<>>
  BY <1>1, <1>2 DEF ObservationIInv, OpHolds
<1>4. /\ first \in SpanT
      /\ ToSet(op.found) \subseteq {first} \union ToSet(Tail(op.found))
  BY <1>3, FirstAndRest
<1>5. /\ p \in SUBSET MaterialT
      /\ \A m \in p : /\ p = {m} /\ m.cap = op.cap /\ m.epoch = epoch
                      /\ m.from = {"search"} /\ m.rev = file /\ m.body = m.rev
      /\ \A l \in LinesOf(first) :
            l <= Lines[file] => \E m \in p : l \in LinesOf(m.span)
  BY <1>1, <1>2, <1>4, LerFaixaIs
<1>6. LinesOf(first) \intersect (1..Lines[file]) \subseteq LinesShown(p)
  BY <1>2, <1>5 DEF LinesShown
<1>7. RevOf(op.cap, World) = file
  BY <1>1 DEF RevOf, World
<1>8. op.pre = writes => op.found = GroupAllSearchRanges(Matched[file])
  BY <1>1 DEF ObservationIInv, OpFresh, HasToken
<1>9. op.pre = writes /\ Len(op.found) = 1 =>
          Scope(op.cap, op.request, World)
             \subseteq LinesShown(p) \union LinesLeft(op.rest)
  <2> HAVE op.pre = writes /\ Len(op.found) = 1
  <2>1. Scope(op.cap, op.request, World) =
            (1..Lines[file]) \intersect UNION {LinesOf(s) : s \in ToSet(op.found)}
    BY <1>1, <1>8 DEF Scope, World
  <2>2. ToSet(op.found) \subseteq {first}
    BY <1>3 DEF ToSet
  <2>3. QED
    BY <2>1, <2>2, <1>6
<1> HIDE DEF p, pc, first
<1>10. op' = [op EXCEPT !.pc = pc, !.found = op.found, !.page = p,
                        !.rest = op.rest, !.result = "ok"]
  BY <1>1, <1>2
<1>11. PageFits(p)
  BY <1>1, <1>5 DEF PageFits
<1>12. StepIsFresh(pc, op.found, p, op.rest, "ok")
  BY <1>1, <1>2, <1>5, <1>6, <1>7, <1>8, <1>9 DEF StepIsFresh, pc, first
<1>13. /\ pc \in {"after", "bind"} /\ (pc = "bind" => Len(op.found) # 1)
       /\ pc \in {"show", "bind", "walk", "after"}
       /\ "ok" \in Results \ {"refused"}
  BY DEF pc, Results
<1>14. op.rest \in SUBSET SnapshotT
  BY <1>2
<1>15. StepsTo(pc, op.found, p, op.rest, "ok")
  BY <1>2, <1>3, <1>5, <1>10, <1>11, <1>12, <1>13, <1>14 DEF StepsTo
<1>16. QED
  BY <1>1, <1>15, ToolStep

(* search_code: the revision the other ranges are bound to.                *)
LEMMA SearchBindStep ==
    ASSUME ObservationIInv, SearchBind
    PROVE  ObservationIInv'
<1> DEFINE first == Head(op.found)
           tail == Tail(op.found)
           snap == Snapshot("search", tail, file)
<1>1. /\ op.cap = "search" /\ op.pc = "bind"
      /\ UNCHANGED <<sourceVars, sessionVars, answer, countVars>>
      /\ op' = [op EXCEPT !.pc = "after", !.rest = {snap}]
  BY DEF SearchBind, Looks, Steps
<1>2. /\ op \in [cap : Caps \union {"none"}, request : RequestT, pc : Pcs,
                 prev : {op.prev}, left : SUBSET Nat, pre : Nat,
                 seen : {op.seen}, found : Seq(SpanT),
                 page : SUBSET MaterialT, rest : SUBSET SnapshotT,
                 examined : SpanT, result : Results]
      /\ CountsHold /\ epoch \in Nat /\ Lines[file] \in Nat /\ file \in Rev
      /\ op.cap \in Caps /\ op.cap \in Tools /\ PageFits(op.page)
      /\ op.pre = writes => \A m \in op.page : m.rev = RevOf(op.cap, World)
  BY <1>1, ToolStarts
<1>3. op.found \in Seq(SpanT) /\ op.found # <<>> /\ Len(op.found) # 1
  BY <1>1, <1>2 DEF ObservationIInv, OpHolds
<1>4. /\ tail \in Seq(SpanT) /\ tail # <<>>
      /\ ToSet(op.found) \subseteq {first} \union ToSet(tail)
  BY <1>3, FirstAndRest
<1>5. RevOf(op.cap, World) = file
  BY <1>1 DEF RevOf, World
<1>6. op.pre = writes =>
          /\ op.found = GroupAllSearchRanges(Matched[file])
          /\ LinesOf(first) \intersect (1..Lines[file]) \subseteq LinesShown(op.page)
  BY <1>1 DEF ObservationIInv, OpFresh, HasToken, PageLinesRead
<1> HIDE DEF first, tail
<1>7. /\ snap.cap = "search" /\ snap.epoch = epoch /\ snap.items = tail
      /\ snap.rev = file
      /\ snap = [cap |-> "search", items |-> tail, rev |-> file, epoch |-> epoch]
  BY DEF Snapshot
<1> HIDE DEF snap
<1>8. snap \in SnapshotT
  BY <1>1, <1>2, <1>4, <1>7 DEF SnapshotT, Tools
<1>9. op.pre = writes =>
          Scope(op.cap, op.request, World)
             \subseteq LinesShown(op.page) \union LinesLeft({snap})
  <2> HAVE op.pre = writes
  <2>1. Scope(op.cap, op.request, World) =
            (1..Lines[file]) \intersect UNION {LinesOf(s) : s \in ToSet(op.found)}
    BY <1>1, <1>6 DEF Scope, World
  <2>2. \A s \in ToSet(tail) : LinesOf(s) \subseteq LinesLeft({snap})
    BY <1>7 DEF LinesLeft
  <2>3. QED
    BY <2>1, <2>2, <1>4, <1>6
<1>10. op' = [op EXCEPT !.pc = "after", !.found = op.found, !.page = op.page,
                        !.rest = {snap}, !.result = op.result]
  BY <1>1, <1>2
<1>11. RestFits({snap})
  BY <1>1, <1>4, <1>7 DEF RestFits
<1>12. StepIsFresh("after", op.found, op.page, {snap}, op.result)
  BY <1>1, <1>2, <1>5, <1>6, <1>7, <1>9 DEF StepIsFresh
<1>13. op.result \in Results \ {"refused"}
  BY <1>1, <1>2 DEF ObservationIInv, OpHolds
<1>14. op.page \in SUBSET MaterialT /\ {snap} \in SUBSET SnapshotT
  BY <1>2, <1>8
<1>15. StepsTo("after", op.found, op.page, {snap}, op.result)
  BY <1>2, <1>3, <1>10, <1>11, <1>12, <1>13, <1>14 DEF StepsTo
<1>16. QED
  BY <1>1, <1>15, ToolStep


(* The places of a symbol: one for each line where it is defined.          *)
LEMMA PlacesAre ==
    ASSUME file \in Revisions
    PROVE  /\ Places \in Seq(SpanT)
           /\ \A l \in Located[file] : \E s \in ToSet(Places) : l \in LinesOf(s)
           /\ \A s \in ToSet(Places) : s.first = s.last
<1> DEFINE S == Located[file]
           n == Cardinality(S)
           sorted == Ascending(S)
<1>1. /\ n \in Nat /\ sorted \in [1..n -> S] /\ S \subseteq Nat
      /\ \A l \in S : \E k \in 1..n : sorted[k] = l
  <2>1. S \in SUBSET Nat /\ IsFiniteSet(S)
    BY SourceAssumption
  <2> HIDE DEF S
  <2>2. QED
    BY <2>1, AscendingIsAll
<1>2. Places = [k \in 1..n |-> Span(sorted[k], sorted[k])]
  BY DEF Places
<1> HIDE DEF S, n, sorted
<1>3. ASSUME NEW k \in 1..n
      PROVE  /\ k \in DOMAIN Places /\ Places[k] \in SpanT
             /\ Places[k].first = sorted[k] /\ Places[k].last = sorted[k]
             /\ sorted[k] \in LinesOf(Places[k])
  <2>1. sorted[k] \in Nat
    BY <1>1
  <2>2. k \in DOMAIN Places /\ Places[k] = Span(sorted[k], sorted[k])
    BY <1>2
  <2>3. QED
    BY <2>1, <2>2 DEF Span, SpanT, LinesOf
<1>4. Places \in Seq(SpanT)
  <2>1. Places = [k \in 1..n |-> Places[k]]
    BY <1>2
  <2> DEFINE q == Places
  <2> HIDE DEF q
  <2>2. q \in Seq(SpanT)
    <3>1. q = [k \in 1..n |-> q[k]] /\ \A k \in 1..n : q[k] \in SpanT
      BY <2>1, <1>3 DEF q
    <3>2. QED
      BY <3>1, <1>1
  <2>3. QED
    BY <2>2 DEF q
<1>5. \A l \in S : \E s \in ToSet(Places) : l \in LinesOf(s)
  BY <1>1, <1>3 DEF ToSet
<1>6. \A s \in ToSet(Places) : s.first = s.last
  BY <1>2, <1>3 DEF ToSet
<1>7. QED
  BY <1>4, <1>5, <1>6 DEF S

(* find_symbol: the places, all but the first left for later.              *)
LEMMA FindSymbolStep ==
    ASSUME ObservationIInv, FindSymbol
    PROVE  ObservationIInv'
<1> DEFINE span == IF Places = <<>> THEN Span(0, 0) ELSE Head(Places)
           m == Material("facts", "find", span, file)
           tail == Tail(Places)
           snap == Snapshot("find", tail, file)
           rest == IF Places = <<>> THEN {} ELSE {snap}
           result == IF Places = <<>> THEN "failed" ELSE "ok"
<1>1. /\ op.cap = "find" /\ op.pc = "look"
      /\ UNCHANGED <<sourceVars, sessionVars, answer, countVars>>
      /\ IF Len(Places) = 1
         THEN op' = [op EXCEPT !.pc = "show", !.found = Places]
         ELSE op' = [op EXCEPT !.pc = "after", !.result = result,
                               !.page = {m}, !.rest = rest]
  BY DEF FindSymbol, Looks, Steps
<1>2. /\ op \in [cap : Caps \union {"none"}, request : RequestT, pc : Pcs,
                 prev : {op.prev}, left : SUBSET Nat, pre : Nat,
                 seen : {op.seen}, found : Seq(SpanT),
                 page : SUBSET MaterialT, rest : SUBSET SnapshotT,
                 examined : SpanT, result : Results]
      /\ CountsHold /\ epoch \in Nat /\ Lines[file] \in Nat /\ file \in Rev
      /\ op.cap \in Caps /\ op.cap \in Tools /\ file \in Revisions
  BY <1>1, ToolStarts
<1>3. op.page = {} /\ op.rest = {} /\ op.result # "refused"
  BY <1>1 DEF ObservationIInv, OpHolds
<1>4. /\ Places \in Seq(SpanT)
      /\ \A l \in Located[file] : \E s \in ToSet(Places) : l \in LinesOf(s)
  BY <1>2, PlacesAre
<1>5. Places # <<>> =>
          /\ Head(Places) \in SpanT /\ tail \in Seq(SpanT)
          /\ Len(Places) # 1 => tail # <<>>
          /\ ToSet(Places) \subseteq {Head(Places)} \union ToSet(tail)
  BY <1>4, FirstAndRest
<1>6. RevOf(op.cap, World) = file
      /\ Scope(op.cap, op.request, World) = Located[file]
  BY <1>1 DEF RevOf, World, Scope
<1>7. CASE Len(Places) = 1
  <2>1. op' = [op EXCEPT !.pc = "show", !.found = Places, !.page = {},
                         !.rest = {}, !.result = op.result]
    BY <1>1, <1>2, <1>3, <1>7, ZenonT(240)
  <2>2. PageFits({}) /\ RestFits({})
    BY DEF PageFits, RestFits
  <2>3. StepIsFresh("show", Places, {}, {}, op.result)
    BY <1>1, <1>7 DEF StepIsFresh
  <2>4. Places # <<>>
    BY <1>7
  <2>5. op.result \in Results \ {"refused"}
    BY <1>2, <1>3
  <2>6. StepsTo("show", Places, {}, {}, op.result)
    BY <1>4, <2>1, <2>2, <2>3, <2>4, <2>5 DEF StepsTo
  <2>7. QED
    BY <1>1, <2>6, ToolStep
<1>8. CASE Len(Places) # 1
  <2>1. span \in SpanT
    BY <1>5 DEF Span, SpanT
  <2> HIDE DEF span, tail
  <2>2. /\ m \in MaterialT /\ m.cap = op.cap /\ m.from = {op.cap} /\ m.rev = file
        /\ m.body = m.rev /\ m.epoch = epoch /\ m.span = span
    BY <1>1, <1>2, <2>1, MaterialIs
  <2>3. /\ snap.cap = "find" /\ snap.epoch = epoch /\ snap.items = tail
        /\ snap.rev = file
        /\ snap = [cap |-> "find", items |-> tail, rev |-> file, epoch |-> epoch]
    BY DEF Snapshot
  <2> HIDE DEF m, snap
  <2>4. Places # <<>> => snap \in SnapshotT /\ tail # <<>>
    BY <1>1, <1>2, <1>5, <1>8, <2>3 DEF SnapshotT, Tools
  <2>5. rest \in SUBSET SnapshotT /\ RestFits(rest)
    BY <1>1, <2>3, <2>4 DEF RestFits
  <2>6. {m} \in SUBSET MaterialT /\ PageFits({m})
    BY <2>2 DEF PageFits
  <2>7. Located[file] \subseteq LinesShown({m}) \union LinesLeft(rest)
    <3>1. CASE Places = <<>>
      <4>1. ToSet(Places) = {}
        BY <3>1 DEF ToSet
      <4>2. QED
        BY <4>1, <1>4
    <3>2. CASE Places # <<>>
      <4>1. span = Head(Places)
        BY <3>2 DEF span
      <4>2. LinesOf(Head(Places)) \subseteq LinesShown({m})
        BY <4>1, <2>2 DEF LinesShown
      <4>3. \A s \in ToSet(tail) : LinesOf(s) \subseteq LinesLeft(rest)
        BY <3>2, <2>3 DEF LinesLeft
      <4>4. QED
        BY <4>2, <4>3, <3>2, <1>4, <1>5
    <3>3. QED
      BY <3>1, <3>2
  <2>8. StepIsFresh("after", op.found, {m}, rest, result)
    BY <1>1, <1>6, <2>2, <2>3, <2>7 DEF StepIsFresh
  <2>9. op' = [op EXCEPT !.pc = "after", !.found = op.found, !.page = {m},
                         !.rest = rest, !.result = result]
    BY <1>1, <1>2, <1>8, ZenonT(240)
  <2>10. op.found \in Seq(SpanT) /\ result \in Results \ {"refused"}
    BY <1>2 DEF Results
  <2> HIDE DEF rest, result
  <2>11. StepsTo("after", op.found, {m}, rest, result)
    BY <2>5, <2>6, <2>8, <2>9, <2>10 DEF StepsTo
  <2>12. QED
    BY <1>1, <2>11, ToolStep
<1>9. QED
  BY <1>7, <1>8

(* find_symbol: the text of the only place.                                *)
LEMMA FindShowStep ==
    ASSUME ObservationIInv, FindShow
    PROVE  ObservationIInv'
<1> DEFINE first == Head(op.found)
           read == LerFaixa("find", first)
           m == Material("facts", "find", first, file)
           p == IF read # {} THEN read ELSE {m}
<1>1. /\ op.cap = "find" /\ op.pc = "show"
      /\ UNCHANGED <<sourceVars, sessionVars, answer, countVars>>
      /\ op' = [op EXCEPT !.pc = "after", !.result = "ok", !.page = p]
  BY DEF FindShow, Looks, Steps
<1>2. /\ op \in [cap : Caps \union {"none"}, request : RequestT, pc : Pcs,
                 prev : {op.prev}, left : SUBSET Nat, pre : Nat,
                 seen : {op.seen}, found : Seq(SpanT),
                 page : SUBSET MaterialT, rest : SUBSET SnapshotT,
                 examined : SpanT, result : Results]
      /\ CountsHold /\ epoch \in Nat /\ Lines[file] \in Nat /\ file \in Rev
      /\ op.cap \in Caps /\ file \in Revisions /\ RestFits(op.rest)
      /\ op.pre = writes => \A s \in op.rest : s.rev = RevOf(op.cap, World)
  BY <1>1, ToolStarts
<1>3. op.found \in Seq(SpanT) /\ op.found # <<>>
  BY <1>1, <1>2 DEF ObservationIInv, OpHolds
<1>4. first \in SpanT
  BY <1>3, FirstAndRest
<1>5. op.pre = writes => op.found = Places /\ Len(Places) = 1
  BY <1>1 DEF ObservationIInv, OpFresh, HasToken
<1>6. /\ Places \in Seq(SpanT)
      /\ \A l \in Located[file] : \E s \in ToSet(Places) : l \in LinesOf(s)
      /\ \A s \in ToSet(Places) : s.first = s.last
  BY <1>2, PlacesAre
<1>7. op.pre = writes => /\ Located[file] \subseteq LinesOf(first)
                         /\ first.first = first.last
  <2> HAVE op.pre = writes
  <2>1. ToSet(Places) = {first}
    BY <1>3, <1>5 DEF ToSet
  <2>2. QED
    BY <2>1, <1>6
<1> HIDE DEF first
<1>8. /\ read \in SUBSET MaterialT
      /\ \A x \in read : /\ read = {x} /\ x.cap = op.cap /\ x.epoch = epoch
                         /\ x.from = {"find"} /\ x.rev = file /\ x.body = x.rev
      /\ \A l \in LinesOf(first) :
            l <= Lines[file] => \E x \in read : l \in LinesOf(x.span)
  BY <1>1, <1>2, <1>4, LerFaixaIs
<1>9. read # {} => first.first <= Lines[file]
  BY <1>2, <1>4 DEF LerFaixa, SpanT
<1>10. /\ m \in MaterialT /\ m.cap = op.cap /\ m.from = {op.cap} /\ m.rev = file
       /\ m.body = m.rev /\ m.epoch = epoch /\ m.span = first
  BY <1>1, <1>2, <1>4, MaterialIs
<1> HIDE DEF m, read
<1>11. p \in SUBSET MaterialT /\ PageFits(p) /\ \A x \in p : x.rev = file
  BY <1>1, <1>8, <1>10 DEF PageFits
<1>12. op.pre = writes => Located[file] \subseteq LinesShown(p)
  <2> HAVE op.pre = writes
  <2>1. CASE read # {}
    <3>1. \A l \in LinesOf(first) : l <= Lines[file]
      BY <2>1, <1>7, <1>9, <1>2, <1>4 DEF LinesOf, SpanT
    <3>2. LinesOf(first) \subseteq LinesShown(p)
      BY <2>1, <3>1, <1>8 DEF LinesShown
    <3>3. QED
      BY <3>2, <1>7
  <2>2. CASE read = {}
    <3>1. p = {m}
      BY <2>2
    <3>2. LinesOf(first) \subseteq LinesShown(p)
      BY <3>1, <1>10 DEF LinesShown
    <3>3. QED
      BY <3>2, <1>7
  <2>3. QED
    BY <2>1, <2>2
<1>13. RevOf(op.cap, World) = file
       /\ Scope(op.cap, op.request, World) = Located[file]
  BY <1>1 DEF RevOf, World, Scope
<1> HIDE DEF p
<1>14. op' = [op EXCEPT !.pc = "after", !.found = op.found, !.page = p,
                        !.rest = op.rest, !.result = "ok"]
  BY <1>1, <1>2
<1>15. StepIsFresh("after", op.found, p, op.rest, "ok")
  BY <1>1, <1>2, <1>11, <1>12, <1>13 DEF StepIsFresh
<1>16. op.rest \in SUBSET SnapshotT /\ "ok" \in Results \ {"refused"}
  BY <1>2 DEF Results
<1>17. StepsTo("after", op.found, p, op.rest, "ok")
  BY <1>2, <1>3, <1>11, <1>14, <1>15, <1>16 DEF StepsTo
<1>18. QED
  BY <1>1, <1>17, ToolStep

(* list_tree: the first part of the listing.                               *)
LEMMA ListTreeStep ==
    ASSUME ObservationIInv, ListTree
    PROVE  ObservationIInv'
<1> DEFINE m == Material("facts", "tree", Span(1, 1), listing)
<1>1. /\ op.cap = "tree" /\ op.pc = "look"
      /\ UNCHANGED <<sourceVars, sessionVars, answer, countVars>>
      /\ op' = [op EXCEPT !.pc = "walk", !.result = "ok", !.page = {m}]
  BY DEF ListTree, Looks, Steps
<1>2. /\ op \in [cap : Caps \union {"none"}, request : RequestT, pc : Pcs,
                 prev : {op.prev}, left : SUBSET Nat, pre : Nat,
                 seen : {op.seen}, found : Seq(SpanT),
                 page : SUBSET MaterialT, rest : SUBSET SnapshotT,
                 examined : SpanT, result : Results]
      /\ CountsHold /\ listing \in Rev /\ op.cap \in Caps /\ RestFits(op.rest)
      /\ op.pre = writes => \A s \in op.rest : s.rev = RevOf(op.cap, World)
  BY <1>1, ToolStarts
<1>3. Span(1, 1) \in SpanT /\ 1 \in LinesOf(Span(1, 1))
  BY DEF Span, SpanT, LinesOf
<1>4. /\ m \in MaterialT /\ m.cap = op.cap /\ m.from = {op.cap} /\ m.rev = listing
      /\ m.body = m.rev /\ m.epoch = epoch /\ m.span = Span(1, 1)
  BY <1>1, <1>2, <1>3, MaterialIs
<1> HIDE DEF m
<1>5. {m} \in SUBSET MaterialT /\ PageFits({m})
  BY <1>4 DEF PageFits
<1>6. 1 \in LinesShown({m})
  BY <1>3, <1>4 DEF LinesShown
<1>7. RevOf(op.cap, World) = listing
  BY <1>1 DEF RevOf, World
<1>8. StepIsFresh("walk", op.found, {m}, op.rest, "ok")
  BY <1>1, <1>2, <1>4, <1>6, <1>7 DEF StepIsFresh
<1>9. op' = [op EXCEPT !.pc = "walk", !.found = op.found, !.page = {m},
                       !.rest = op.rest, !.result = "ok"]
  BY <1>1, <1>2
<1>10. op.rest \in SUBSET SnapshotT /\ op.found \in Seq(SpanT)
       /\ "ok" \in Results \ {"refused"}
  BY <1>2 DEF Results
<1>11. StepsTo("walk", op.found, {m}, op.rest, "ok")
  BY <1>2, <1>5, <1>8, <1>9, <1>10 DEF StepsTo
<1>12. QED
  BY <1>1, <1>11, ToolStep

(* list_tree: the second part, for later.                                  *)
LEMMA ListTreeEndStep ==
    ASSUME ObservationIInv, ListTreeEnd
    PROVE  ObservationIInv'
<1> DEFINE two == <<Span(2, 2)>>
           snap == Snapshot("tree", two, listing)
<1>1. /\ op.cap = "tree" /\ op.pc = "walk"
      /\ UNCHANGED <<sourceVars, sessionVars, answer, countVars>>
      /\ op' = [op EXCEPT !.pc = "after", !.rest = {snap}]
  BY DEF ListTreeEnd, Looks, Steps
<1>2. /\ op \in [cap : Caps \union {"none"}, request : RequestT, pc : Pcs,
                 prev : {op.prev}, left : SUBSET Nat, pre : Nat,
                 seen : {op.seen}, found : Seq(SpanT),
                 page : SUBSET MaterialT, rest : SUBSET SnapshotT,
                 examined : SpanT, result : Results]
      /\ CountsHold /\ epoch \in Nat /\ listing \in Rev
      /\ op.cap \in Tools /\ PageFits(op.page)
      /\ op.pre = writes => \A m \in op.page : m.rev = RevOf(op.cap, World)
  BY <1>1, ToolStarts
<1>3. /\ two \in Seq(SpanT) /\ two # <<>> /\ Span(2, 2) \in ToSet(two)
      /\ 2 \in LinesOf(Span(2, 2))
  BY DEF Span, SpanT, LinesOf, ToSet
<1> HIDE DEF two
<1>4. /\ snap.cap = "tree" /\ snap.epoch = epoch /\ snap.items = two
      /\ snap.rev = listing
      /\ snap = [cap |-> "tree", items |-> two, rev |-> listing, epoch |-> epoch]
  BY DEF Snapshot
<1> HIDE DEF snap
<1>5. snap \in SnapshotT
  BY <1>1, <1>2, <1>3, <1>4 DEF SnapshotT, Tools
<1>6. {snap} \in SUBSET SnapshotT /\ RestFits({snap})
  BY <1>1, <1>3, <1>4, <1>5 DEF RestFits
<1>7. 2 \in LinesLeft({snap})
  BY <1>3, <1>4 DEF LinesLeft
<1>8. op.pre = writes => 1 \in LinesShown(op.page)
  BY <1>1 DEF ObservationIInv, OpFresh, HasToken, PageLinesRead
<1>9. RevOf(op.cap, World) = listing /\ Scope(op.cap, op.request, World) = {1, 2}
  BY <1>1 DEF RevOf, World, Scope
<1>10. StepIsFresh("after", op.found, op.page, {snap}, op.result)
  BY <1>1, <1>2, <1>4, <1>7, <1>8, <1>9 DEF StepIsFresh
<1>11. op' = [op EXCEPT !.pc = "after", !.found = op.found, !.page = op.page,
                        !.rest = {snap}, !.result = op.result]
  BY <1>1, <1>2
<1>12. op.page \in SUBSET MaterialT /\ op.found \in Seq(SpanT)
       /\ op.result \in Results \ {"refused"}
  BY <1>1, <1>2 DEF ObservationIInv, OpHolds
<1>13. StepsTo("after", op.found, op.page, {snap}, op.result)
  BY <1>1, <1>2, <1>6, <1>10, <1>11, <1>12 DEF StepsTo
<1>14. QED
  BY <1>1, <1>13, ToolStep


(* What is to be shown of a step of continue_observation.                  *)
ContinuationFits(pc, page, result) ==
    /\ \A m \in page : /\ page = {m} /\ m.cap = op.cap /\ m.epoch = epoch
                       /\ m.body = m.rev
    /\ pc = "show" \/ result \in {"ok", "revised"} =>
         /\ CursorError = "none"
         /\ pc = "show" => Cursor.snapshot.cap \in {"read", "search"}
         /\ \A m \in page : m.from = {Cursor.snapshot.cap}
         /\ result = "revised" => page = {}
         /\ SomethingFresh =>
              /\ pc = "show" => Cursor.snapshot.rev = file
              /\ pc = "after" /\ result = "revised" =>
                    /\ Cursor.snapshot.cap # "tree" /\ Cursor.snapshot.rev # file
              /\ pc = "after" /\ result = "ok"
                 /\ Cursor.snapshot.rev = RevOf(Cursor.snapshot.cap, World) =>
                    /\ \A m \in page : m.rev = Cursor.snapshot.rev
                    /\ \A l \in LinesOf(Item) :
                         (Cursor.snapshot.cap \in {"read", "search"}
                            => l <= Lines[file]) => l \in LinesShown(page)

(* Such a step: the cursor stays what it was.                              *)
LEMMA ContinueStep ==
    ASSUME ObservationIInv, op.pc \in {"look", "show"}, op.cap = "continue",
           UNCHANGED <<sourceVars, sessionVars, answer, countVars>>,
           NEW pc \in {"show", "after"}, NEW page \in SUBSET MaterialT,
           NEW result \in Results \ {"refused"},
           op' = [op EXCEPT !.pc = pc, !.page = page, !.result = result],
           ContinuationFits(pc, page, result)
    PROVE  ObservationIInv'
<1>1. /\ op \in [cap : Caps \union {"none"}, request : RequestT, pc : Pcs,
                 prev : {op.prev}, left : SUBSET Nat, pre : Nat, seen : {op.seen},
                 found : Seq(SpanT), page : SUBSET MaterialT,
                 rest : SUBSET SnapshotT, examined : SpanT, result : Results]
      /\ op.pre <= writes /\ answer.what = "none"
      /\ op.pc = "look" => op.rest = {}
  BY DEF ObservationIInv, OpHolds, OpTyped
<1>2. op.rest = {}
  BY <1>1 DEF ObservationIInv, CursorHolds, Continuing
<1>3. /\ World' = World /\ writes' = writes /\ file' = file /\ epoch' = epoch
      /\ ledger' = ledger /\ answer' = answer
  BY DEF World, sourceVars, sessionVars
<1>4. /\ op'.cap = op.cap /\ op'.pc = pc /\ op'.page = page
      /\ op'.rest = {} /\ op'.result = result /\ op'.pre = op.pre
      /\ op'.request = op.request
  BY <1>1, <1>2
<1>5. OpTyped'
  BY <1>1 DEF OpTyped, Pcs, Results
<1>6. OpHolds'
  BY <1>1, <1>3, <1>4, <1>5 DEF OpHolds, Tools, ContinuationFits
<1>7. OpFresh'
  BY <1>4 DEF OpFresh, HasToken
<1>8. /\ Frontier' = Frontier /\ Cursor' = Cursor
      /\ SomethingFresh' = SomethingFresh
      /\ PageLinesRead' = LinesShown(page)
  BY <1>3, <1>4 DEF Frontier, Cursor, SomethingFresh, PageLinesRead
<1>9. CursorError' = CursorError /\ Item' = Item
  BY <1>3, <1>8 DEF CursorError, Item
<1>10. CursorHolds'
  BY <1>3, <1>4, <1>8, <1>9 DEF CursorHolds, Continuing, ContinuationFits
<1>11. ProofHolds'
  BY <1>4 DEF ProofHolds
<1>12. QED
  BY <1>6, <1>7, <1>10, <1>11, StepsKeep

(* What a continuation starts from.                                        *)
LEMMA ContinueStarts ==
    ASSUME ObservationIInv, op.pc \in {"look", "show"}, op.cap = "continue"
    PROVE  /\ op \in [cap : Caps \union {"none"}, request : RequestT, pc : Pcs,
                      prev : {op.prev}, left : SUBSET Nat, pre : Nat,
                      seen : {op.seen}, found : Seq(SpanT),
                      page : SUBSET MaterialT, rest : SUBSET SnapshotT,
                      examined : SpanT, result : Results]
           /\ CountsHold /\ "continue" \in Caps
           /\ ledger \in LedgerT
           /\ op.pc = "look" => op.page = {}
           /\ op.result # "refused"
BY DEF ObservationIInv, OpHolds, OpTyped, LedgerHolds, Caps

(* continue_observation: there is no page.                                 *)
LEMMA ContinueFailsStep ==
    ASSUME ObservationIInv, ContinueFails
    PROVE  ObservationIInv'
<1>1. /\ op.cap = "continue" /\ op.pc = "look"
      /\ UNCHANGED <<sourceVars, sessionVars, answer, countVars>>
      /\ op' = [op EXCEPT !.pc = "after", !.result = "failed"]
  BY DEF ContinueFails, Looks, Steps
<1>2. /\ op \in [cap : Caps \union {"none"}, request : RequestT, pc : Pcs,
                 prev : {op.prev}, left : SUBSET Nat, pre : Nat,
                 seen : {op.seen}, found : Seq(SpanT),
                 page : SUBSET MaterialT, rest : SUBSET SnapshotT,
                 examined : SpanT, result : Results]
      /\ op.page = {}
  BY <1>1, ContinueStarts
<1>3. op' = [op EXCEPT !.pc = "after", !.page = {}, !.result = "failed"]
  BY <1>1, <1>2
<1>4. "failed" \in Results \ {"refused"} /\ {} \in SUBSET MaterialT
  BY DEF Results
<1>5. ContinuationFits("after", {}, "failed")
  BY DEF ContinuationFits
<1>6. QED
  BY <1>1, <1>3, <1>4, <1>5, ContinueStep

(* The next page of a file or of a search: the revision is compared.       *)
LEMMA ContinueComparedStep ==
    ASSUME ObservationIInv, ContinueReadFilePage \/ ContinueSearchCodePage
    PROVE  ObservationIInv'
<1>1. /\ op.cap = "continue" /\ op.pc = "look"
      /\ UNCHANGED <<sourceVars, sessionVars, answer, countVars>>
      /\ CursorError = "none" /\ Cursor.snapshot.cap \in {"read", "search"}
      /\ op' = IF Cursor.snapshot.rev = file THEN [op EXCEPT !.pc = "show"]
               ELSE [op EXCEPT !.pc = "after", !.result = "revised"]
  BY DEF ContinueReadFilePage, ContinueSearchCodePage, Continues, Compared,
         Looks, Steps
<1>2. /\ op \in [cap : Caps \union {"none"}, request : RequestT, pc : Pcs,
                 prev : {op.prev}, left : SUBSET Nat, pre : Nat,
                 seen : {op.seen}, found : Seq(SpanT),
                 page : SUBSET MaterialT, rest : SUBSET SnapshotT,
                 examined : SpanT, result : Results]
      /\ op.page = {} /\ op.result # "refused"
  BY <1>1, ContinueStarts
<1>3. {} \in SUBSET MaterialT
  OBVIOUS
<1>4. CASE Cursor.snapshot.rev = file
  <2>1. op' = [op EXCEPT !.pc = "show", !.page = {}, !.result = op.result]
    BY <1>1, <1>2, <1>4
  <2>2. op.result \in Results \ {"refused"}
    BY <1>2
  <2>3. ContinuationFits("show", {}, op.result)
    BY <1>1, <1>4 DEF ContinuationFits
  <2>4. QED
    BY <1>1, <1>3, <2>1, <2>2, <2>3, ContinueStep
<1>5. CASE Cursor.snapshot.rev # file
  <2>1. op' = [op EXCEPT !.pc = "after", !.page = {}, !.result = "revised"]
    BY <1>1, <1>2, <1>5
  <2>2. "revised" \in Results \ {"refused"}
    BY DEF Results
  <2>3. ContinuationFits("after", {}, "revised")
    BY <1>1, <1>5 DEF ContinuationFits
  <2>4. QED
    BY <1>1, <1>3, <2>1, <2>2, <2>3, ContinueStep
<1>6. QED
  BY <1>4, <1>5

(* The next page of a listing or of a set of places, as it was kept.       *)
LEMMA ContinueKeptStep ==
    ASSUME ObservationIInv, ContinueListTreePage \/ ContinueFindSymbolPage
    PROVE  ObservationIInv'
<1> DEFINE s == Cursor.snapshot
           m == Material("facts", s.cap, Item, s.rev)
<1>1. /\ op.cap = "continue" /\ op.pc = "look"
      /\ UNCHANGED <<sourceVars, sessionVars, answer, countVars>>
      /\ CursorError = "none" /\ s.cap \in {"tree", "find"}
      /\ op' = [op EXCEPT !.pc = "after", !.result = "ok", !.page = {m}]
  BY DEF ContinueListTreePage, ContinueFindSymbolPage, Continues, Kept,
         Looks, Steps
<1>2. /\ op \in [cap : Caps \union {"none"}, request : RequestT, pc : Pcs,
                 prev : {op.prev}, left : SUBSET Nat, pre : Nat,
                 seen : {op.seen}, found : Seq(SpanT),
                 page : SUBSET MaterialT, rest : SUBSET SnapshotT,
                 examined : SpanT, result : Results]
      /\ CountsHold /\ ledger \in LedgerT /\ op.cap \in Caps
  BY <1>1, ContinueStarts
<1>3. s \in SnapshotT /\ Item \in SpanT
  BY <1>1, <1>2, CursorIsGood
<1>4. s.cap \in Caps /\ s.rev \in Rev
  BY <1>3 DEF SnapshotT, Caps
<1>5. /\ m \in MaterialT /\ m.cap = op.cap /\ m.from = {s.cap} /\ m.rev = s.rev
      /\ m.body = m.rev /\ m.epoch = epoch /\ m.span = Item
  BY <1>2, <1>3, <1>4, MaterialIs
<1> HIDE DEF m
<1>6. \A l \in LinesOf(Item) : l \in LinesShown({m})
  BY <1>5 DEF LinesShown
<1>7. op' = [op EXCEPT !.pc = "after", !.page = {m}, !.result = "ok"]
  BY <1>1, <1>2
<1>8. "ok" \in Results \ {"refused"} /\ {m} \in SUBSET MaterialT
  BY <1>5 DEF Results
<1>9. /\ \A x \in {m} : /\ {m} = {x} /\ x.cap = op.cap /\ x.epoch = epoch
                        /\ x.body = x.rev /\ x.from = {s.cap} /\ x.rev = s.rev
  BY <1>5
<1>10. ContinuationFits("after", {m}, "ok")
  BY <1>1, <1>6, <1>9 DEF ContinuationFits
<1>11. QED
  BY <1>1, <1>7, <1>8, <1>10, ContinueStep

(* The next page of a file or of a search: the range is read.              *)
LEMMA ContinueShowStep ==
    ASSUME ObservationIInv, ContinueShow
    PROVE  ObservationIInv'
<1> DEFINE s == Cursor.snapshot
           p == LerFaixa(s.cap, Item)
<1>1. /\ op.cap = "continue" /\ op.pc = "show"
      /\ UNCHANGED <<sourceVars, sessionVars, answer, countVars>>
      /\ op' = [op EXCEPT !.pc = "after", !.result = "ok", !.page = p]
  BY DEF ContinueShow, Looks, Steps
<1>2. /\ op \in [cap : Caps \union {"none"}, request : RequestT, pc : Pcs,
                 prev : {op.prev}, left : SUBSET Nat, pre : Nat,
                 seen : {op.seen}, found : Seq(SpanT),
                 page : SUBSET MaterialT, rest : SUBSET SnapshotT,
                 examined : SpanT, result : Results]
      /\ CountsHold /\ ledger \in LedgerT /\ op.cap \in Caps
  BY <1>1, ContinueStarts
<1>3. /\ CursorError = "none" /\ s.cap \in {"read", "search"}
      /\ SomethingFresh => s.rev = file
  BY <1>1 DEF ObservationIInv, CursorHolds, Continuing
<1>4. Item \in SpanT /\ s.cap \in Caps
  BY <1>2, <1>3, CursorIsGood DEF Caps, Tools
<1>5. /\ p \in SUBSET MaterialT
      /\ \A m \in p : /\ p = {m} /\ m.cap = op.cap /\ m.epoch = epoch
                      /\ m.from = {s.cap} /\ m.rev = file /\ m.body = m.rev
      /\ \A l \in LinesOf(Item) :
            l <= Lines[file] => \E m \in p : l \in LinesOf(m.span)
  BY <1>2, <1>4, LerFaixaIs
<1> HIDE DEF p
<1>6. \A l \in LinesOf(Item) : l <= Lines[file] => l \in LinesShown(p)
  BY <1>5 DEF LinesShown
<1>7. "ok" \in Results \ {"refused"}
  BY DEF Results
<1>8. op' = [op EXCEPT !.pc = "after", !.page = p, !.result = "ok"]
  BY <1>1, <1>2
<1>9. ContinuationFits("after", p, "ok")
  BY <1>3, <1>5, <1>6 DEF ContinuationFits
<1>10. QED
  BY <1>1, <1>5, <1>7, <1>8, <1>9, ContinueStep


(* The replay was refused: the tool runs.                                  *)
LEMMA BeforeStep ==
    ASSUME ObservationIInv, Before
    PROVE  ObservationIInv'
<1>1. /\ op.pc = "before"
      /\ UNCHANGED <<sourceVars, sessionVars, answer, countVars>>
      /\ op' = [op EXCEPT !.pc = "look", !.pre = TokenOf(op.cap)]
  BY DEF Before
<1>2. /\ op \in [cap : Caps \union {"none"}, request : RequestT, pc : Pcs,
                 prev : {op.prev}, left : SUBSET Nat, pre : Nat, seen : {op.seen},
                 found : Seq(SpanT), page : SUBSET MaterialT,
                 rest : SUBSET SnapshotT, examined : SpanT, result : Results]
      /\ answer.what = "none" /\ op.page = {} /\ op.rest = {}
      /\ op.examined = Span(0, 0) /\ op.cap # "none"
      /\ op.result = "refused" => op.cap = "read" /\ op.request.path = "secret"
      /\ writes \in Nat
  BY <1>1 DEF ObservationIInv, OpHolds, OpTyped, CountsHold, SourceTypeOK
<1>3. TokenOf(op.cap) \in Nat /\ TokenOf(op.cap) <= writes
  BY <1>2 DEF TokenOf, NoToken
<1>4. /\ writes' = writes /\ epoch' = epoch /\ ledger' = ledger /\ answer' = answer
  BY <1>1 DEF sourceVars, sessionVars
<1>5. /\ op'.cap = op.cap /\ op'.pc = "look" /\ op'.page = {} /\ op'.rest = {}
      /\ op'.result = op.result /\ op'.pre = TokenOf(op.cap)
      /\ op'.request = op.request /\ op'.examined = Span(0, 0)
  BY <1>1, <1>2
<1>6. OpTyped'
  BY <1>1, <1>2, <1>3 DEF OpTyped, Pcs
<1>7. OpHolds'
  BY <1>2, <1>3, <1>4, <1>5, <1>6 DEF OpHolds
<1>8. OpFresh'
  BY <1>5 DEF OpFresh
<1>9. CursorHolds' /\ ProofHolds'
  BY <1>5 DEF CursorHolds, ProofHolds, Continuing
<1>10. QED
  BY <1>1, <1>7, <1>8, <1>9, StepsKeep

(* A file read again.                                                      *)
LEMMA ProveStep ==
    ASSUME ObservationIInv, Prove
    PROVE  ObservationIInv'
<1> DEFINE i == Min(op.left)
           refuse == [op EXCEPT !.pc = "before", !.prev = {}, !.left = {}]
           pass == [op EXCEPT !.left = @ \ {i}]
<1>1. /\ op.pc = "prove"
      /\ UNCHANGED <<sourceVars, sessionVars, answer, countVars>>
      /\ op' = refuse \/ op' = pass
  BY DEF Prove
<1>2. /\ op \in [cap : Caps \union {"none"}, request : RequestT, pc : Pcs,
                 prev : {op.prev}, left : SUBSET Nat, pre : Nat, seen : {op.seen},
                 found : Seq(SpanT), page : SUBSET MaterialT,
                 rest : SUBSET SnapshotT, examined : SpanT, result : Results]
      /\ answer.what = "none" /\ op.page = {} /\ op.rest = {}
      /\ op.examined = Span(0, 0) /\ op.cap # "none" /\ op.pre <= writes
      /\ op.result = "refused" => op.cap = "read" /\ op.request.path = "secret"
      /\ op.left \subseteq DOMAIN ledger.materials
  BY <1>1 DEF ObservationIInv, OpHolds, OpTyped
<1>3. /\ writes' = writes /\ epoch' = epoch /\ ledger' = ledger
      /\ answer' = answer /\ World' = World
  BY <1>1 DEF sourceVars, sessionVars, World
<1> HIDE DEF i
<1>4. CASE op' = refuse
  <2>1. /\ op'.cap = op.cap /\ op'.pc = "before" /\ op'.page = {} /\ op'.rest = {}
        /\ op'.result = op.result /\ op'.pre = op.pre
        /\ op'.request = op.request /\ op'.examined = Span(0, 0)
    BY <1>2, <1>4
  <2>2. OpTyped'
    BY <1>2, <1>4 DEF OpTyped, Pcs
  <2>3. OpHolds'
    BY <1>2, <1>3, <2>1, <2>2 DEF OpHolds
  <2>4. OpFresh' /\ CursorHolds' /\ ProofHolds'
    BY <2>1 DEF OpFresh, CursorHolds, ProofHolds, Continuing
  <2>5. QED
    BY <1>1, <2>3, <2>4, StepsKeep
<1>5. CASE op' = pass
  <2>1. /\ op'.cap = op.cap /\ op'.pc = "prove" /\ op'.page = {} /\ op'.rest = {}
        /\ op'.result = op.result /\ op'.pre = op.pre /\ op'.left = op.left \ {i}
        /\ op'.request = op.request /\ op'.examined = Span(0, 0)
        /\ op'.prev = op.prev /\ op'.seen = op.seen
    BY <1>1, <1>2, <1>5
  <2>2. OpTyped'
    BY <1>2, <1>5 DEF OpTyped
  <2>3. OpHolds'
    BY <1>2, <1>3, <2>1, <2>2 DEF OpHolds
  <2>4. OpFresh' /\ CursorHolds'
    BY <2>1 DEF OpFresh, CursorHolds, Continuing
  <2>5. ProofHolds'
    BY <1>1, <1>3, <2>1 DEF ObservationIInv, ProofHolds
  <2>6. QED
    BY <1>1, <2>3, <2>4, <2>5, StepsKeep
<1>6. QED
  BY <1>1, <1>4, <1>5

-------------------------------------------------------------------------------
(* The lookup.                                                             *)

(* What a function makes of a finite set is finite.                        *)
LEMMA ImageIsFinite ==
    ASSUME NEW S, IsFiniteSet(S), NEW T, NEW f \in [S -> T],
           \A t \in T : \E s \in S : f[s] = t
    PROVE  IsFiniteSet(T)
<1>1. f \in Surjection(S, T)
  BY DEF Surjection
<1>2. QED
  BY <1>1, FS_Surjection

(* The rows of the reads of a path.                                        *)
LEMMA RowsAre ==
    ASSUME LedgerHolds(ledger, epoch), NEW path
    PROVE  /\ IsFiniteSet(Rows(path))
           /\ \A r \in Rows(path) :
                 /\ r.span \in SpanT /\ r.turn \in Nat
                 /\ r.entry \in ReadsOf(path) /\ r.span = r.entry.examined
                 /\ r.entry.examined.last > 0
<1> DEFINE S == {e \in ReadsOf(path) : e.examined.last > 0}
           row == [e \in S |-> [span |-> e.examined, turn |-> e.turn, entry |-> e]]
<1>1. S \in SUBSET ledger.entries /\ IsFiniteSet(ledger.entries)
      /\ ledger.entries \in SUBSET EntryT
  BY DEF ReadsOf, LedgerHolds, LedgerT
<1>2. IsFiniteSet(S)
  BY <1>1, FS_Subset
<1>3. Rows(path) = {row[e] : e \in S}
  BY DEF Rows
<1>4. row \in [S -> Rows(path)] /\ \A r \in Rows(path) : \E e \in S : row[e] = r
  BY <1>3
<1>5. IsFiniteSet(Rows(path))
  <2> HIDE DEF S, row
  <2>1. QED
    BY <1>2, <1>4, ImageIsFinite
<1>6. ASSUME NEW e \in S
      PROVE  /\ row[e].span \in SpanT /\ row[e].turn \in Nat
             /\ row[e].entry \in ReadsOf(path)
             /\ row[e].span = row[e].entry.examined
             /\ row[e].entry.examined.last > 0
  <2>1. e \in EntryT
    BY <1>1
  <2>2. QED
    BY <2>1 DEF EntryT
<1> HIDE DEF S, row
<1>7. QED
  BY <1>3, <1>5, <1>6

(* The entries that cover a request together: every line of it was read in *)
(* one of them.                                                            *)
LEMMA CoveredIsRead ==
    ASSUME LedgerHolds(ledger, epoch), NEW request \in Requests,
           request.span.last # 0
    PROVE  LET chosen == Covering(Rows(request.path), request.span)
               entries == {r.entry : r \in chosen.by}
           IN  /\ IsFiniteSet(entries)
               /\ entries \subseteq ReadsOf(request.path)
               /\ \A e \in entries : e.examined.last > 0
               /\ chosen.covers => LinesOf(request.span)
                     \subseteq UNION {LinesOf(e.examined) : e \in entries}
<1> DEFINE rows == Rows(request.path)
           chosen == Covering(rows, request.span)
           by == chosen.by
           entries == {r.entry : r \in by}
<1>1. /\ IsFiniteSet(rows)
      /\ \A r \in rows : /\ r.span \in SpanT /\ r.turn \in Nat
                         /\ r.entry \in ReadsOf(request.path)
                         /\ r.span = r.entry.examined /\ r.entry.examined.last > 0
  BY RowsAre
<1>2. /\ request.span.first \in Nat \ {0} /\ request.span.last \in Nat
      /\ request.span.first <= request.span.last + 1
  BY ObservationAssumption
<1> HIDE DEF rows
<1>3. /\ by \subseteq rows
      /\ chosen.covers =>
            LinesOf(request.span) \subseteq UNION {LinesOf(r.span) : r \in by}
  BY <1>1, <1>2, CoveringIsExact
<1> HIDE DEF chosen
<1>4. IsFiniteSet(entries)
  <2>1. IsFiniteSet(by)
    BY <1>1, <1>3, FS_Subset
  <2> DEFINE f == [r \in by |-> r.entry]
  <2>2. f \in [by -> entries] /\ \A e \in entries : \E r \in by : f[r] = e
    OBVIOUS
  <2> HIDE DEF f, by, entries
  <2>3. QED
    BY <2>1, <2>2, ImageIsFinite
<1>5. /\ entries \subseteq ReadsOf(request.path)
      /\ \A e \in entries : e.examined.last > 0
  BY <1>1, <1>3
<1>6. UNION {LinesOf(r.span) : r \in by}
        \subseteq UNION {LinesOf(e.examined) : e \in entries}
  BY <1>1, <1>3
<1>7. QED
  BY <1>3, <1>4, <1>5, <1>6 DEF chosen, rows


(* What is found for a request names materials of the ledger.              *)
LEMMA PreviousIsKnown ==
    ASSUME LedgerHolds(ledger, epoch), NEW cap, NEW request,
           cap = "read" => request \in Requests,
           NEW e \in Previous(cap, request)
    PROVE  e.materials \subseteq DOMAIN ledger.materials
<1>1. \A x \in ledger.entries : x.materials \subseteq DOMAIN ledger.materials
  BY DEF LedgerHolds
<1>2. CASE e \in ledger.entries
  BY <1>1, <1>2
<1>3. CASE e \notin ledger.entries
  <2>1. cap = "read" /\ e \in CoveringReadFile(request)
    BY <1>3 DEF Previous, Lookup, ResourceFailureByPath, ReadsOf
  <2> DEFINE chosen == Covering(Rows(request.path), request.span)
             entries == {r.entry : r \in chosen.by}
  <2>2. request \in Requests /\ request.span.last # 0
    BY <2>1 DEF CoveringReadFile
  <2>3. entries \subseteq ledger.entries
    <3>1. entries \subseteq ReadsOf(request.path)
      BY <2>2, CoveredIsRead
    <3>2. QED
      BY <3>1 DEF ReadsOf
  <2>4. e \in entries \/ e = Composed(entries, request)
    BY <2>1 DEF CoveringReadFile
  <2> HIDE DEF entries
  <2>5. e.materials = UNION {x.materials : x \in entries}
    BY <1>3, <2>3, <2>4 DEF Composed
  <2>6. QED
    BY <1>1, <2>3, <2>5
<1>4. QED
  BY <1>2, <1>3

(* What is found for a request, and carries the token of the tree as it    *)
(* is, is what the files hold, and all of it was told or lies ahead.       *)
TrueOf(prev, cap, request, w) ==
    /\ \A e \in prev : \A i \in e.materials :
          ledger.materials[i].rev = RevOf(cap, w)
    /\ Scope(cap, request, w) \subseteq Reached(ledger, epoch, cap, w)

(* What several ranges read before make up together is true of the files.  *)
LEMMA CoveringIsTrue ==
    ASSUME CountsHold, LedgerHolds(ledger, epoch),
           LedgerFresh(ledger, epoch, World, writes), NEW request \in Requests,
           CoveringReadFile(request) # {},
           \A e \in CoveringReadFile(request) : e.token # NoToken /\ e.token = writes
    PROVE  TrueOf(CoveringReadFile(request), "read", request, World)
<1> DEFINE chosen == Covering(Rows(request.path), request.span)
           entries == {r.entry : r \in chosen.by}
           span == request.span
           prev == CoveringReadFile(request)
           both == Composed(entries, request)
<1>1. /\ span.last # 0 /\ chosen.covers
      /\ prev = entries \/ prev = {both}
  BY DEF CoveringReadFile
<1>2. /\ IsFiniteSet(entries) /\ entries \subseteq ReadsOf(request.path)
      /\ \A e \in entries : e.examined.last > 0
      /\ LinesOf(span) \subseteq UNION {LinesOf(e.examined) : e \in entries}
  BY <1>1, CoveredIsRead
<1> HIDE DEF chosen, entries
<1>3. \A e \in entries : e \in ledger.entries /\ e.cap = "read" /\ e.epoch = epoch
  BY <1>2 DEF ReadsOf
<1>4. \A e \in entries : e.token = writes
  <2>1. CASE prev = entries
    BY <2>1
  <2>2. CASE prev = {both}
    <3> DEFINE tokens == {e.token : e \in entries}
               t == IF Cardinality(tokens) = 1
                    THEN CHOOSE t \in tokens : TRUE ELSE NoToken
    <3>1. both.token = t
      BY DEF Composed
    <3>2. t # NoToken /\ t = writes
      BY <2>2, <3>1
    <3>3. IsFiniteSet(tokens)
      <4> DEFINE f == [e \in entries |-> e.token]
      <4>1. f \in [entries -> tokens] /\ \A x \in tokens : \E e \in entries : f[e] = x
        OBVIOUS
      <4> HIDE DEF f, tokens
      <4>2. QED
        BY <4>1, <1>2, ImageIsFinite
    <3>4. \A e \in entries : e.token \in tokens
      OBVIOUS
    <3> HIDE DEF tokens
    <3>5. Cardinality(tokens) = 1 /\ writes = CHOOSE x \in tokens : TRUE
      BY <3>2
    <3>6. PICK x : tokens = {x}
      BY <3>3, <3>5, FS_Singleton
    <3>7. QED
      BY <3>4, <3>5, <3>6
  <2>3. QED
    BY <2>1, <2>2, <1>1
<1>5. \A e \in entries : EntryFresh(ledger, epoch, e, World)
  BY <1>3, <1>4 DEF LedgerFresh, HasToken
<1>6. \A e \in entries : \A i \in e.materials :
          ledger.materials[i].rev = RevOf("read", World)
  BY <1>3, <1>5 DEF EntryFresh
<1>7. \A e \in prev : \A i \in e.materials :
          ledger.materials[i].rev = RevOf("read", World)
  <2>1. both.materials = UNION {e.materials : e \in entries}
    BY DEF Composed
  <2> HIDE DEF both, prev
  <2>2. QED
    BY <1>1, <1>6, <2>1
<1>8. \A e \in entries : LinesOf(e.examined) \subseteq ToldBy(ledger, epoch, "read", World)
  BY <1>2, <1>3, <1>5 DEF EntryFresh
<1>9. Scope("read", request, World) \subseteq LinesOf(span)
  <2>1. span.first \in Nat /\ span.last \in Nat
    BY ObservationAssumption
  <2>2. QED
    BY <1>1, <2>1 DEF Scope, LinesOf
<1>10. QED
  BY <1>2, <1>7, <1>8, <1>9 DEF TrueOf, Reached

(* What the lookup finds under the token of the tree is true of the files. *)
LEMMA PreviousIsTrue ==
    ASSUME CountsHold, LedgerHolds(ledger, epoch),
           LedgerFresh(ledger, epoch, World, writes),
           NEW cap, HasToken(cap), NEW request,
           cap = "read" => request \in Requests,
           Previous(cap, request) # {},
           \A e \in Previous(cap, request) : TokenHolds(cap, e)
    PROVE  TrueOf(Previous(cap, request), cap, request, World)
<1> DEFINE prev == Previous(cap, request)
           same == Lookup(ledger, cap, request, epoch)
<1>1. \A e \in prev : e.token # NoToken /\ e.token = writes
  BY DEF TokenHolds
<1>2. \A e \in ledger.entries : e.token = writes /\ HasToken(e.cap) =>
          EntryFresh(ledger, epoch, e, World)
  BY DEF LedgerFresh
<1>3. CASE same # {}
  <2>1. prev = same
    BY <1>3 DEF Previous
  <2>2. \A e \in same : /\ e \in ledger.entries /\ e.cap = cap
                        /\ e.request = request /\ e.epoch = epoch
    BY DEF Lookup, SameKey
  <2> HIDE DEF same, prev
  <2>3. \A e \in prev : EntryFresh(ledger, epoch, e, World)
    BY <1>1, <1>2, <2>1, <2>2
  <2>4. PICK e \in prev : TRUE
    BY <1>3, <2>1
  <2>5. Scope(cap, request, World) \subseteq Reached(ledger, epoch, cap, World)
    BY <2>1, <2>2, <2>3, <2>4 DEF EntryFresh
  <2>6. \A x \in prev : \A i \in x.materials :
            ledger.materials[i].rev = RevOf(cap, World)
    BY <2>1, <2>2, <2>3 DEF EntryFresh
  <2>7. QED
    BY <2>5, <2>6 DEF TrueOf, prev
<1>4. CASE same = {} /\ cap = "read" /\ CoveringReadFile(request) # {}
  <2>1. prev = CoveringReadFile(request)
    BY <1>4 DEF Previous
  <2>2. QED
    BY <1>1, <1>4, <2>1, CoveringIsTrue
<1>5. CASE same = {} /\ cap = "read" /\ CoveringReadFile(request) = {}
  <2>1. prev = ResourceFailureByPath(request)
    BY <1>5 DEF Previous
  <2>2. \A e \in prev : /\ e \in ledger.entries /\ e.cap = "read"
                        /\ e.request.path = request.path /\ e.refused
    BY <2>1 DEF ResourceFailureByPath, ReadsOf
  <2> HIDE DEF prev
  <2>3. PICK e \in prev : TRUE
    BY DEF prev
  <2>4. request.path = "secret"
    BY <2>2, <2>3 DEF LedgerHolds
  <2>5. Scope(cap, request, World) = {}
    BY <2>4, <1>5 DEF Scope
  <2>6. \A x \in prev : \A i \in x.materials :
            ledger.materials[i].rev = RevOf(cap, World)
    BY <1>1, <1>2, <1>5, <2>2 DEF EntryFresh, HasToken
  <2>7. QED
    BY <2>5, <2>6 DEF TrueOf, prev
<1>6. CASE same = {} /\ cap # "read"
  BY <1>6 DEF Previous
<1>7. QED
  BY <1>3, <1>4, <1>5, <1>6

(* Main asks.                                                              *)
LEMMA AskStep ==
    ASSUME ObservationIInv, NEW cap \in Caps, NEW request \in RequestT,
           cap = "read" => request \in Requests, Ask(cap, request)
    PROVE  ObservationIInv'
<1> DEFINE prev == Previous(cap, request)
           asked == [NoOp EXCEPT !.cap = cap, !.request = request, !.seen = {World}]
           left == IF HasFreshness(cap) THEN UNION {e.materials : e \in prev} ELSE {}
           look == [asked EXCEPT !.pc = "look", !.pre = TokenOf(cap)]
           before == [asked EXCEPT !.pc = "before"]
           prove == [asked EXCEPT !.pc = "prove", !.prev = prev, !.left = left]
<1>1. /\ ops' = ops + 1 /\ ops < MaxOps /\ answer' = NoAnswer
      /\ file' = file /\ listing' = listing /\ writes' = writes /\ edits' = edits
      /\ ledger' = ledger /\ epoch' = epoch /\ saved' = saved
      /\ effects' = effects /\ kills' = kills
  BY DEF Ask, sourceVars, sessionVars
<1>2. \/ op' = look
      \/ op' = before
      \/ /\ op' = prove /\ prev # {} /\ \A e \in prev : TokenHolds(cap, e)
  BY Zenon DEF Ask
<1>3. CountsHold' /\ World' = World
  <2>1. ops + 1 \in 0..MaxOps
    BY <1>1, ObservationAssumption DEF ObservationIInv, CountsHold
  <2>2. QED
    BY <1>1, <2>1 DEF ObservationIInv, CountsHold, SourceTypeOK, World
<1>4. /\ LedgerHolds(ledger, epoch)' /\ LedgerFresh(ledger, epoch, World, writes)'
      /\ LedgerHolds(saved.ledger, saved.epoch)'
      /\ LedgerFresh(saved.ledger, saved.epoch, World, writes)'
      /\ (saved = [ledger |-> saved.ledger, epoch |-> saved.epoch, moments |-> saved.moments])'
  BY <1>1, <1>3 DEF ObservationIInv
<1>5. RecallIsProved' /\ ReplayIsCurrent' /\ answer'.what = "none"
  BY <1>1 DEF NoAnswer, RecallIsProved, ReplayIsCurrent
<1>6. /\ writes \in Nat /\ CountsHold /\ LedgerHolds(ledger, epoch)
      /\ LedgerFresh(ledger, epoch, World, writes)
  BY DEF ObservationIInv, CountsHold, SourceTypeOK
<1>7. left \subseteq DOMAIN ledger.materials /\ left \in SUBSET Nat
  <2>1. \A e \in prev : e.materials \subseteq DOMAIN ledger.materials
    BY <1>6, PreviousIsKnown
  <2>2. DOMAIN ledger.materials \subseteq Nat
    <3>1. ledger.materials \in Seq(MaterialT)
      BY <1>6 DEF LedgerHolds, LedgerT
    <3>2. QED
      BY <3>1
  <2> HIDE DEF prev
  <2>3. QED
    BY <2>1, <2>2
<1>8. TokenOf(cap) \in Nat /\ TokenOf(cap) <= writes
  BY <1>6 DEF TokenOf, NoToken
<1>9. /\ Span(0, 0) \in SpanT /\ <<>> \in Seq(SpanT) /\ NoToken \in Nat
      /\ NoToken <= writes /\ cap # "none"
  BY <1>6 DEF Span, SpanT, NoToken, Caps, Tools
<1> HIDE DEF prev, left
<1>10. ASSUME NEW pc \in {"look", "before", "prove"}, NEW pre \in Nat, pre <= writes,
              NEW l \in SUBSET Nat, l \subseteq DOMAIN ledger.materials, NEW p,
              op' = [cap |-> cap, request |-> request, pc |-> pc, prev |-> p,
                     left |-> l, pre |-> pre, seen |-> {World}, found |-> <<>>,
                     page |-> {}, rest |-> {}, examined |-> Span(0, 0),
                     result |-> "none"]
       PROVE  OpHolds' /\ OpFresh' /\ CursorHolds'
  <2>1. OpTyped'
    <3>1. pc \in Pcs /\ "none" \in Results
      BY <1>10 DEF Pcs, Results
    <3>2. op'.prev = p /\ op'.seen = {World}
      BY <1>10
    <3>3. op' \in [cap : Caps \union {"none"}, request : RequestT, pc : Pcs,
                   prev : {p}, left : SUBSET Nat, pre : Nat, seen : {{World}},
                   found : Seq(SpanT), page : SUBSET MaterialT,
                   rest : SUBSET SnapshotT, examined : SpanT, result : Results]
      BY <1>9, <1>10, <3>1
    <3>4. QED
      BY <3>2, <3>3 DEF OpTyped
  <2>2. OpHolds'
    BY <1>1, <1>5, <1>9, <1>10, <2>1 DEF OpHolds
  <2>3. OpFresh' /\ CursorHolds'
    BY <1>10 DEF OpFresh, CursorHolds, Continuing
  <2>4. QED
    BY <2>2, <2>3
<1>11. CASE op' = look
  <2>1. op' = [cap |-> cap, request |-> request, pc |-> "look", prev |-> {},
               left |-> {}, pre |-> TokenOf(cap), seen |-> {World}, found |-> <<>>,
               page |-> {}, rest |-> {}, examined |-> Span(0, 0),
               result |-> "none"]
    BY <1>11 DEF NoOp
  <2>2. OpHolds' /\ OpFresh' /\ CursorHolds'
    BY <1>8, <1>10, <2>1
  <2>3. ProofHolds'
    BY <2>1 DEF ProofHolds
  <2>4. QED
    BY <1>3, <1>4, <1>5, <2>2, <2>3 DEF ObservationIInv
<1>12. CASE op' = before
  <2>1. op' = [cap |-> cap, request |-> request, pc |-> "before", prev |-> {},
               left |-> {}, pre |-> NoToken, seen |-> {World}, found |-> <<>>,
               page |-> {}, rest |-> {}, examined |-> Span(0, 0),
               result |-> "none"]
    BY <1>12 DEF NoOp
  <2>2. OpHolds' /\ OpFresh' /\ CursorHolds'
    BY <1>9, <1>10, <2>1
  <2>3. ProofHolds'
    BY <2>1 DEF ProofHolds
  <2>4. QED
    BY <1>3, <1>4, <1>5, <2>2, <2>3 DEF ObservationIInv
<1>13. CASE op' = prove /\ prev # {} /\ \A e \in prev : TokenHolds(cap, e)
  <2>1. op' = [cap |-> cap, request |-> request, pc |-> "prove", prev |-> prev,
               left |-> left, pre |-> NoToken, seen |-> {World}, found |-> <<>>,
               page |-> {}, rest |-> {}, examined |-> Span(0, 0),
               result |-> "none"]
    BY <1>13 DEF NoOp
  <2>2. op'.prev = prev
    BY <1>13 DEF NoOp
  <2>3. OpHolds' /\ OpFresh' /\ CursorHolds'
    BY <1>7, <1>9, <1>10, <2>1
  <2>4. op'.cap = cap /\ op'.request = request /\ op'.seen = {World}
    BY <2>1
  <2>5. HasToken(cap) => TrueOf(prev, cap, request, World)
    BY <1>6, <1>13, PreviousIsTrue DEF prev
  <2>6. ProofHolds'
    BY <1>1, <2>2, <2>4, <2>5 DEF ProofHolds, TrueOf
  <2>7. QED
    BY <1>3, <1>4, <1>5, <2>3, <2>6 DEF ObservationIInv
<1>14. QED
  BY <1>2, <1>11, <1>12, <1>13

(* What the session was told and what it can go on to, by name.            *)
LEMMA ToldAndAhead ==
    \A cap, w : /\ Told(cap, w) = ToldBy(ledger, epoch, cap, w)
                /\ Ahead(cap, w) = AheadBy(ledger, epoch, cap, w)
BY DEF Told, ToldBy, Ahead, AheadBy

(* The replay is given.                                                    *)
LEMMA ReplayStep ==
    ASSUME ObservationIInv, Replay
    PROVE  ObservationIInv'
<1> DEFINE given == UNION {e.materials : e \in op.prev}
<1>1. /\ op.pc = "prove" /\ op' = NoOp
      /\ file' = file /\ listing' = listing /\ writes' = writes /\ edits' = edits
      /\ ledger' = ledger /\ epoch' = epoch /\ saved' = saved
      /\ ops' = ops /\ effects' = effects /\ kills' = kills
  BY DEF Replay, sourceVars, sessionVars, countVars
<1>2. /\ answer'.what = "replay" /\ answer'.cap = op.cap
      /\ answer'.request = op.request /\ answer'.materials = given
      /\ answer'.seen = op.seen
  BY DEF Replay, NoAnswer
<1> HIDE DEF given
<1>3. CountsHold' /\ World' = World
  BY <1>1 DEF ObservationIInv, CountsHold, SourceTypeOK, World
<1>4. /\ LedgerHolds(ledger, epoch)' /\ LedgerFresh(ledger, epoch, World, writes)'
      /\ LedgerHolds(saved.ledger, saved.epoch)'
      /\ LedgerFresh(saved.ledger, saved.epoch, World, writes)'
      /\ (saved = [ledger |-> saved.ledger, epoch |-> saved.epoch, moments |-> saved.moments])'
  BY <1>1, <1>3 DEF ObservationIInv
<1>5. OpHolds' /\ OpFresh' /\ CursorHolds' /\ ProofHolds'
  <2>1. writes' \in Nat
    BY <1>3 DEF CountsHold, SourceTypeOK
  <2>2. ((writes \in Nat /\ op = NoOp) => (OpHolds /\ OpFresh /\ CursorHolds /\ ProofHolds))'
    BY IdleHolds, PTL
  <2>3. QED
    BY <2>1, <2>2, <1>1
<1>6. ReplayIsCurrent'
  <2>1. ASSUME HasToken(op.cap)
        PROVE  \E w \in op.seen :
                   /\ \A i \in given : ledger.materials[i].rev = RevOf(op.cap, w)
                   /\ Scope(op.cap, op.request, w)
                         \subseteq Told(op.cap, w) \union Ahead(op.cap, w)
    <3>1. PICK w \in op.seen :
             /\ \A e \in op.prev : \A i \in e.materials :
                   ledger.materials[i].rev = RevOf(op.cap, w)
             /\ Scope(op.cap, op.request, w) \subseteq Reached(ledger, epoch, op.cap, w)
      BY <1>1, <2>1 DEF ObservationIInv, ProofHolds
    <3>2. Reached(ledger, epoch, op.cap, w) = Told(op.cap, w) \union Ahead(op.cap, w)
      BY ToldAndAhead DEF Reached
    <3>3. \A i \in given : ledger.materials[i].rev = RevOf(op.cap, w)
      BY <3>1 DEF given
    <3>4. QED
      BY <3>1, <3>2, <3>3
  <2>2. \A cap, w : Told(cap, w)' = Told(cap, w) /\ Ahead(cap, w)' = Ahead(cap, w)
    BY <1>1 DEF Told, Ahead
  <2>3. QED
    BY <1>1, <1>2, <2>1, <2>2 DEF ReplayIsCurrent
<1>7. RecallIsProved'
  BY <1>2 DEF RecallIsProved
<1>8. QED
  BY <1>3, <1>4, <1>5, <1>6, <1>7 DEF ObservationIInv

(* A material is recalled.                                                 *)
LEMMA RecallStep ==
    ASSUME ObservationIInv, NEW n, RecallEvidence(n)
    PROVE  ObservationIInv'
<1> DEFINE m == ledger.materials[n]
           current == \/ Proof(m) \in {"exact_current", "token_current"}
                      \/ Proof(m) # "stale" /\ m.epoch = epoch
<1>1. /\ op.pc = "idle" /\ ops < MaxOps /\ n \in DOMAIN ledger.materials
      /\ ops' = ops + 1 /\ op' = op
      /\ file' = file /\ listing' = listing /\ writes' = writes /\ edits' = edits
      /\ ledger' = ledger /\ epoch' = epoch /\ saved' = saved
      /\ effects' = effects /\ kills' = kills
  BY DEF RecallEvidence, sourceVars, sessionVars, MaterialIds
<1>2. /\ answer'.what = "recall" /\ answer'.cap = m.cap
      /\ answer'.materials = {n} /\ answer'.seen = {World}
      /\ answer'.current = current
  BY DEF RecallEvidence, NoAnswer
<1>3. CountsHold' /\ World' = World
  <2>1. ops + 1 \in 0..MaxOps
    BY <1>1, ObservationAssumption DEF ObservationIInv, CountsHold
  <2>2. QED
    BY <1>1, <2>1 DEF ObservationIInv, CountsHold, SourceTypeOK, World
<1>4. /\ LedgerHolds(ledger, epoch)' /\ LedgerFresh(ledger, epoch, World, writes)'
      /\ LedgerHolds(saved.ledger, saved.epoch)'
      /\ LedgerFresh(saved.ledger, saved.epoch, World, writes)'
      /\ (saved = [ledger |-> saved.ledger, epoch |-> saved.epoch, moments |-> saved.moments])'
  BY <1>1, <1>3 DEF ObservationIInv
<1>5. OpHolds' /\ OpFresh' /\ CursorHolds' /\ ProofHolds'
  <2>1. OpTyped'
    BY <1>1 DEF ObservationIInv, OpHolds, OpTyped
  <2>2. OpHolds'
    BY <1>1, <2>1 DEF ObservationIInv, OpHolds
  <2>3. op'.page = {} /\ op'.rest = {}
    BY <1>1 DEF ObservationIInv, OpHolds
  <2>4. QED
    BY <1>1, <2>2, <2>3 DEF OpFresh, CursorHolds, ProofHolds, Continuing
<1>6. ReplayIsCurrent'
  BY <1>2 DEF ReplayIsCurrent
<1>7. m.body \in {NoBody, m.rev}
  BY <1>1 DEF ObservationIInv, LedgerHolds
<1>8. ASSUME current, HasToken(m.cap)
      PROVE  m.rev = RevOf(m.cap, World)
  <2>1. CASE HasFreshness(m.cap) /\ m.of = "file"
    <3>1. m.rev = file
      BY <1>8, <2>1 DEF Proof
    <3>2. m.cap # "tree"
      BY <2>1 DEF HasFreshness
    <3>3. QED
      BY <3>1, <3>2 DEF RevOf, World
  <2>2. CASE ~(HasFreshness(m.cap) /\ m.of = "file")
    <3>1. m.token = writes
      BY <1>8, <2>2 DEF Proof
    <3>2. QED
      BY <1>1, <1>8, <3>1 DEF ObservationIInv, LedgerFresh
  <2>3. QED
    BY <2>1, <2>2
<1> HIDE DEF m, current
<1>9. RecallIsProved'
  <2>1. SUFFICES ASSUME current
                 PROVE  /\ HasToken(m.cap) => m.rev = RevOf(m.cap, World)
                        /\ m.body \in {NoBody, m.rev}
    BY <1>1, <1>2 DEF RecallIsProved, m
  <2>2. QED
    BY <1>7, <1>8, <2>1
<1>10. QED
  BY <1>3, <1>4, <1>5, <1>6, <1>9 DEF ObservationIInv

(* A ledger that differs only in the texts at hand is as good.             *)
LEMMA TextsMayGo ==
    ASSUME NEW l, NEW ep \in Nat, NEW w, NEW now,
           LedgerHolds(l, ep), LedgerFresh(l, ep, w, now),
           NEW r \in LedgerT, r.entries = l.entries, r.handles = l.handles,
           r.snapshots = l.snapshots, r.frontiers = l.frontiers,
           DOMAIN r.materials = DOMAIN l.materials,
           \A i \in DOMAIN l.materials :
               /\ SameMaterial(l.materials[i], r.materials[i])
               /\ r.materials[i].from = l.materials[i].from
               /\ r.materials[i].token = l.materials[i].token
               /\ r.materials[i].body \in {NoBody, r.materials[i].rev}
    PROVE  LedgerHolds(r, ep) /\ LedgerFresh(r, ep, w, now)
<1>1. MaterialsKept(l, r)
  BY DEF MaterialsKept
<1>2. \A i \in DOMAIN l.materials : /\ r.materials[i].epoch = l.materials[i].epoch
                                    /\ r.materials[i].rev = l.materials[i].rev
                                    /\ r.materials[i].cap = l.materials[i].cap
  BY DEF SameMaterial
<1>3. LedgerHolds(r, ep)
  BY <1>2 DEF LedgerHolds
<1>4. \A e \in l.entries : EntryFresh(l, ep, e, w) => EntryFresh(r, ep, e, w)
  <2>1. \A e \in l.entries : e.materials \subseteq DOMAIN l.materials
    BY DEF LedgerHolds
  <2>2. QED
    BY <1>1, <2>1, ReachedSame
<1>5. LedgerFresh(r, ep, w, now)
  BY <1>2, <1>4 DEF LedgerFresh
<1>6. QED
  BY <1>3, <1>5

(* After a write nothing carries the token of the tree.                    *)
LEMMA NothingIsFresh ==
    ASSUME NEW l, NEW ep \in Nat, NEW w, NEW now \in Nat,
           LedgerHolds(l, ep), LedgerFresh(l, ep, w, now)
    PROVE  \A epx, wx : LedgerFresh(l, epx, wx, now + 1)
<1>1. l \in LedgerT
  BY DEF LedgerHolds
<1>2. \A i \in DOMAIN l.materials : /\ l.materials[i].token \in Nat
                                    /\ l.materials[i].token <= now
  <2>1. l.materials \in Seq(MaterialT)
    BY <1>1 DEF LedgerT
  <2>2. \A i \in DOMAIN l.materials : l.materials[i] \in MaterialT
    BY <2>1
  <2>3. QED
    BY <2>2 DEF MaterialT, LedgerFresh
<1>3. \A e \in l.entries : e.token \in Nat /\ e.token <= now
  <2>1. \A e \in l.entries : e \in EntryT
    BY <1>1 DEF LedgerT
  <2>2. QED
    BY <2>1 DEF EntryT, LedgerFresh
<1>4. \A i \in DOMAIN l.materials : /\ l.materials[i].token <= now + 1
                                    /\ l.materials[i].token # now + 1
  BY <1>2
<1>5. \A e \in l.entries : e.token <= now + 1 /\ e.token # now + 1
  BY <1>3
<1>6. QED
  BY <1>4, <1>5 DEF LedgerFresh

(* An empty ledger.                                                        *)
LEMMA EmptyHolds ==
    \A w : \A now \in Nat : /\ LedgerHolds(EmptyLedger, 0)
                            /\ LedgerFresh(EmptyLedger, 0, w, now)
<1>1. /\ EmptyLedger.entries = {} /\ EmptyLedger.handles = {}
      /\ EmptyLedger.frontiers = <<>> /\ EmptyLedger.materials = <<>>
      /\ DOMAIN EmptyLedger.frontiers = {} /\ DOMAIN EmptyLedger.materials = {}
  BY DEF EmptyLedger
<1>2. EmptyLedger \in LedgerT
  <2>1. <<>> \in Seq(FrontierT) /\ <<>> \in Seq(MaterialT)
    OBVIOUS
  <2>2. QED
    BY <2>1 DEF EmptyLedger, LedgerT
<1>3. IsFiniteSet({})
  BY FS_EmptySet
<1>4. QED
  BY <1>1, <1>2, <1>3 DEF LedgerHolds, LedgerFresh

(* What a tree in another state makes of an idle operation.                *)
LEMMA IdleStays ==
    ASSUME ObservationIInv, op.pc = "idle", op' = op,
           writes' \in Nat, writes <= writes'
    PROVE  OpHolds' /\ OpFresh' /\ CursorHolds' /\ ProofHolds'
<1>1. OpTyped' /\ op.page = {} /\ op.rest = {} /\ op.pre \in Nat
  BY DEF ObservationIInv, OpHolds, OpTyped
<1>2. op.pre <= writes'
  <2>1. writes \in Nat /\ op.pre <= writes
    BY DEF ObservationIInv, OpHolds, CountsHold, SourceTypeOK
  <2>2. QED
    BY <1>1, <2>1
<1>3. OpHolds'
  BY <1>1, <1>2 DEF ObservationIInv, OpHolds
<1>4. QED
  BY <1>1, <1>3 DEF OpFresh, CursorHolds, ProofHolds, Continuing

(* A checkpoint.                                                           *)
LEMMA CheckpointStep ==
    ASSUME ObservationIInv, Checkpoint
    PROVE  ObservationIInv'
<1> DEFINE view == PersistedView(ledger)
           mats == ledger.materials
           bare == [i \in DOMAIN mats |-> [mats[i] EXCEPT !.body = NoBody]]
<1>1. /\ op.pc = "idle" /\ op' = op
      /\ file' = file /\ listing' = listing /\ writes' = writes /\ edits' = edits
      /\ ledger' = ledger /\ epoch' = epoch
      /\ saved' = [ledger |-> view, epoch |-> epoch, moments |-> moments]
      /\ answer' = NoAnswer
      /\ ops' = ops /\ effects' = effects /\ kills' = kills
  BY DEF Checkpoint, sourceVars, countVars
<1>2. /\ epoch \in Nat /\ writes \in Nat /\ LedgerHolds(ledger, epoch)
      /\ LedgerFresh(ledger, epoch, World, writes) /\ ledger \in LedgerT
  BY DEF ObservationIInv, CountsHold, SourceTypeOK, LedgerHolds
<1>3. saved'.ledger = view /\ saved'.epoch = epoch
  BY <1>1
<1>4. CountsHold' /\ World' = World
  BY <1>1, <1>3 DEF ObservationIInv, CountsHold, SourceTypeOK, World
<1>5. mats \in Seq(MaterialT)
  BY <1>2 DEF LedgerT
<1>6. \A i \in DOMAIN mats :
          /\ bare[i] \in MaterialT /\ SameMaterial(mats[i], bare[i])
          /\ bare[i].from = mats[i].from /\ bare[i].token = mats[i].token
          /\ bare[i].body = NoBody
  <2> HIDE DEF mats
  <2>1. \A i \in DOMAIN mats : mats[i] \in MaterialT
    BY <1>5
  <2>2. QED
    BY <2>1 DEF MaterialT, SameMaterial, Bodies
<1>7. bare \in Seq(MaterialT) /\ DOMAIN bare = DOMAIN mats
  <2> HIDE DEF mats
  <2>1. DOMAIN mats = 1..Len(mats) /\ Len(mats) \in Nat
    BY <1>5
  <2>2. DOMAIN bare = DOMAIN mats /\ bare = [i \in DOMAIN mats |-> bare[i]]
    OBVIOUS
  <2> HIDE DEF bare
  <2>3. bare \in [1..Len(mats) -> MaterialT]
    BY <2>1, <2>2, <1>6
  <2>4. QED
    BY <2>1, <2>2, <2>3, SeqDef
<1>8. view = [ledger EXCEPT !.materials = bare]
  BY DEF PersistedView
<1> HIDE DEF bare, view
<1>9. /\ view \in LedgerT /\ view.entries = ledger.entries
      /\ view.handles = ledger.handles /\ view.snapshots = ledger.snapshots
      /\ view.frontiers = ledger.frontiers /\ view.materials = bare
  BY <1>2, <1>7, <1>8 DEF LedgerT
<1>10. LedgerHolds(view, epoch) /\ LedgerFresh(view, epoch, World, writes)
  BY <1>2, <1>6, <1>7, <1>9, TextsMayGo
<1>11. /\ LedgerHolds(saved.ledger, saved.epoch)'
       /\ LedgerFresh(saved.ledger, saved.epoch, World, writes)'
       /\ (saved = [ledger |-> saved.ledger, epoch |-> saved.epoch, moments |-> saved.moments])'
  BY <1>1, <1>3, <1>4, <1>10
<1>12. LedgerHolds(ledger, epoch)' /\ LedgerFresh(ledger, epoch, World, writes)'
  BY <1>1, <1>2, <1>4
<1>13. OpHolds' /\ OpFresh' /\ CursorHolds' /\ ProofHolds'
  BY <1>1, <1>2, IdleStays
<1>14. RecallIsProved' /\ ReplayIsCurrent'
  BY <1>1 DEF NoAnswer, RecallIsProved, ReplayIsCurrent
<1>15. QED
  BY <1>4, <1>11, <1>12, <1>13, <1>14 DEF ObservationIInv

(* The process is killed, and the session resumed.                         *)
LEMMA ResumeStep ==
    ASSUME ObservationIInv, Resume
    PROVE  ObservationIInv'
<1> DEFINE mats == saved.ledger.materials
           full == [i \in DOMAIN mats |-> Rehydrated(mats[i])]
<1>1. /\ op' = NoOp /\ kills < MaxKills /\ kills' = kills + 1
      /\ file' = file /\ listing' = listing /\ writes' = writes /\ edits' = edits
      /\ ledger' = [saved.ledger EXCEPT !.materials = full]
      /\ epoch' = saved.epoch /\ answer' = NoAnswer
      /\ saved' = saved \/ saved' = NoSession
      /\ ops' = ops /\ effects' = effects
  BY DEF Resume, sourceVars
<1>2. /\ saved.epoch \in Nat /\ writes \in Nat /\ LedgerHolds(saved.ledger, saved.epoch)
      /\ LedgerFresh(saved.ledger, saved.epoch, World, writes)
      /\ saved.ledger \in LedgerT
      /\ saved = [ledger |-> saved.ledger, epoch |-> saved.epoch, moments |-> saved.moments]
  BY DEF ObservationIInv, CountsHold, SourceTypeOK, LedgerHolds
<1>3. CountsHold' /\ World' = World
  <2>1. kills + 1 \in 0..MaxKills
    BY <1>1, ObservationAssumption DEF ObservationIInv, CountsHold
  <2>2. saved'.epoch \in Nat /\ saved'.epoch <= effects
    BY <1>1 DEF ObservationIInv, CountsHold, NoSession
  <2>3. QED
    BY <1>1, <2>1, <2>2 DEF ObservationIInv, CountsHold, SourceTypeOK, World
<1>4. mats \in Seq(MaterialT)
  BY <1>2 DEF LedgerT
<1>5. \A i \in DOMAIN mats :
          /\ full[i] \in MaterialT /\ SameMaterial(mats[i], full[i])
          /\ full[i].from = mats[i].from /\ full[i].token = mats[i].token
          /\ full[i].body \in {NoBody, full[i].rev}
  <2>1. \A i \in DOMAIN mats : /\ mats[i] \in MaterialT
                               /\ mats[i].body \in {NoBody, mats[i].rev}
    <3>1. \A i \in DOMAIN mats : mats[i].body \in {NoBody, mats[i].rev}
      BY <1>2 DEF LedgerHolds
    <3> HIDE DEF mats
    <3>2. QED
      BY <1>4, <3>1
  <2> HIDE DEF mats
  <2>2. file \in Rev
    BY DEF ObservationIInv, CountsHold, SourceTypeOK, Rev
  <2>3. \A m \in MaterialT :
            m.body \in {NoBody, m.rev} =>
            /\ Rehydrated(m) \in MaterialT /\ SameMaterial(m, Rehydrated(m))
            /\ Rehydrated(m).from = m.from /\ Rehydrated(m).token = m.token
            /\ Rehydrated(m).body \in {NoBody, Rehydrated(m).rev}
    BY <2>2 DEF MaterialT, SameMaterial, Bodies, Rehydrated
  <2>4. QED
    BY <2>1, <2>3
<1>6. full \in Seq(MaterialT) /\ DOMAIN full = DOMAIN mats
  <2> HIDE DEF mats
  <2>1. DOMAIN mats = 1..Len(mats) /\ Len(mats) \in Nat
    BY <1>4
  <2>2. DOMAIN full = DOMAIN mats /\ full = [i \in DOMAIN mats |-> full[i]]
    OBVIOUS
  <2> HIDE DEF full
  <2>3. full \in [1..Len(mats) -> MaterialT]
    BY <2>1, <2>2, <1>5
  <2>4. QED
    BY <2>1, <2>2, <2>3, SeqDef
<1> HIDE DEF full
<1>7. /\ ledger' \in LedgerT /\ ledger'.entries = saved.ledger.entries
      /\ ledger'.handles = saved.ledger.handles
      /\ ledger'.snapshots = saved.ledger.snapshots
      /\ ledger'.frontiers = saved.ledger.frontiers /\ ledger'.materials = full
  BY <1>1, <1>2, <1>6 DEF LedgerT
<1>8. LedgerHolds(ledger', saved.epoch) /\ LedgerFresh(ledger', saved.epoch, World, writes)
  BY <1>2, <1>5, <1>6, <1>7, TextsMayGo, SMTT(60)
<1>9. LedgerHolds(ledger, epoch)' /\ LedgerFresh(ledger, epoch, World, writes)'
  BY <1>1, <1>3, <1>8
<1>10. /\ LedgerHolds(saved.ledger, saved.epoch)'
       /\ LedgerFresh(saved.ledger, saved.epoch, World, writes)'
       /\ (saved = [ledger |-> saved.ledger, epoch |-> saved.epoch, moments |-> saved.moments])'
  <2>1. CASE saved' = saved
    BY <2>1, <1>1, <1>2, <1>3
  <2>2. CASE saved' = NoSession
    <3>1. saved'.ledger = EmptyLedger /\ saved'.epoch = 0
          /\ saved' = [ledger |-> saved'.ledger, epoch |-> saved'.epoch,
                        moments |-> saved'.moments]
      BY <2>2 DEF NoSession
    <3>2. QED
      BY <3>1, <1>1, <1>2, <1>3, EmptyHolds
  <2>3. QED
    BY <2>1, <2>2, <1>1
<1>11. OpHolds' /\ OpFresh' /\ CursorHolds' /\ ProofHolds'
  <2>1. writes' \in Nat
    BY <1>3 DEF CountsHold, SourceTypeOK
  <2>2. ((writes \in Nat /\ op = NoOp) => (OpHolds /\ OpFresh /\ CursorHolds /\ ProofHolds))'
    BY IdleHolds, PTL
  <2>3. QED
    BY <2>1, <2>2, <1>1
<1>12. RecallIsProved' /\ ReplayIsCurrent'
  BY <1>1 DEF NoAnswer, RecallIsProved, ReplayIsCurrent
<1>13. QED
  BY <1>3, <1>9, <1>10, <1>11, <1>12 DEF ObservationIInv

(* The user confirms a transaction.                                        *)
LEMMA ConfirmStep ==
    ASSUME ObservationIInv, NEW revision \in Revisions, ConfirmTransaction(revision)
    PROVE  ObservationIInv'
<1> DEFINE m == Written(revision)
           found == {m}
           r == RegisterMaterialCandidates(ledger, found)
<1>1. /\ op.pc = "idle" /\ op' = op /\ effects < MaxEffects
      /\ effects' = effects + 1 /\ epoch' = epoch + 1 /\ ledger' = r
      /\ file' = revision /\ writes' = writes + 1
      /\ listing' = listing /\ edits' = edits
      /\ saved' = saved /\ answer' = NoAnswer
      /\ ops' = ops /\ kills' = kills
  BY DEF ConfirmTransaction, Rewrite
<1>2. /\ epoch \in Nat /\ writes \in Nat /\ LedgerHolds(ledger, epoch)
      /\ LedgerFresh(ledger, epoch, World, writes) /\ ledger \in LedgerT
      /\ saved.epoch \in Nat /\ LedgerHolds(saved.ledger, saved.epoch)
      /\ LedgerFresh(saved.ledger, saved.epoch, World, writes)
  BY DEF ObservationIInv, CountsHold, SourceTypeOK, LedgerHolds
<1>3. CountsHold'
  <2>1. /\ effects + 1 \in 0..MaxEffects /\ epoch + 1 \in Nat
        /\ epoch + 1 <= effects + 1 /\ saved.epoch <= effects + 1
    BY <1>1, ObservationAssumption DEF ObservationIInv, CountsHold
  <2>2. /\ writes + 1 \in Nat \ {0} /\ listing \in Listings /\ edits \in 0..MaxEdits
        /\ ops \in 0..MaxOps /\ kills \in 0..MaxKills
    BY DEF ObservationIInv, CountsHold, SourceTypeOK
  <2>3. QED
    BY <1>1, <1>2, <2>1, <2>2 DEF CountsHold, SourceTypeOK
<1>4. /\ m \in MaterialT /\ m.epoch = epoch + 1 /\ m.token = 0
      /\ m.rev = revision /\ m.body = revision
  <2>1. Lines[revision] \in Nat /\ revision \in Rev
    BY SourceAssumption DEF Rev
  <2>2. QED
    BY <1>2, <2>1 DEF Written, MaterialT, Span, SpanT, Caps, Bodies, NoToken
<1> HIDE DEF m
<1>5. /\ r \in LedgerT
      /\ r.entries = ledger.entries /\ r.handles = ledger.handles
      /\ r.snapshots = ledger.snapshots /\ r.frontiers = ledger.frontiers
      /\ DOMAIN ledger.materials \subseteq DOMAIN r.materials
      /\ \A i \in DOMAIN r.materials :
            \/ i \in DOMAIN ledger.materials /\ r.materials[i] = ledger.materials[i]
            \/ \E x \in found : /\ SameMaterial(x, r.materials[i])
                                /\ r.materials[i].token = x.token
                                /\ r.materials[i].body = x.body
  <2>1. found \in SUBSET MaterialT /\ \A x \in found : found = {x}
    BY <1>4
  <2> HIDE DEF found
  <2>2. QED
    BY <1>2, <2>1, MaterialsStay
<1> HIDE DEF r
<1>6. \A i \in DOMAIN r.materials :
          \/ i \in DOMAIN ledger.materials /\ r.materials[i] = ledger.materials[i]
          \/ /\ r.materials[i].epoch = epoch + 1 /\ r.materials[i].token = 0
             /\ r.materials[i].rev = r.materials[i].body
  BY <1>4, <1>5 DEF SameMaterial
<1>7. \A i \in DOMAIN ledger.materials :
          /\ ledger.materials[i].epoch \in Nat /\ ledger.materials[i].token \in Nat
          /\ ledger.materials[i].epoch <= epoch /\ ledger.materials[i].token <= writes
          /\ ledger.materials[i].body \in {NoBody, ledger.materials[i].rev}
  <2>1. ledger.materials \in Seq(MaterialT)
    BY <1>2 DEF LedgerT
  <2>2. \A i \in DOMAIN ledger.materials : ledger.materials[i] \in MaterialT
    BY <2>1
  <2>3. QED
    BY <1>2, <2>2 DEF MaterialT, LedgerHolds, LedgerFresh
<1>8. \A i \in DOMAIN r.materials :
          /\ r.materials[i].epoch <= epoch + 1
          /\ r.materials[i].body \in {NoBody, r.materials[i].rev}
          /\ r.materials[i].token <= writes + 1 /\ r.materials[i].token # writes + 1
  <2> TAKE i \in DOMAIN r.materials
  <2>1. CASE i \in DOMAIN ledger.materials /\ r.materials[i] = ledger.materials[i]
    BY <1>2, <1>7, <2>1
  <2>2. CASE /\ r.materials[i].epoch = epoch + 1 /\ r.materials[i].token = 0
             /\ r.materials[i].rev = r.materials[i].body
    BY <1>2, <2>2
  <2>3. QED
    BY <1>6, <2>1, <2>2
<1>9. \A e \in ledger.entries :
          /\ e.epoch <= epoch + 1 /\ e.token <= writes + 1 /\ e.token # writes + 1
  <2>1. \A e \in ledger.entries : e \in EntryT
    BY <1>2 DEF LedgerT
  <2>2. \A e \in ledger.entries : e.epoch \in Nat /\ e.token \in Nat
    BY <2>1 DEF EntryT
  <2>3. \A e \in ledger.entries : e.epoch <= epoch /\ e.token <= writes
    BY <1>2 DEF LedgerHolds, LedgerFresh
  <2>4. QED
    BY <1>2, <2>2, <2>3
<1>10. LedgerHolds(r, epoch + 1)
  BY <1>2, <1>5, <1>8, <1>9 DEF LedgerHolds
<1>11. \A w : LedgerFresh(r, epoch + 1, w, writes + 1)
  BY <1>5, <1>8, <1>9 DEF LedgerFresh
<1>12. \A w : LedgerFresh(saved.ledger, saved.epoch, w, writes + 1)
  BY <1>2, NothingIsFresh
<1>13. LedgerHolds(ledger, epoch)' /\ LedgerFresh(ledger, epoch, World, writes)'
  BY <1>1, <1>10, <1>11
<1>14. /\ LedgerHolds(saved.ledger, saved.epoch)'
       /\ LedgerFresh(saved.ledger, saved.epoch, World, writes)'
       /\ (saved = [ledger |-> saved.ledger, epoch |-> saved.epoch, moments |-> saved.moments])'
  BY <1>1, <1>2, <1>12 DEF ObservationIInv
<1>15. OpHolds' /\ OpFresh' /\ CursorHolds' /\ ProofHolds'
  <2>1. writes' \in Nat /\ writes <= writes'
    BY <1>1, <1>2
  <2>2. QED
    BY <1>1, <2>1, IdleStays
<1>16. RecallIsProved' /\ ReplayIsCurrent'
  BY <1>1 DEF NoAnswer, RecallIsProved, ReplayIsCurrent
<1>17. QED
  BY <1>3, <1>13, <1>14, <1>15, <1>16 DEF ObservationIInv

(* Another hand writes.                                                    *)
LEMMA OtherHandStep ==
    ASSUME ObservationIInv, OtherHand
    PROVE  ObservationIInv'
<1> DEFINE seen == [op EXCEPT !.seen = op.seen \union {World'}]
<1>1. /\ answer' = NoAnswer /\ writes' = writes + 1
      /\ ledger' = ledger /\ epoch' = epoch /\ saved' = saved
      /\ ops' = ops /\ effects' = effects /\ kills' = kills
      /\ op' = op \/ op' = seen
  BY DEF OtherHand, EditFile, EditElsewhere, Rewrite, SeenToo, sessionVars, countVars
<1>2. SourceTypeOK'
  <2>1. /\ file' \in Revisions /\ listing' \in Listings
        /\ edits < MaxEdits /\ edits' = edits + 1
    BY DEF OtherHand, EditFile, EditElsewhere, Rewrite, ObservationIInv,
           CountsHold, SourceTypeOK
  <2>2. edits + 1 \in 0..MaxEdits /\ writes + 1 \in Nat \ {0}
    BY <2>1, SourceAssumption DEF ObservationIInv, CountsHold, SourceTypeOK
  <2>3. QED
    BY <1>1, <2>1, <2>2 DEF SourceTypeOK
<1>3. CountsHold'
  BY <1>1, <1>2 DEF ObservationIInv, CountsHold
<1>4. /\ epoch \in Nat /\ writes \in Nat /\ LedgerHolds(ledger, epoch)
      /\ LedgerFresh(ledger, epoch, World, writes)
      /\ saved.epoch \in Nat /\ LedgerHolds(saved.ledger, saved.epoch)
      /\ LedgerFresh(saved.ledger, saved.epoch, World, writes)
  BY DEF ObservationIInv, CountsHold, SourceTypeOK
<1>5. \A w : /\ LedgerFresh(ledger, epoch, w, writes + 1)
             /\ LedgerFresh(saved.ledger, saved.epoch, w, writes + 1)
  BY <1>4, NothingIsFresh
<1>6. /\ LedgerHolds(ledger, epoch)' /\ LedgerFresh(ledger, epoch, World, writes)'
      /\ LedgerHolds(saved.ledger, saved.epoch)'
      /\ LedgerFresh(saved.ledger, saved.epoch, World, writes)'
      /\ (saved = [ledger |-> saved.ledger, epoch |-> saved.epoch, moments |-> saved.moments])'
  BY <1>1, <1>4, <1>5 DEF ObservationIInv
<1>7. op \in [cap : Caps \union {"none"}, request : RequestT, pc : Pcs,
              prev : {op.prev}, left : SUBSET Nat, pre : Nat, seen : {op.seen},
              found : Seq(SpanT), page : SUBSET MaterialT, rest : SUBSET SnapshotT,
              examined : SpanT, result : Results]
  BY DEF ObservationIInv, OpHolds, OpTyped
<1>8. /\ op'.cap = op.cap /\ op'.request = op.request /\ op'.pc = op.pc
      /\ op'.prev = op.prev /\ op'.left = op.left /\ op'.pre = op.pre
      /\ op.seen \subseteq op'.seen /\ op'.found = op.found
      /\ op'.page = op.page /\ op'.rest = op.rest
      /\ op'.examined = op.examined /\ op'.result = op.result /\ op.pre \in Nat
  BY <1>1, <1>7
<1>9. op' \in [cap : Caps \union {"none"}, request : RequestT, pc : Pcs,
               prev : {op'.prev}, left : SUBSET Nat, pre : Nat, seen : {op'.seen},
               found : Seq(SpanT), page : SUBSET MaterialT, rest : SUBSET SnapshotT,
               examined : SpanT, result : Results]
  BY <1>1, <1>7
<1> HIDE DEF seen
<1>10. op.pre <= writes
  BY DEF ObservationIInv, OpHolds
<1>11. OpHolds'
  <2>1. OpTyped'
    BY <1>9 DEF OpTyped
  <2>2. op'.pre <= writes'
    BY <1>1, <1>4, <1>8, <1>10
  <2>3. answer'.what = "none"
    BY <1>1 DEF NoAnswer
  <2>4. QED
    BY <1>1, <1>8, <2>1, <2>2, <2>3 DEF ObservationIInv, OpHolds
<1>12. OpFresh'
  <2>1. op'.pre # writes'
    BY <1>1, <1>4, <1>8, <1>10
  <2>2. QED
    BY <2>1 DEF OpFresh
<1>13. CursorHolds'
  <2>1. ~SomethingFresh'
    <3>1. \A e \in ledger.entries : e.token # writes + 1
      <4>1. ledger \in LedgerT /\ \A e \in ledger.entries : e.token <= writes
        BY <1>4 DEF LedgerHolds, LedgerFresh
      <4>2. \A e \in ledger.entries : e \in EntryT
        BY <4>1 DEF LedgerT
      <4>3. \A e \in ledger.entries : e.token \in Nat
        BY <4>2 DEF EntryT
      <4>4. QED
        BY <1>4, <4>1, <4>3
    <3>2. QED
      BY <1>1, <3>1 DEF SomethingFresh
  <2>2. Frontier' = Frontier /\ Continuing' = Continuing
    BY <1>8 DEF Frontier, Continuing
  <2>3. Cursor' = Cursor
    BY <1>1, <2>2 DEF Cursor
  <2>4. CursorError' = CursorError
    BY <1>1, <2>2 DEF CursorError
  <2>5. op.cap = "continue" /\ Continuing =>
            /\ CursorError = "none" /\ op.rest = {}
            /\ op.pc = "show" => Cursor.snapshot.cap \in {"read", "search"}
            /\ \A x \in op.page : x.from = {Cursor.snapshot.cap}
            /\ op.result = "revised" => op.page = {}
    BY DEF ObservationIInv, CursorHolds
  <2>6. QED
    BY <1>8, <2>1, <2>2, <2>3, <2>4, <2>5 DEF CursorHolds
<1>14. ProofHolds'
  <2>1. SUFFICES ASSUME op.pc = "prove", HasToken(op.cap)
                 PROVE  \E w \in op'.seen :
                          /\ \A e \in op.prev : \A i \in e.materials :
                                ledger.materials[i].rev = RevOf(op.cap, w)
                          /\ Scope(op.cap, op.request, w)
                                \subseteq Reached(ledger, epoch, op.cap, w)
    BY <1>1, <1>8 DEF ProofHolds
  <2>2. QED
    BY <1>8, <2>1 DEF ObservationIInv, ProofHolds
<1>15. RecallIsProved' /\ ReplayIsCurrent'
  BY <1>1 DEF NoAnswer, RecallIsProved, ReplayIsCurrent
<1>16. QED
  BY <1>3, <1>6, <1>11, <1>12, <1>13, <1>14, <1>15 DEF ObservationIInv

(* Nothing happens.                                                        *)
LEMMA StutterStep ==
    ASSUME ObservationIInv, UNCHANGED vars
    PROVE  ObservationIInv'
<1>1. /\ file' = file /\ listing' = listing /\ writes' = writes /\ edits' = edits
      /\ ledger' = ledger /\ epoch' = epoch /\ saved' = saved /\ moments' = moments
      /\ op' = op /\ answer' = answer
      /\ ops' = ops /\ effects' = effects /\ kills' = kills
  BY DEF vars, sourceVars, sessionVars, countVars
<1>2. OpHolds'
  BY <1>1 DEF ObservationIInv, OpHolds, OpTyped
<1>3. OpFresh'
  <2>1. World' = World /\ PageLinesRead' = PageLinesRead /\ RestLines' = RestLines
        /\ Reusable' = Reusable /\ Places' = Places
    BY <1>1 DEF World, PageLinesRead, RestLines, Reusable, Places
  <2>2. /\ RevOf(op.cap, World)' = RevOf(op.cap, World)
        /\ Scope(op.cap, op.request, World)' = Scope(op.cap, op.request, World)
    BY <1>1, <2>1 DEF RevOf, Scope
  <2>3. OpFresh
    BY DEF ObservationIInv
  <2> HIDE DEF ObservationIInv
  <2>4. QED
    BY <1>1, <2>1, <2>2, <2>3 DEF OpFresh
<1>4. CursorHolds'
  <2>1. /\ Frontier' = Frontier /\ Continuing' = Continuing /\ World' = World
        /\ PageLinesRead' = PageLinesRead /\ SomethingFresh' = SomethingFresh
    BY <1>1 DEF Frontier, Continuing, World, PageLinesRead, SomethingFresh
  <2>2. Cursor' = Cursor
    BY <1>1, <2>1 DEF Cursor
  <2>3. CursorError' = CursorError /\ Item' = Item
    BY <1>1, <2>1, <2>2 DEF CursorError, Item
  <2>4. QED
    BY <1>1, <2>1, <2>2, <2>3 DEF ObservationIInv, CursorHolds
<1>5. ProofHolds'
  BY <1>1 DEF ObservationIInv, ProofHolds
<1>6. QED
  BY <1>1, <1>2, <1>3, <1>4, <1>5, StepsKeep
     DEF sourceVars, sessionVars, countVars

(* The session begins.                                                     *)
LEMMA InitHolds == ObservationInit => ObservationIInv
<1> SUFFICES ASSUME ObservationInit
             PROVE  ObservationIInv
  OBVIOUS
<1>1. /\ file \in Revisions /\ listing \in Listings /\ writes = 1 /\ edits = 0
      /\ ledger = EmptyLedger /\ epoch = 0 /\ op = NoOp /\ answer = NoAnswer
      /\ saved = NoSession /\ ops = 0 /\ effects = 0 /\ kills = 0
  BY DEF ObservationInit, SourceInit
<1>2. saved.ledger = EmptyLedger /\ saved.epoch = 0
      /\ saved = [ledger |-> saved.ledger, epoch |-> saved.epoch, moments |-> saved.moments]
  BY <1>1 DEF NoSession
<1>3. CountsHold
  BY <1>1, <1>2, SourceAssumption, ObservationAssumption DEF CountsHold, SourceTypeOK
<1>4. /\ LedgerHolds(ledger, epoch) /\ LedgerFresh(ledger, epoch, World, writes)
      /\ LedgerHolds(saved.ledger, saved.epoch)
      /\ LedgerFresh(saved.ledger, saved.epoch, World, writes)
  <2>1. writes \in Nat
    BY <1>1
  <2>2. QED
    BY <1>1, <1>2, <2>1, EmptyHolds
<1>5. OpHolds /\ OpFresh /\ CursorHolds /\ ProofHolds
  BY <1>1, IdleHolds
<1>6. RecallIsProved /\ ReplayIsCurrent
  BY <1>1 DEF NoAnswer, RecallIsProved, ReplayIsCurrent
<1>7. QED
  BY <1>2, <1>3, <1>4, <1>5, <1>6 DEF ObservationIInv

(* What Main may ask for is well formed.                                   *)
LEMMA AskedStep ==
    ASSUME ObservationIInv,
           \/ \E r \in Requests : Ask("read", r)
           \/ \E cap \in {"search", "find", "tree"} : Ask(cap, NoRequest)
           \/ \E i \in FrontierIds(ledger) :
                 Ask("continue", [NoRequest EXCEPT !.span = Span(i, 0)])
    PROVE  ObservationIInv'
<1>1. CASE \E r \in Requests : Ask("read", r)
  <2>1. PICK r \in Requests : Ask("read", r)
    BY <1>1
  <2>2. r \in RequestT /\ "read" \in Caps
    BY ObservationAssumption DEF RequestT, SpanT, Caps, Tools
  <2>3. QED
    BY <2>1, <2>2, AskStep
<1>2. CASE \E cap \in {"search", "find", "tree"} : Ask(cap, NoRequest)
  <2>1. PICK cap \in {"search", "find", "tree"} : Ask(cap, NoRequest)
    BY <1>2
  <2>2. NoRequest \in RequestT /\ cap \in Caps /\ cap # "read"
    BY DEF NoRequest, RequestT, Span, SpanT, Caps, Tools
  <2>3. QED
    BY <2>1, <2>2, AskStep
<1>3. CASE \E i \in FrontierIds(ledger) :
               Ask("continue", [NoRequest EXCEPT !.span = Span(i, 0)])
  <2>1. PICK i \in FrontierIds(ledger) :
               Ask("continue", [NoRequest EXCEPT !.span = Span(i, 0)])
    BY <1>3
  <2>2. i \in Nat
    <3>1. ledger.frontiers \in Seq(FrontierT)
      BY DEF ObservationIInv, LedgerHolds, LedgerT
    <3>2. i \in DOMAIN ledger.frontiers
      BY <2>1 DEF FrontierIds
    <3>3. QED
      BY <3>1, <3>2
  <2>3. [NoRequest EXCEPT !.span = Span(i, 0)] \in RequestT /\ "continue" \in Caps
    BY <2>2 DEF NoRequest, RequestT, Span, SpanT, Caps
  <2>4. QED
    BY <2>1, <2>3, AskStep
<1>4. QED
  BY <1>1, <1>2, <1>3

(* Every step keeps the invariant.                                         *)
LEMMA NextKeeps == ObservationIInv /\ [ObservationNext]_vars => ObservationIInv'
<1> SUFFICES ASSUME ObservationIInv, [ObservationNext]_vars
             PROVE  ObservationIInv'
  OBVIOUS
<1>1. CASE UNCHANGED vars
  BY <1>1, StutterStep
<1>2. CASE Main
  <2>1. CASE \E i \in MaterialIds(ledger) : RecallEvidence(i)
    BY <2>1, RecallStep
  <2>2. CASE \E r \in Revisions : ConfirmTransaction(r)
    BY <2>2, ConfirmStep
  <2>3. QED
    BY <1>2, <2>1, <2>2, AskedStep DEF Main
<1>3. CASE Tool
  <2>1. CASE ReadFile
    BY <2>1, ReadFileStep
  <2>2. CASE SearchCode \/ SearchShow \/ SearchBind
    BY <2>2, SearchCodeStep, SearchShowStep, SearchBindStep
  <2>3. CASE FindSymbol \/ FindShow
    BY <2>3, FindSymbolStep, FindShowStep
  <2>4. CASE ListTree \/ ListTreeEnd
    BY <2>4, ListTreeStep, ListTreeEndStep
  <2>5. CASE ContinueFails \/ ContinueShow
    BY <2>5, ContinueFailsStep, ContinueShowStep
  <2>6. CASE ContinueReadFilePage \/ ContinueSearchCodePage
    BY <2>6, ContinueComparedStep
  <2>7. CASE ContinueListTreePage \/ ContinueFindSymbolPage
    BY <2>7, ContinueKeptStep
  <2>8. QED
    BY <1>3, <2>1, <2>2, <2>3, <2>4, <2>5, <2>6, <2>7 DEF Tool
<1>4. CASE Prove
  BY <1>4, ProveStep
<1>5. CASE Replay
  BY <1>5, ReplayStep
<1>6. CASE Before
  BY <1>6, BeforeStep
<1>7. CASE Record
  BY <1>7, RecordStep
<1>8. CASE Checkpoint
  BY <1>8, CheckpointStep
<1>9. CASE Resume
  BY <1>9, ResumeStep
<1>10. CASE OtherHand
  BY <1>10, OtherHandStep
<1>11. QED
  BY <1>1, <1>2, <1>3, <1>4, <1>5, <1>6, <1>7, <1>8, <1>9, <1>10 DEF ObservationNext

-------------------------------------------------------------------------------
(* The invariant holds, whatever the files hold, however many hands write  *)
(* them and at whatever step of an operation, and wherever the process is  *)
(* killed.                                                                 *)
THEOREM ObservationInvariance == ObservationSpec => []ObservationIInv
<1>1. ObservationIInv /\ [ObservationNext]_vars => ObservationIInv'
  BY NextKeeps
<1>2. QED
  BY <1>1, InitHolds, PTL DEF ObservationSpec

(* The ledger of record, register_material_candidates, the frontiers and   *)
(* the handles is well formed, and nothing a request was about falls out   *)
(* of it while the tree is as it was when the entry was recorded.          *)
THEOREM LedgerTheorem == ObservationSpec => []LedgerIsWhole
<1>1. ObservationIInv => LedgerIsWhole
  <2> SUFFICES ASSUME ObservationIInv
               PROVE  LedgerIsWhole
    OBVIOUS
  <2>1. LedgerHolds(ledger, epoch) /\ LedgerFresh(ledger, epoch, World, writes)
        /\ ledger \in LedgerT
    BY DEF ObservationIInv, LedgerHolds
  <2>2. \A i \in DOMAIN ledger.materials :
            /\ ledger.materials[i].epoch \in 0..epoch
            /\ ledger.materials[i].body \in {NoBody, ledger.materials[i].rev}
    <3>1. ledger.materials \in Seq(MaterialT)
      BY <2>1 DEF LedgerT
    <3>2. \A i \in DOMAIN ledger.materials : ledger.materials[i] \in MaterialT
      BY <3>1
    <3>3. epoch \in Nat
      BY DEF ObservationIInv, CountsHold
    <3>4. QED
      BY <2>1, <3>2, <3>3 DEF LedgerHolds, MaterialT
  <2>3. \A i \in DOMAIN ledger.frontiers :
            ledger.frontiers[i].status \in {"open", "consumed", "stale"}
    <3>1. ledger.frontiers \in Seq(FrontierT)
      BY <2>1 DEF LedgerT
    <3>2. \A i \in DOMAIN ledger.frontiers : ledger.frontiers[i] \in FrontierT
      BY <3>1
    <3>3. QED
      BY <3>2 DEF FrontierT
  <2>4. \A h \in ledger.handles : h.offset < Len(h.snapshot.items)
    BY <2>1 DEF LedgerT, HandleT
  <2>5. SourceTypeOK /\ epoch \in 0..MaxEffects /\ ops \in 0..MaxOps /\ kills \in 0..MaxKills
    BY ObservationAssumption DEF ObservationIInv, CountsHold
  <2>6. ObservationTypeOK
    BY <2>2, <2>3, <2>4, <2>5 DEF ObservationTypeOK, MaterialIds, FrontierIds
  <2>7. NothingIsLost
    <3>1. SUFFICES ASSUME NEW e \in ledger.entries, HasToken(e.cap),
                          e.epoch = epoch, e.token = writes
                   PROVE  Scope(e.cap, e.request, World)
                             \subseteq Told(e.cap, World) \union Ahead(e.cap, World)
      BY DEF NothingIsLost
    <3>2. EntryFresh(ledger, epoch, e, World)
      BY <2>1, <3>1 DEF LedgerFresh
    <3>3. Scope(e.cap, e.request, World) \subseteq Reached(ledger, epoch, e.cap, World)
      BY <3>1, <3>2 DEF EntryFresh
    <3>4. QED
      BY <3>3, ToldAndAhead DEF Reached
  <2>8. QED
    BY <2>6, <2>7 DEF LedgerIsWhole
<1>2. QED
  BY <1>1, ObservationInvariance, PTL

(* "Already observed" is true: at a moment since Main asked, what the      *)
(* replay of previous_observation names was what the files held.           *)
THEOREM ReplayTheorem == ObservationSpec => []ReplayIsCurrent
<1>1. ObservationIInv => ReplayIsCurrent
  BY DEF ObservationIInv
<1>2. QED
  BY <1>1, ObservationInvariance, PTL

-------------------------------------------------------------------------------
(* The moments of the epoch.  A material of the epoch is, for every tool   *)
(* it was read for, what the files held at one of them; so is a snapshot,  *)
(* and no snapshot is of an epoch to come.                                 *)
Held(m, seen) == \A cap \in m.from : \E w \in seen : m.rev = RevOf(cap, w)

Right(m, ep, seen) ==
    /\ m.epoch = ep => Held(m, seen)
    /\ m.cap \in Tools => m.from \subseteq {m.cap}

Taken(s, ep, seen) ==
    /\ s.epoch <= ep
    /\ s.epoch = ep => \E w \in seen : s.rev = RevOf(s.cap, w)

LedgerOf(l, ep, seen) ==
    /\ \A i \in DOMAIN l.materials : Right(l.materials[i], ep, seen)
    /\ \A s \in l.snapshots : Taken(s, ep, seen)

OpOf(seen) ==
    /\ \A m \in op.page : Right(m, epoch, seen)
    /\ \A s \in op.rest : Taken(s, epoch, seen)

RecallOf(seen) ==
    (answer.what = "recall" /\ answer.current) =>
        \A i \in answer.materials : Held(ledger.materials[i], seen)

MomentsIInv ==
    /\ World \in moments
    /\ LedgerOf(ledger, epoch, moments)
    /\ LedgerOf(saved.ledger, saved.epoch, saved.moments)
    /\ OpOf(moments) /\ RecallOf(moments)

(* More moments do no harm.                                                *)
LEMMA MomentsGrow ==
    ASSUME NEW seen, NEW more, seen \subseteq more, NEW l, NEW ep
    PROVE  /\ LedgerOf(l, ep, seen) => LedgerOf(l, ep, more)
           /\ OpOf(seen) => OpOf(more)
           /\ RecallOf(seen) => RecallOf(more)
<1>1. \A m : Held(m, seen) => Held(m, more)
  BY DEF Held
<1>2. \A m, e : Right(m, e, seen) => Right(m, e, more)
  BY <1>1 DEF Right
<1>3. \A s, e : Taken(s, e, seen) => Taken(s, e, more)
  BY DEF Taken
<1>4. QED
  BY <1>1, <1>2, <1>3 DEF LedgerOf, OpOf, RecallOf

(* The same material, read for no more, is as right.                       *)
LEMMA RightIsOfCoordinates ==
    ASSUME NEW m, NEW n, SameMaterial(m, n), n.from = m.from, NEW ep, NEW seen
    PROVE  /\ Right(m, ep, seen) => Right(n, ep, seen)
           /\ Held(m, seen) => Held(n, seen)
BY DEF Right, Held, SameMaterial

(* A record that takes the place of the same, read for both.               *)
LEMMA RightForBoth ==
    ASSUME NEW o, NEW m, NEW n, SameMaterial(o, m), SameMaterial(m, n),
           n.from = m.from \union o.from, NEW ep, NEW seen,
           Right(o, ep, seen), Right(m, ep, seen)
    PROVE  Right(n, ep, seen)
BY DEF Right, Held, SameMaterial

(* A page of right materials can be registered.                            *)
LEMMA RegisterRight ==
    ASSUME NEW l \in LedgerT, NEW found \in SUBSET MaterialT,
           \A m \in found : found = {m}, NEW ep, NEW seen,
           \A m \in found : Right(m, ep, seen), LedgerOf(l, ep, seen)
    PROVE  LedgerOf(RegisterMaterialCandidates(l, found), ep, seen)
<1> DEFINE r == RegisterMaterialCandidates(l, found)
           mats == l.materials
           N == Len(mats)
           ids == IdsOf(l, found)
<1>1. mats \in Seq(MaterialT) /\ N \in Nat /\ DOMAIN mats = 1..N
  BY DEF LedgerT
<1>2. CASE found = {}
  BY <1>2 DEF RegisterMaterialCandidates
<1>3. CASE found # {}
  <2>1. PICK m \in found : m = CHOOSE x \in found : TRUE
    BY <1>3
  <2>2. found = {m} /\ m \in MaterialT /\ Right(m, ep, seen)
    BY <2>1
  <2>3. \A i \in 1..N : Right(mats[i], ep, seen)
    BY <1>1 DEF LedgerOf
  <2>4. CASE ids = {}
    <3> DEFINE new == Append(mats, m)
    <3>1. r = [l EXCEPT !.materials = new]
      BY <2>1, <2>4, <1>3 DEF RegisterMaterialCandidates
    <3>2. /\ DOMAIN new = 1..N + 1 /\ new[N + 1] = m
          /\ \A i \in 1..N : new[i] = mats[i]
      <4>1. new \in Seq(MaterialT) /\ Len(new) = N + 1 /\ new[N + 1] = m
            /\ \A i \in 1..N : new[i] = mats[i]
        BY <2>2, <1>1, AppendProperties
      <4> HIDE DEF new, mats
      <4>2. QED
        BY <4>1
    <3> HIDE DEF new, r
    <3>3. r.materials = new /\ r.snapshots = l.snapshots
      BY <3>1 DEF LedgerT
    <3>4. \A i \in 1..N + 1 : i \in 1..N \/ i = N + 1
      BY <1>1
    <3> HIDE DEF N, mats
    <3>5. \A i \in 1..N + 1 : Right(new[i], ep, seen)
      BY <3>2, <3>4, <2>2, <2>3
    <3>6. QED
      BY <3>2, <3>3, <3>5 DEF LedgerOf, r
  <2>5. CASE ids # {}
    <3>1. PICK old \in ids : old = CHOOSE i \in ids : TRUE
      BY <2>5
    <3>2. old \in 1..N /\ SameMaterial(mats[old], m)
      <4>1. old \in DOMAIN mats /\ \E x \in found : SameMaterial(mats[old], x)
        BY <3>1 DEF IdsOf, MaterialIds
      <4>2. QED
        BY <4>1, <2>2, <1>1
    <3> DEFINE n == [m EXCEPT !.from = m.from \union mats[old].from]
               new == [mats EXCEPT ![old] = n]
    <3>3. r = [l EXCEPT !.materials = new]
      BY <2>1, <2>5, <3>1, <1>3 DEF RegisterMaterialCandidates
    <3>4. n.from = m.from \union mats[old].from /\ SameMaterial(m, n)
      BY <2>2 DEF MaterialT, SameMaterial
    <3> HIDE DEF n
    <3>5. DOMAIN new = 1..N /\ new[old] = n /\ \A i \in 1..N : i # old => new[i] = mats[i]
      BY <3>2, <1>1
    <3> HIDE DEF r, new
    <3>6. r.materials = new /\ r.snapshots = l.snapshots
      BY <3>3 DEF LedgerT
    <3>7. Right(n, ep, seen)
      <4> DEFINE o == mats[old]
      <4>1. SameMaterial(o, m) /\ Right(o, ep, seen) /\ n.from = m.from \union o.from
        BY <3>2, <3>4, <2>3
      <4> HIDE DEF o
      <4>2. QED
        BY <4>1, <3>4, <2>2, RightForBoth
    <3>8. \A i \in 1..N : Right(new[i], ep, seen)
      BY <3>5, <3>7, <2>3
    <3>9. QED
      BY <3>5, <3>6, <3>8 DEF LedgerOf, r
  <2>6. QED
    BY <2>4, <2>5
<1>4. QED
  BY <1>2, <1>3

(* The cursors bring no snapshot but that of the operation.                *)
LEMMA SnapshotsMove ==
    ASSUME LedgerHolds(ledger, epoch), OpHolds, CursorHolds, op.pc = "after"
    PROVE  WithCursors.snapshots \subseteq ledger.snapshots \union op.rest
<1> DEFINE l == WithCursors
           next == HandleAfter(Cursor, 1)
           more == op.cap = "continue" /\ op.result \in {"ok", "revised"}
                   /\ ~Exhausted(Cursor, 1)
           held == IF more THEN RegisterSnapshotHandle(ledger, Cursor.snapshot, next.offset)
                   ELSE ledger
<1>0. ledger \in LedgerT
  BY DEF LedgerHolds
<1>1. ASSUME NEW x \in LedgerT, NEW h
      PROVE  /\ ReleaseSnapshotHandle(x, h).snapshots \subseteq x.snapshots
             /\ \A s, o : RegisterSnapshotHandle(x, s, o).snapshots = x.snapshots \union {s}
  <2>1. \A s, o : RegisterSnapshotHandle(x, s, o).snapshots = x.snapshots \union {s}
    BY DEF RegisterSnapshotHandle, LedgerT
  <2> DEFINE left == x.handles \ {h}
             kept == IF \E g \in left : g.snapshot = h.snapshot
                     THEN x.snapshots ELSE x.snapshots \ {h.snapshot}
             y == ReleaseSnapshotHandle(x, h)
  <2>2. y = IF h \notin x.handles THEN x
            ELSE [x EXCEPT !.handles = left, !.snapshots = kept]
    BY DEF ReleaseSnapshotHandle
  <2>3. kept \subseteq x.snapshots
    OBVIOUS
  <2> HIDE DEF left, kept, y
  <2>4. y.snapshots \subseteq x.snapshots
    BY <2>2, <2>3 DEF LedgerT
  <2>5. QED
    BY <2>1, <2>4 DEF y
<1>2. CASE op.cap # "continue" /\ op.rest # {}
  <2>1. PICK s \in op.rest : s = CHOOSE x \in op.rest : TRUE
    BY <1>2
  <2>2. l = RegisterSnapshotHandle(ledger, s, 0)
    BY <1>2, <2>1 DEF WithCursors
  <2> HIDE DEF l
  <2>3. l.snapshots = ledger.snapshots \union {s}
    BY <2>2, <1>0, <1>1
  <2>4. QED
    BY <2>1, <2>3 DEF l
<1>3. CASE ~Advances /\ ~Stales /\ (op.cap = "continue" \/ op.rest = {})
  BY <1>3 DEF WithCursors, Advances, Stales
<1>4. CASE Advances \/ Stales
  <2>1. CursorError = "none" /\ op.cap = "continue"
    BY <1>4 DEF CursorHolds, Continuing, Advances, Stales
  <2>2. /\ Frontier \in DOMAIN ledger.frontiers /\ Cursor \in HandleT
        /\ Cursor = ledger.frontiers[Frontier].handle
        /\ Cursor.snapshot \in ledger.snapshots /\ Cursor.snapshot \in SnapshotT
    BY <1>0, <2>1, CursorIsGood
  <2>3. /\ held \in LedgerT /\ held.snapshots = ledger.snapshots
        /\ held.frontiers = ledger.frontiers
    <3>1. CASE more
      <4> DEFINE s == Cursor.snapshot
                 o == next.offset
      <4>1. held = RegisterSnapshotHandle(ledger, s, o) /\ s \in ledger.snapshots
        BY <3>1, <2>2
      <4>2. s \in SnapshotT /\ o \in Nat /\ o < Len(s.items)
        <5>1. /\ Cursor.offset \in Nat /\ Len(s.items) \in Nat
              /\ o = Cursor.offset + 1 /\ ~(Cursor.offset + 1 >= Len(s.items))
          BY <3>1, <2>2 DEF HandleT, HandleAfter, Handle, Exhausted, SnapshotT
        <5>2. QED
          BY <5>1, <2>2
      <4> HIDE DEF held, more, next, s, o
      <4>3. \A h \in ledger.handles : h.snapshot \in ledger.snapshots
        BY DEF LedgerHolds
      <4>4. held \in LedgerT /\ held.frontiers = ledger.frontiers
        BY <4>1, <4>2, <4>3, <1>0, RegisterKeeps
      <4>5. held.snapshots = ledger.snapshots \union {s}
        BY <4>1, <1>0, <1>1
      <4>6. QED
        BY <4>1, <4>4, <4>5
    <3>2. CASE ~more
      BY <3>2, <1>0
    <3>3. QED
      BY <3>1, <3>2
  <2> HIDE DEF held, next
  <2>4. ASSUME NEW x \in LedgerT, x.frontiers = ledger.frontiers,
               NEW st \in {"consumed", "stale"}
        PROVE  LET y == ReleaseSnapshotHandle(Marked(x, Frontier, st),
                                              x.frontiers[Frontier].handle)
               IN  y.snapshots \subseteq x.snapshots
    <3> DEFINE y == Marked(x, Frontier, st)
    <3>1. y \in LedgerT /\ y.snapshots = x.snapshots
      BY <2>2, <2>4, MarkKeeps
    <3> HIDE DEF y
    <3>2. QED
      BY <3>1, <1>1 DEF y
  <2>5. CASE Advances
    <3>1. l = ConsumeFrontier(held, Frontier)
      BY <2>5 DEF WithCursors, Advances, held, next
    <3>2. l = ReleaseSnapshotHandle(Marked(held, Frontier, "consumed"),
                                    held.frontiers[Frontier].handle)
      BY <3>1 DEF ConsumeFrontier, Marked
    <3>3. QED
      BY <3>2, <2>3, <2>4
  <2>6. CASE Stales
    <3> DEFINE base == IF more THEN ReleaseSnapshotHandle(held, next) ELSE held
    <3>1. l = StaleFrontier(base, Frontier)
      BY <2>6 DEF WithCursors, Stales, held, next
    <3>2. /\ base \in LedgerT /\ base.frontiers = ledger.frontiers
          /\ base.snapshots \subseteq ledger.snapshots
      <4>1. CASE more
        <5> DEFINE y == ReleaseSnapshotHandle(held, next)
        <5>1. y.snapshots \subseteq held.snapshots
          BY <2>3, <1>1
        <5>2. y \in LedgerT /\ y.frontiers = held.frontiers
          <6> DEFINE left == held.handles \ {next}
                     kept == IF \E g \in left : g.snapshot = next.snapshot
                             THEN held.snapshots ELSE held.snapshots \ {next.snapshot}
          <6>1. y = IF next \notin held.handles THEN held
                    ELSE [held EXCEPT !.handles = left, !.snapshots = kept]
            BY DEF ReleaseSnapshotHandle
          <6>2. left \subseteq held.handles /\ kept \subseteq held.snapshots
            OBVIOUS
          <6> HIDE DEF y, left, kept
          <6>3. QED
            BY <6>1, <6>2, <2>3 DEF LedgerT
        <5> HIDE DEF y
        <5>3. base = y
          BY <4>1 DEF y
        <5>4. QED
          BY <5>1, <5>2, <5>3, <2>3
      <4>2. CASE ~more
        BY <4>2, <2>3
      <4>3. QED
        BY <4>1, <4>2
    <3> HIDE DEF base, l
    <3>3. l = ReleaseSnapshotHandle(Marked(base, Frontier, "stale"),
                                    base.frontiers[Frontier].handle)
      BY <3>1 DEF StaleFrontier, Marked
    <3>4. l.snapshots \subseteq base.snapshots
      BY <3>2, <3>3, <2>4
    <3>5. QED
      BY <3>2, <3>4 DEF l
  <2>7. QED
    BY <2>5, <2>6, <1>4
<1>5. QED
  BY <1>2, <1>3, <1>4 DEF Advances, Stales

(* The end of an operation.                                                *)
LEMMA RecordedOf ==
    ASSUME ObservationIInv, op.pc = "after", NEW seen,
           LedgerOf(ledger, epoch, seen), OpOf(seen)
    PROVE  LedgerOf(Recorded, epoch, seen)
<1>0. /\ CountsHold /\ LedgerHolds(ledger, epoch) /\ OpHolds /\ CursorHolds
  BY DEF ObservationIInv
<1> DEFINE l == WithCursors
<1>1. l \in LedgerT /\ l.materials = ledger.materials
  BY <1>0, CursorsMove DEF CursorsMoved
<1>2. l.snapshots \subseteq ledger.snapshots \union op.rest
  BY <1>0, SnapshotsMove
<1>3. Read = RegisterMaterialCandidates(l, Page)
  BY DEF Read
<1> HIDE DEF l
<1>4. LedgerOf(l, epoch, seen)
  BY <1>1, <1>2 DEF LedgerOf, OpOf
<1>5. /\ Page \in SUBSET MaterialT /\ \A m \in Page : Page = {m}
      /\ \A n \in Page : \E m \in op.page : SameMaterial(m, n) /\ n.from = m.from
  BY <1>0, PageIsTyped
<1>6. \A n \in Page : Right(n, epoch, seen)
  BY <1>5, RightIsOfCoordinates DEF OpOf
<1>7. LedgerOf(Read, epoch, seen)
  BY <1>1, <1>3, <1>4, <1>5, <1>6, RegisterRight
<1>8. /\ Shown \in LedgerT
      /\ Shown.materials = Read.materials /\ Shown.snapshots = Read.snapshots
  BY <1>0, FrontiersAfter
<1>9. LedgerOf(Shown, epoch, seen)
  BY <1>7, <1>8 DEF LedgerOf
<1>10. CASE ~Reusable
  BY <1>9, <1>10, RecordedIs
<1>11. CASE Reusable
  <2> DEFINE r == Recorded
             s == Shown
             entries == (s.entries \ Lookup(s, op.cap, op.request, epoch)) \union {Entry}
  <2>1. r = [s EXCEPT !.entries = entries]
    BY <1>11, RecordedIs DEF RecordEntry, Entry
  <2> HIDE DEF r, s, entries
  <2>2. r.materials = s.materials /\ r.snapshots = s.snapshots
    BY <2>1, <1>8 DEF LedgerT, s
  <2>3. QED
    BY <2>2, <1>9 DEF LedgerOf, r, s
<1>12. QED
  BY <1>10, <1>11

(* What a tool reads now is right.                                         *)
LEMMA NowIsRight ==
    ASSUME World \in moments, epoch \in Nat, NEW cap,
           op.cap = cap \/ op.cap = "continue"
    PROVE  /\ \A of, span : Right(Material(of, cap, span, RevOf(cap, World)), epoch, moments)
           /\ cap # "tree" =>
                \A span : \A m \in LerFaixa(cap, span) : Right(m, epoch, moments)
           /\ \A items : Taken(Snapshot(cap, items, RevOf(cap, World)), epoch, moments)
<1>1. ASSUME NEW of, NEW span
      PROVE  Right(Material(of, cap, span, RevOf(cap, World)), epoch, moments)
  <2> DEFINE m == Material(of, cap, span, RevOf(cap, World))
  <2>1. m.cap = op.cap /\ m.from = {cap} /\ m.rev = RevOf(cap, World)
    BY DEF Material
  <2> HIDE DEF m
  <2>2. Held(m, moments)
    BY <2>1 DEF Held
  <2>3. m.cap \in Tools => m.from \subseteq {m.cap}
    BY <2>1 DEF Tools
  <2>4. QED
    BY <2>2, <2>3 DEF Right, m
<1>2. ASSUME cap # "tree", NEW span, NEW m \in LerFaixa(cap, span)
      PROVE  Right(m, epoch, moments)
  <2>1. RevOf(cap, World) = file
    BY <1>2 DEF RevOf, World
  <2> DEFINE cut == Span(span.first, Min({span.last, Lines[file]}))
  <2>2. m = Material("file", cap, cut, file)
    BY <1>2 DEF LerFaixa
  <2> HIDE DEF cut
  <2>3. QED
    BY <1>1, <2>1, <2>2
<1>3. ASSUME NEW items
      PROVE  Taken(Snapshot(cap, items, RevOf(cap, World)), epoch, moments)
  <2> DEFINE s == Snapshot(cap, items, RevOf(cap, World))
  <2>1. s.cap = cap /\ s.rev = RevOf(cap, World) /\ s.epoch = epoch
    BY DEF Snapshot
  <2> HIDE DEF s
  <2>2. QED
    BY <2>1 DEF Taken, s
<1>4. QED
  BY <1>1, <1>2, <1>3

(* A step of a tool reads the files as they are, or what a snapshot of the *)
(* epoch holds.                                                            *)
LEMMA ToolReadsNow ==
    ASSUME ObservationIInv, MomentsIInv, Tool
    PROVE  /\ \A m \in op'.page : Right(m, epoch, moments)
           /\ \A s \in op'.rest : Taken(s, epoch, moments)
<1>0. /\ OpTyped /\ OpHolds /\ CursorHolds /\ epoch \in Nat /\ World \in moments
      /\ ledger \in LedgerT /\ LedgerOf(ledger, epoch, moments) /\ OpOf(moments)
  BY DEF ObservationIInv, MomentsIInv, CountsHold, OpHolds, LedgerHolds
<1> DEFINE Good == /\ \A m \in op'.page : Right(m, epoch, moments)
                   /\ \A s \in op'.rest : Taken(s, epoch, moments)
<1>1. op'.page = op.page /\ op'.rest = op.rest => Good
  BY <1>0 DEF OpOf
<1>2. /\ \A c, w : c # "tree" => RevOf(c, w) = w.file
      /\ \A w : RevOf("tree", w) = w.listing
      /\ World.file = file /\ World.listing = listing
  BY DEF RevOf, World
<1>3. ASSUME NEW cap, cap # "tree", op.cap = cap \/ op.cap = "continue"
      PROVE  /\ \A of, span : Right(Material(of, cap, span, file), epoch, moments)
             /\ \A span : \A m \in LerFaixa(cap, span) : Right(m, epoch, moments)
             /\ \A items : Taken(Snapshot(cap, items, file), epoch, moments)
  <2>1. RevOf(cap, World) = file
    BY <1>2, <1>3
  <2>2. QED
    BY <1>0, <1>3, <2>1, NowIsRight
<1>4. ASSUME op.cap = "tree"
      PROVE  /\ \A of, span : Right(Material(of, "tree", span, listing), epoch, moments)
             /\ \A items : Taken(Snapshot("tree", items, listing), epoch, moments)
  <2>1. RevOf("tree", World) = listing
    BY <1>2
  <2>2. QED
    BY <1>0, <1>4, <2>1, NowIsRight
<1>5. CASE ReadFile
  <2>1. op.cap = "read"
    BY <1>5 DEF ReadFile, Looks
  <2>2. \/ op'.page = op.page /\ op'.rest = op.rest
        \/ \E span, items :
              /\ op'.page = LerFaixa("read", span)
              /\ op'.rest = {} \/ op'.rest = {Snapshot("read", items, file)}
    <3> DEFINE request == op.request.span
               end == IF request.last = 0 THEN Lines[file]
                      ELSE Min({request.last, Lines[file]})
               shown == Span(request.first, Min({request.first + PageLines - 1, end}))
               pages == PagesAfter(shown.last, end)
               rest == IF pages = <<>> THEN {} ELSE {Snapshot("read", pages, file)}
               page == LerFaixa("read", shown)
    <3>1. \/ op' = [op EXCEPT !.pc = "after", !.result = "refused"]
          \/ op' = [op EXCEPT !.pc = "after", !.result = "failed"]
          \/ op' = [op EXCEPT !.pc = "after", !.result = "ok", !.page = page,
                              !.examined = shown, !.rest = rest]
      BY <1>5 DEF ReadFile, Steps
    <3>2. rest = {} \/ rest = {Snapshot("read", pages, file)}
      OBVIOUS
    <3>3. page = LerFaixa("read", shown)
      OBVIOUS
    <3> HIDE DEF page, rest, shown, pages
    <3>4. \/ op'.page = op.page /\ op'.rest = op.rest
          \/ op'.page = page /\ op'.rest = rest
      BY <3>1, <1>0 DEF OpTyped
    <3>5. QED
      BY <3>2, <3>3, <3>4
  <2>3. QED
    BY <1>1, <1>3, <2>1, <2>2
<1>6. CASE SearchCode
  <2>1. op.cap = "search"
    BY <1>6 DEF SearchCode, Looks
  <2>2. /\ op'.rest = op.rest
        /\ \/ op'.page = op.page
           \/ op'.page = {Material("facts", "search", Span(0, 0), file)}
    BY <1>6, <1>0 DEF SearchCode, Steps, OpTyped
  <2>3. QED
    BY <1>0, <1>1, <1>3, <2>1, <2>2 DEF OpOf
<1>7. CASE SearchShow
  <2>1. op.cap = "search"
    BY <1>7 DEF SearchShow, Looks
  <2>2. op'.rest = op.rest /\ op'.page = LerFaixa("search", Head(op.found))
    BY <1>7, <1>0 DEF SearchShow, Steps, OpTyped
  <2>3. QED
    BY <1>0, <1>3, <2>1, <2>2 DEF OpOf
<1>8. CASE SearchBind
  <2>1. op.cap = "search"
    BY <1>8 DEF SearchBind, Looks
  <2>2. op'.page = op.page /\ op'.rest = {Snapshot("search", Tail(op.found), file)}
    BY <1>8, <1>0 DEF SearchBind, Steps, OpTyped
  <2>3. QED
    BY <1>0, <1>3, <2>1, <2>2 DEF OpOf
<1>9. CASE FindSymbol
  <2>1. op.cap = "find"
    BY <1>9 DEF FindSymbol, Looks
  <2>2. \/ op'.page = op.page /\ op'.rest = op.rest
        \/ /\ \E span : op'.page = {Material("facts", "find", span, file)}
           /\ op'.rest = {} \/ op'.rest = {Snapshot("find", Tail(Places), file)}
    <3> DEFINE span == IF Places = <<>> THEN Span(0, 0) ELSE Head(Places)
               page == {Material("facts", "find", span, file)}
               rest == IF Places = <<>> THEN {} ELSE {Snapshot("find", Tail(Places), file)}
               result == IF Places = <<>> THEN "failed" ELSE "ok"
    <3>1. \/ op' = [op EXCEPT !.pc = "show", !.found = Places]
          \/ op' = [op EXCEPT !.pc = "after", !.result = result, !.page = page,
                              !.rest = rest]
      BY <1>9 DEF FindSymbol, Steps
    <3>2. rest = {} \/ rest = {Snapshot("find", Tail(Places), file)}
      OBVIOUS
    <3>3. \E sp : page = {Material("facts", "find", sp, file)}
      OBVIOUS
    <3> HIDE DEF page, rest, result
    <3>4. \/ op'.page = op.page /\ op'.rest = op.rest
          \/ op'.page = page /\ op'.rest = rest
      BY <3>1, <1>0 DEF OpTyped
    <3>5. QED
      BY <3>2, <3>3, <3>4
  <2>3. QED
    BY <1>1, <1>3, <2>1, <2>2
<1>10. CASE FindShow
  <2>1. op.cap = "find"
    BY <1>10 DEF FindShow, Looks
  <2>2. /\ op'.rest = op.rest
        /\ \/ op'.page = LerFaixa("find", Head(op.found))
           \/ op'.page = {Material("facts", "find", Head(op.found), file)}
    BY <1>10, <1>0 DEF FindShow, Steps, OpTyped
  <2>3. QED
    BY <1>0, <1>3, <2>1, <2>2 DEF OpOf
<1>11. CASE ListTree
  <2>1. op.cap = "tree"
    BY <1>11 DEF ListTree, Looks
  <2>2. op'.rest = op.rest /\ op'.page = {Material("facts", "tree", Span(1, 1), listing)}
    BY <1>11, <1>0 DEF ListTree, Steps, OpTyped
  <2>3. QED
    BY <1>0, <1>4, <2>1, <2>2 DEF OpOf
<1>12. CASE ListTreeEnd
  <2>1. op.cap = "tree"
    BY <1>12 DEF ListTreeEnd, Looks
  <2>2. /\ op'.page = op.page
        /\ op'.rest = {Snapshot("tree", <<Span(2, 2)>>, listing)}
    BY <1>12, <1>0 DEF ListTreeEnd, Steps, OpTyped
  <2>3. QED
    BY <1>0, <1>4, <2>1, <2>2 DEF OpOf
<1>13. CASE ContinueFails
  <2>1. op'.page = op.page /\ op'.rest = op.rest
    BY <1>13, <1>0 DEF ContinueFails, Steps, OpTyped
  <2>2. QED
    BY <1>1, <2>1
<1>14. CASE ContinueReadFilePage \/ ContinueSearchCodePage
  <2>1. op'.page = op.page /\ op'.rest = op.rest
    BY <1>14, <1>0 DEF ContinueReadFilePage, ContinueSearchCodePage, Compared, Steps, OpTyped
  <2>2. QED
    BY <1>1, <2>1
<1>15. CASE ContinueListTreePage \/ ContinueFindSymbolPage
  <2> DEFINE s == Cursor.snapshot
             m == Material("facts", s.cap, Item, s.rev)
  <2>1. op.cap = "continue" /\ CursorError = "none"
    BY <1>15 DEF ContinueListTreePage, ContinueFindSymbolPage, Continues, Looks
  <2>2. s \in ledger.snapshots /\ s.epoch = epoch
    BY <1>0, <2>1, CursorIsGood
  <2>3. op'.rest = op.rest /\ op'.page = {m}
    BY <1>15, <1>0 DEF ContinueListTreePage, ContinueFindSymbolPage, Kept, Steps, OpTyped
  <2>4. m.cap = op.cap /\ m.from = {s.cap} /\ m.rev = s.rev
    BY DEF Material
  <2> HIDE DEF s, m
  <2>5. \E w \in moments : s.rev = RevOf(s.cap, w)
    BY <1>0, <2>2 DEF LedgerOf, Taken
  <2>6. Right(m, epoch, moments)
    BY <2>1, <2>4, <2>5 DEF Right, Held, Tools
  <2>7. QED
    BY <1>0, <2>3, <2>6 DEF OpOf
<1>16. CASE ContinueShow
  <2>1. op.cap = "continue" /\ op.pc = "show"
    BY <1>16 DEF ContinueShow, Looks
  <2>2. Cursor.snapshot.cap \in {"read", "search"}
    BY <1>0, <2>1 DEF CursorHolds, Continuing
  <2> DEFINE cap == Cursor.snapshot.cap
  <2>3. op'.rest = op.rest /\ op'.page = LerFaixa(cap, Item)
    BY <1>16, <1>0 DEF ContinueShow, Steps, OpTyped
  <2>4. cap # "tree"
    BY <2>2
  <2> HIDE DEF cap
  <2>5. QED
    BY <1>0, <1>3, <2>1, <2>3, <2>4 DEF OpOf
<1>17. QED
  BY <1>5, <1>6, <1>7, <1>8, <1>9, <1>10, <1>11, <1>12, <1>13, <1>14, <1>15, <1>16 DEF Tool

(* Texts that go and come back leave a ledger as right as it was.          *)
LEMMA TextsAreNoMatter ==
    ASSUME NEW l \in LedgerT, NEW ep, NEW seen, LedgerOf(l, ep, seen)
    PROVE  /\ LedgerOf(PersistedView(l), ep, seen)
           /\ LedgerOf([l EXCEPT !.materials = [i \in DOMAIN @ |-> Rehydrated(@[i])]],
                       ep, seen)
<1> DEFINE mats == l.materials
<1>1. \A i \in DOMAIN mats : mats[i] \in MaterialT
  <2>1. mats \in Seq(MaterialT)
    BY DEF LedgerT
  <2> HIDE DEF mats
  <2>2. QED
    BY <2>1
<1>2. ASSUME NEW new, DOMAIN new = DOMAIN mats,
             \A i \in DOMAIN mats : SameMaterial(mats[i], new[i]) /\ new[i].from = mats[i].from
      PROVE  LedgerOf([l EXCEPT !.materials = new], ep, seen)
  <2> DEFINE r == [l EXCEPT !.materials = new]
  <2>1. r.materials = new /\ r.snapshots = l.snapshots
    BY DEF LedgerT
  <2> HIDE DEF r, mats
  <2>2. \A i \in DOMAIN new : Right(mats[i], ep, seen) => Right(new[i], ep, seen)
    BY <1>2, RightIsOfCoordinates
  <2>3. \A i \in DOMAIN mats : Right(mats[i], ep, seen)
    BY DEF LedgerOf, mats
  <2>4. QED
    BY <1>2, <2>1, <2>2, <2>3 DEF LedgerOf, r
<1>3. LedgerOf(PersistedView(l), ep, seen)
  <2> DEFINE bare == [i \in DOMAIN mats |-> [mats[i] EXCEPT !.body = NoBody]]
  <2>1. PersistedView(l) = [l EXCEPT !.materials = bare] /\ DOMAIN bare = DOMAIN mats
    BY DEF PersistedView
  <2>2. \A i \in DOMAIN mats : SameMaterial(mats[i], bare[i]) /\ bare[i].from = mats[i].from
    <3> HIDE DEF mats
    <3>1. QED
      BY <1>1 DEF MaterialT, SameMaterial
  <2> HIDE DEF bare, mats
  <2>3. QED
    BY <1>2, <2>1, <2>2
<1>4. LedgerOf([l EXCEPT !.materials = [i \in DOMAIN @ |-> Rehydrated(@[i])]], ep, seen)
  <2> DEFINE texts == [i \in DOMAIN mats |-> Rehydrated(mats[i])]
  <2>1. /\ [l EXCEPT !.materials = [i \in DOMAIN @ |-> Rehydrated(@[i])]]
              = [l EXCEPT !.materials = texts]
        /\ DOMAIN texts = DOMAIN mats
    OBVIOUS
  <2>2. \A m \in MaterialT : SameMaterial(m, Rehydrated(m)) /\ Rehydrated(m).from = m.from
    BY DEF MaterialT, SameMaterial, Rehydrated
  <2>3. \A i \in DOMAIN mats : SameMaterial(mats[i], texts[i]) /\ texts[i].from = mats[i].from
    <3> HIDE DEF mats
    <3>1. QED
      BY <1>1, <2>2
  <2> HIDE DEF texts, mats
  <2>4. QED
    BY <1>2, <2>1, <2>3
<1>5. QED
  BY <1>3, <1>4

(* A transaction: nothing of the epoch before is of the new one.           *)
LEMMA NewEpochIsEmpty ==
    ASSUME NEW l, NEW ep \in Nat, NEW seen, NEW now, LedgerHolds(l, ep),
           LedgerOf(l, ep, seen)
    PROVE  LedgerOf(l, ep + 1, now)
<1>1. ASSUME NEW i \in DOMAIN l.materials
      PROVE  Right(l.materials[i], ep + 1, now)
  <2> DEFINE m == l.materials[i]
  <2>1. m.epoch \in Nat /\ m.epoch <= ep
    <3>1. l.materials \in Seq(MaterialT)
      BY DEF LedgerHolds, LedgerT
    <3>2. m \in MaterialT
      BY <3>1
    <3>3. QED
      BY <3>2 DEF MaterialT, LedgerHolds
  <2>2. m.cap \in Tools => m.from \subseteq {m.cap}
    BY DEF LedgerOf, Right
  <2> HIDE DEF m
  <2>3. m.epoch # ep + 1
    BY <2>1
  <2>4. QED
    BY <2>2, <2>3 DEF Right, m
<1>2. ASSUME NEW s \in l.snapshots
      PROVE  Taken(s, ep + 1, now)
  <2>1. s.epoch \in Nat
    BY DEF LedgerHolds, LedgerT, SnapshotT
  <2>2. s.epoch <= ep
    BY DEF LedgerOf, Taken
  <2>3. QED
    BY <2>1, <2>2 DEF Taken
<1>3. QED
  BY <1>1, <1>2 DEF LedgerOf

LEMMA ConfirmIsRight ==
    ASSUME ObservationIInv, MomentsIInv, NEW revision \in Revisions,
           ConfirmTransaction(revision)
    PROVE  MomentsIInv'
<1> DEFINE m == Written(revision)
           found == {m}
           seen == {World'}
<1>0. /\ LedgerHolds(ledger, epoch) /\ LedgerOf(ledger, epoch, moments)
      /\ LedgerOf(saved.ledger, saved.epoch, saved.moments) /\ epoch \in Nat
      /\ ledger \in LedgerT /\ OpHolds
  BY DEF ObservationIInv, MomentsIInv, CountsHold, LedgerHolds
<1>1. /\ op.pc = "idle" /\ op' = op /\ saved' = saved /\ epoch' = epoch + 1
      /\ moments' = seen /\ file' = revision /\ answer' = NoAnswer
      /\ ledger' = RegisterMaterialCandidates(ledger, found)
  BY DEF ConfirmTransaction, Rewrite
<1>2. m \in MaterialT /\ m.cap = "write" /\ m.from = {"write"} /\ m.rev = revision
  <2>1. Lines[revision] \in Nat /\ revision \in Rev /\ epoch + 1 \in Nat
    BY <1>0, SourceAssumption DEF Rev
  <2>2. QED
    BY <2>1 DEF Written, MaterialT, Span, SpanT, Caps, Bodies, NoToken
<1>3. World' \in seen /\ RevOf("write", World') = revision
  BY <1>1 DEF World, RevOf
<1> HIDE DEF m, seen
<1>4. Right(m, epoch + 1, seen)
  BY <1>2, <1>3 DEF Right, Held, Tools
<1>5. found \in SUBSET MaterialT /\ \A x \in found : found = {x} /\ Right(x, epoch + 1, seen)
  BY <1>2, <1>4
<1> HIDE DEF found
<1>6. LedgerOf(ledger, epoch + 1, seen)
  BY <1>0, NewEpochIsEmpty
<1>7. LedgerOf(RegisterMaterialCandidates(ledger, found), epoch + 1, seen)
  BY <1>0, <1>5, <1>6, RegisterRight
<1>8. op'.page = {} /\ op'.rest = {}
  BY <1>0, <1>1 DEF OpHolds
<1>9. OpOf(moments)'
  BY <1>8 DEF OpOf
<1>10. RecallOf(moments)'
  BY <1>1 DEF RecallOf, NoAnswer
<1>11. LedgerOf(ledger, epoch, moments)' /\ LedgerOf(saved.ledger, saved.epoch, saved.moments)'
  BY <1>0, <1>1, <1>7
<1>12. QED
  BY <1>1, <1>3, <1>9, <1>10, <1>11 DEF MomentsIInv

(* Recalled as valid now: of the epoch, or proved and read for one tool.   *)
LEMMA RecallIsRight ==
    ASSUME ObservationIInv, MomentsIInv, NEW n, RecallEvidence(n)
    PROVE  RecallOf(moments)'
<1> DEFINE m == ledger.materials[n]
<1>1. /\ n \in DOMAIN ledger.materials /\ ledger' = ledger /\ moments' = moments
      /\ answer'.materials = {n}
      /\ answer'.current => \/ Proof(m) \in {"exact_current", "token_current"}
                            \/ Proof(m) # "stale" /\ m.epoch = epoch
  BY DEF RecallEvidence, NoAnswer, sessionVars, MaterialIds
<1>2. Right(m, epoch, moments) /\ World \in moments
  BY <1>1 DEF MomentsIInv, LedgerOf
<1>3. m.token = writes /\ HasToken(m.cap) => m.rev = RevOf(m.cap, World)
  BY <1>1 DEF ObservationIInv, LedgerFresh
<1> HIDE DEF m
<1>4. CASE Proof(m) \in {"exact_current", "token_current"}
  <2>1. HasToken(m.cap) /\ m.rev = RevOf(m.cap, World)
    BY <1>3, <1>4 DEF Proof, HasFreshness, HasToken, RevOf, World
  <2>2. m.from \subseteq {m.cap}
    BY <1>2, <2>1 DEF Right, HasToken, Tools
  <2>3. Held(m, moments)
    BY <1>2, <2>1, <2>2 DEF Held
  <2>4. QED
    BY <1>1, <2>3 DEF RecallOf, m
<1>5. CASE m.epoch = epoch
  <2>1. Held(m, moments)
    BY <1>2, <1>5 DEF Right
  <2>2. QED
    BY <1>1, <2>1 DEF RecallOf, m
<1>6. CASE ~answer'.current
  BY <1>6 DEF RecallOf
<1>7. QED
  BY <1>1, <1>4, <1>5, <1>6

(* Every step keeps it.                                                    *)
LEMMA MomentsStep ==
    ASSUME ObservationIInv, MomentsIInv, [ObservationNext]_vars
    PROVE  MomentsIInv'
<1>0. /\ World \in moments /\ LedgerOf(ledger, epoch, moments)
      /\ LedgerOf(saved.ledger, saved.epoch, saved.moments)
      /\ OpOf(moments) /\ RecallOf(moments) /\ OpHolds /\ OpTyped
      /\ ledger \in LedgerT /\ saved.ledger \in LedgerT
  BY DEF ObservationIInv, MomentsIInv, OpHolds, LedgerHolds
<1>1. ASSUME file' = file, listing' = listing, moments' = moments
      PROVE  (World \in moments)'
  BY <1>0, <1>1 DEF World
<1>2. ASSUME ledger' = ledger, epoch' = epoch, saved' = saved, moments' = moments,
             file' = file, listing' = listing, OpOf(moments)', RecallOf(moments)'
      PROVE  MomentsIInv'
  BY <1>0, <1>1, <1>2 DEF MomentsIInv
<1>3. ASSUME answer'.what # "recall" PROVE RecallOf(moments)'
  BY <1>3 DEF RecallOf
<1>4. ASSUME op'.page = {}, op'.rest = {} PROVE OpOf(moments)'
  BY <1>4 DEF OpOf
<1>5. ASSUME op'.page = op.page, op'.rest = op.rest, epoch' = epoch, moments' = moments
      PROVE  OpOf(moments)'
  BY <1>0, <1>5 DEF OpOf
<1>6. NoOp.page = {} /\ NoOp.rest = {} /\ NoAnswer.what # "recall"
  BY DEF NoOp, NoAnswer
<1>7. CASE UNCHANGED vars
  <2>1. /\ ledger' = ledger /\ epoch' = epoch /\ saved' = saved /\ moments' = moments
        /\ file' = file /\ listing' = listing /\ op' = op /\ answer' = answer
    BY <1>7 DEF vars, sessionVars, sourceVars
  <2>2. RecallOf(moments)'
    BY <1>0, <2>1 DEF RecallOf
  <2>3. QED
    BY <1>2, <1>5, <2>1, <2>2
<1>8. ASSUME NEW cap, NEW request, Ask(cap, request)
      PROVE  MomentsIInv'
  <2>1. /\ ledger' = ledger /\ epoch' = epoch /\ saved' = saved /\ moments' = moments
        /\ file' = file /\ listing' = listing /\ answer' = NoAnswer
    BY <1>8 DEF Ask, sessionVars, sourceVars
  <2>2. op'.page = {} /\ op'.rest = {}
    BY <1>8 DEF Ask, NoOp
  <2>3. QED
    BY <1>2, <1>3, <1>4, <1>6, <2>1, <2>2
<1>9. ASSUME NEW n, RecallEvidence(n)
      PROVE  MomentsIInv'
  <2>1. /\ ledger' = ledger /\ epoch' = epoch /\ saved' = saved /\ moments' = moments
        /\ file' = file /\ listing' = listing /\ op' = op
    BY <1>9 DEF RecallEvidence, sessionVars, sourceVars
  <2>2. QED
    BY <1>2, <1>5, <1>9, <2>1, RecallIsRight
<1>10. CASE Main
  BY <1>8, <1>9, <1>10, ConfirmIsRight DEF Main
<1>11. CASE Tool
  <2>1. /\ ledger' = ledger /\ epoch' = epoch /\ saved' = saved /\ moments' = moments
        /\ file' = file /\ listing' = listing /\ answer' = answer /\ op.pc # "idle"
    BY <1>11 DEF Tool, ReadFile, SearchCode, SearchShow, SearchBind, FindSymbol, FindShow,
                 ListTree, ListTreeEnd, ContinueFails, ContinueShow, ContinueReadFilePage,
                 ContinueSearchCodePage, ContinueListTreePage, ContinueFindSymbolPage,
                 Continues, Looks, Steps, sessionVars, sourceVars
  <2>2. OpOf(moments)'
    BY <1>11, <2>1, ToolReadsNow DEF OpOf
  <2>3. answer'.what # "recall"
    BY <1>0, <2>1 DEF OpHolds
  <2>4. QED
    BY <1>2, <1>3, <2>1, <2>2, <2>3
<1>12. CASE Prove \/ Before
  <2>1. /\ ledger' = ledger /\ epoch' = epoch /\ saved' = saved /\ moments' = moments
        /\ file' = file /\ listing' = listing /\ answer' = answer /\ op.pc # "idle"
    BY <1>12 DEF Prove, Before, sessionVars, sourceVars
  <2>2. op'.page = op.page /\ op'.rest = op.rest
    BY <1>0, <1>12 DEF Prove, Before, OpTyped
  <2>3. answer'.what # "recall"
    BY <1>0, <2>1 DEF OpHolds
  <2>4. QED
    BY <1>2, <1>3, <1>5, <2>1, <2>2, <2>3
<1>13. CASE Replay
  <2>1. /\ ledger' = ledger /\ epoch' = epoch /\ saved' = saved /\ moments' = moments
        /\ file' = file /\ listing' = listing /\ op' = NoOp /\ answer'.what = "replay"
    BY <1>13 DEF Replay, NoAnswer, sessionVars, sourceVars
  <2>2. QED
    BY <1>2, <1>3, <1>4, <1>6, <2>1
<1>14. CASE Record
  <2>1. /\ op.pc = "after" /\ ledger' = Recorded /\ saved' = saved /\ op' = NoOp
        /\ epoch' = epoch /\ moments' = moments /\ answer' = answer
        /\ file' = file /\ listing' = listing
    BY <1>14 DEF Record, sourceVars
  <2>2. LedgerOf(Recorded, epoch, moments)
    BY <1>0, <2>1, RecordedOf
  <2>3. answer'.what # "recall"
    BY <1>0, <2>1 DEF OpHolds
  <2>4. LedgerOf(ledger, epoch, moments)' /\ LedgerOf(saved.ledger, saved.epoch, saved.moments)'
    BY <1>0, <2>1, <2>2
  <2>5. OpOf(moments)' /\ RecallOf(moments)' /\ (World \in moments)'
    BY <1>1, <1>3, <1>4, <1>6, <2>1, <2>3
  <2>6. QED
    BY <2>4, <2>5 DEF MomentsIInv
<1>15. CASE Checkpoint
  <2> DEFINE view == PersistedView(ledger)
  <2>1. /\ op' = op /\ ledger' = ledger /\ epoch' = epoch /\ moments' = moments
        /\ saved' = [ledger |-> view, epoch |-> epoch, moments |-> moments]
        /\ file' = file /\ listing' = listing /\ answer' = NoAnswer
    BY <1>15 DEF Checkpoint, sourceVars
  <2>2. LedgerOf(view, epoch, moments)
    BY <1>0, TextsAreNoMatter
  <2> HIDE DEF view
  <2>3. saved'.ledger = view /\ saved'.epoch = epoch /\ saved'.moments = moments
    BY <2>1
  <2>4. LedgerOf(ledger, epoch, moments)' /\ LedgerOf(saved.ledger, saved.epoch, saved.moments)'
    BY <1>0, <2>1, <2>2, <2>3
  <2>5. OpOf(moments)' /\ RecallOf(moments)' /\ (World \in moments)'
    BY <1>1, <1>3, <1>5, <1>6, <2>1
  <2>6. QED
    BY <2>4, <2>5 DEF MomentsIInv
<1>16. CASE Resume
  <2> DEFINE full == [saved.ledger EXCEPT !.materials =
                        [i \in DOMAIN @ |-> Rehydrated(@[i])]]
             more == saved.moments \union {World}
  <2>1. /\ op' = NoOp /\ ledger' = full /\ epoch' = saved.epoch /\ moments' = more
        /\ file' = file /\ listing' = listing /\ answer' = NoAnswer
        /\ saved' = saved \/ saved' = NoSession
    BY <1>16 DEF Resume, sourceVars
  <2>2. LedgerOf(full, saved.epoch, saved.moments)
    BY <1>0, TextsAreNoMatter
  <2>3. saved.moments \subseteq more /\ World \in more /\ World' = World
    BY <2>1 DEF World
  <2> HIDE DEF full, more
  <2>4. LedgerOf(full, saved.epoch, more)
    BY <2>2, <2>3, MomentsGrow
  <2>5. LedgerOf(saved.ledger, saved.epoch, saved.moments)'
    <3>1. CASE saved' = saved
      BY <3>1, <1>0
    <3>2. CASE saved' = NoSession
      <4>1. saved'.ledger.materials = <<>> /\ saved'.ledger.snapshots = {}
        BY <3>2 DEF NoSession, EmptyLedger
      <4>2. DOMAIN saved'.ledger.materials = {}
        BY <4>1
      <4>3. QED
        BY <4>1, <4>2 DEF LedgerOf
    <3>3. QED
      BY <3>1, <3>2, <2>1
  <2>6. OpOf(moments)' /\ RecallOf(moments)' /\ (World \in moments)'
    BY <1>3, <1>4, <1>6, <2>1, <2>3
  <2>7. LedgerOf(ledger, epoch, moments)'
    BY <2>1, <2>4
  <2>8. QED
    BY <2>5, <2>6, <2>7 DEF MomentsIInv
<1>17. CASE OtherHand
  <2> DEFINE more == moments \union {World'}
  <2>1. /\ ledger' = ledger /\ epoch' = epoch /\ saved' = saved
        /\ moments' = more /\ answer' = NoAnswer
    BY <1>17 DEF OtherHand
  <2>2. op'.page = op.page /\ op'.rest = op.rest
    BY <1>0, <1>17 DEF OtherHand, SeenToo, OpTyped
  <2>3. moments \subseteq more /\ World' \in more
    OBVIOUS
  <2> HIDE DEF more
  <2>4. LedgerOf(ledger, epoch, more) /\ OpOf(more)
    BY <1>0, <2>3, MomentsGrow
  <2>5. OpOf(moments)'
    BY <2>1, <2>2, <2>4 DEF OpOf
  <2>6. LedgerOf(ledger, epoch, moments)' /\ LedgerOf(saved.ledger, saved.epoch, saved.moments)'
    BY <1>0, <2>1, <2>4
  <2>7. RecallOf(moments)' /\ (World \in moments)'
    BY <1>3, <1>6, <2>1, <2>3
  <2>8. QED
    BY <2>5, <2>6, <2>7 DEF MomentsIInv
<1>18. QED
  BY <1>7, <1>10, <1>11, <1>12, <1>13, <1>14, <1>15, <1>16, <1>17 DEF ObservationNext

(* What recall_evidence says is valid now is what the files hold now, if   *)
(* the tool has a proof; if it has none, what the files held at a moment   *)
(* of this epoch.  Its text is that revision's.                            *)
THEOREM RecallTheorem == ObservationSpec => []RecallIsHonest
<1>1. ObservationInit => MomentsIInv
  <2> SUFFICES ASSUME ObservationInit PROVE MomentsIInv
    OBVIOUS
  <2>1. /\ ledger = EmptyLedger /\ saved = NoSession /\ op = NoOp /\ answer = NoAnswer
        /\ moments = {World}
    BY DEF ObservationInit
  <2>2. /\ NoSession.ledger = EmptyLedger /\ NoOp.page = {} /\ NoOp.rest = {}
        /\ NoAnswer.what # "recall"
    BY DEF NoSession, NoOp, NoAnswer
  <2>3. \A ep, seen : LedgerOf(EmptyLedger, ep, seen)
    <3>1. EmptyLedger.materials = <<>> /\ EmptyLedger.snapshots = {}
      BY DEF EmptyLedger
    <3>2. DOMAIN EmptyLedger.materials = {}
      BY <3>1
    <3>3. QED
      BY <3>1, <3>2 DEF LedgerOf
  <2>4. QED
    BY <2>1, <2>2, <2>3 DEF MomentsIInv, OpOf, RecallOf
<1>2. ObservationIInv /\ MomentsIInv => RecallIsHonest
  BY DEF ObservationIInv, MomentsIInv, RecallIsProved, RecallOf, Held, RecallIsHonest
<1>3. ObservationIInv /\ MomentsIInv /\ [ObservationNext]_vars => MomentsIInv'
  BY MomentsStep
<1>4. QED
  BY <1>1, <1>2, <1>3, ObservationInvariance, PTL DEF ObservationSpec

-------------------------------------------------------------------------------
(* What coverage counts.  Of a read that examined lines there is a         *)
(* material, and its range is one of the revision it is counted for.       *)
IsRead(m, span) ==
    /\ "read" \in m.from /\ m.span = span /\ m.rev \in Revisions
    /\ 1 <= span.first /\ span.first <= span.last /\ span.last <= Lines[m.rev]

Known(l, e) ==
    \E i \in DOMAIN l.materials :
        /\ IsRead(l.materials[i], e.examined)
        /\ l.materials[i].epoch = e.epoch /\ l.materials[i].rev = e.revision

ReadsKnown(l) ==
    \A e \in l.entries : e.cap = "read" /\ e.examined.last > 0 => Known(l, e)

OpRead ==
    op.cap = "read" =>
        /\ op.request \in Requests
        /\ op.examined.last > 0 => \E m \in op.page : IsRead(m, op.examined)

LinesIInv == ReadsKnown(ledger) /\ ReadsKnown(saved.ledger) /\ OpRead

(* What is known stays known while the materials stay.                     *)
LEMMA KnownStays ==
    ASSUME NEW l, NEW r, MaterialsKept(l, r), NEW e, Known(l, e)
    PROVE  Known(r, e)
<1>1. PICK i \in DOMAIN l.materials :
          /\ IsRead(l.materials[i], e.examined)
          /\ l.materials[i].epoch = e.epoch /\ l.materials[i].rev = e.revision
  BY DEF Known
<1>2. /\ i \in DOMAIN r.materials /\ SameMaterial(l.materials[i], r.materials[i])
      /\ l.materials[i].from \subseteq r.materials[i].from
  BY DEF MaterialsKept
<1> DEFINE m == l.materials[i]
           n == r.materials[i]
<1> HIDE DEF m, n
<1>3. IsRead(n, e.examined) /\ n.epoch = e.epoch /\ n.rev = e.revision
  <2>1. /\ IsRead(m, e.examined) /\ m.epoch = e.epoch /\ m.rev = e.revision
        /\ SameMaterial(m, n) /\ m.from \subseteq n.from
    BY <1>1, <1>2 DEF m, n
  <2>2. QED
    BY <2>1 DEF IsRead, SameMaterial
<1>4. QED
  BY <1>2, <1>3 DEF Known, n

LEMMA ReadsStay ==
    ASSUME NEW l, NEW r, MaterialsKept(l, r), r.entries = l.entries, ReadsKnown(l)
    PROVE  ReadsKnown(r)
BY KnownStays DEF ReadsKnown

(* An operation that keeps what it was asked and what it has shown.        *)
LEMMA OpReadStays ==
    ASSUME OpRead, op'.cap = op.cap, op'.request = op.request,
           op'.examined = op.examined, op'.page = op.page
    PROVE  OpRead'
BY DEF OpRead, IsRead

(* The end of an operation: the entry of a read has its material.          *)
LEMMA RecordedReads ==
    ASSUME ObservationIInv, ReadsKnown(ledger), OpRead, op.pc = "after"
    PROVE  ReadsKnown(Recorded)
<1>1. LedgerHolds(Shown, epoch) /\ ShownIs(Shown)
  BY ShownHolds DEF ObservationIInv
<1>2. Shown.entries = ledger.entries /\ MaterialsKept(ledger, Shown) /\ Shown \in LedgerT
  BY <1>1 DEF ShownIs, LedgerHolds
<1>3. ReadsKnown(Shown)
  BY <1>2, ReadsStay
<1>4. ASSUME Entry.cap = "read", Entry.examined.last > 0
      PROVE  Known(Shown, Entry)
  <2>1. /\ Entry.cap = op.cap /\ Entry.examined = op.examined /\ Entry.epoch = epoch
        /\ Entry.revision = IF op.cap = "read" /\ op.page # {}
                            THEN (CHOOSE m \in op.page : TRUE).rev ELSE NoBody
    BY DEF Entry
  <2>2. PICK m \in op.page : IsRead(m, op.examined)
    BY <2>1, <1>4 DEF OpRead
  <2>3. m.epoch = epoch /\ op.page = {m}
    BY DEF ObservationIInv, OpHolds
  <2>4. Entry.revision = m.rev
    BY <2>1, <2>3, <1>4
  <2>5. PICK i \in DOMAIN Shown.materials :
            /\ SameMaterial(m, Shown.materials[i])
            /\ m.from \subseteq Shown.materials[i].from
    BY <1>1 DEF ShownIs
  <2> DEFINE n == Shown.materials[i]
  <2> HIDE DEF n
  <2>6. IsRead(n, op.examined) /\ n.epoch = epoch /\ n.rev = m.rev
    <3>1. SameMaterial(m, n) /\ m.from \subseteq n.from
      BY <2>5 DEF n
    <3>2. QED
      BY <3>1, <2>2, <2>3 DEF IsRead, SameMaterial
  <2>7. QED
    BY <2>1, <2>4, <2>6 DEF Known, n
<1>5. CASE ~Reusable
  BY <1>3, <1>5, RecordedIs
<1>6. CASE Reusable
  <2> DEFINE old == Shown.entries \ Lookup(Shown, op.cap, op.request, epoch)
             r == Recorded
             s == Shown
             e == Entry
  <2>1. r = [s EXCEPT !.entries = old \union {e}]
    BY <1>6, RecordedIs DEF RecordEntry, Entry
  <2>2. old \subseteq s.entries
    OBVIOUS
  <2> HIDE DEF old, r, s, e
  <2>3. s \in LedgerT
    BY <1>2 DEF s
  <2>4. r.entries = old \union {e} /\ r.materials = s.materials
    BY <2>1, <2>3 DEF LedgerT
  <2>5. \A x \in r.entries : x.cap = "read" /\ x.examined.last > 0 => Known(s, x)
    BY <2>2, <2>4, <1>3, <1>4 DEF ReadsKnown, s, e
  <2>6. \A x : Known(s, x) => Known(r, x)
    BY <2>4 DEF Known
  <2>7. ReadsKnown(r)
    BY <2>5, <2>6 DEF ReadsKnown
  <2>8. QED
    BY <2>7 DEF r
<1>7. QED
  BY <1>5, <1>6

(* read_file: the page is the range examined, within the file.             *)
LEMMA ReadFileReads ==
    ASSUME ObservationIInv, LinesIInv, ReadFile
    PROVE  OpRead'
<1> DEFINE request == op.request.span
           end == IF request.last = 0 THEN Lines[file]
                  ELSE Min({request.last, Lines[file]})
           stop == Min({request.first + PageLines - 1, end})
           shown == Span(request.first, stop)
           pages == PagesAfter(shown.last, end)
           page == LerFaixa("read", shown)
           rest == IF pages = <<>> THEN {} ELSE {Snapshot("read", pages, file)}
           refuse == [op EXCEPT !.pc = "after", !.result = "refused"]
           fail == [op EXCEPT !.pc = "after", !.result = "failed"]
           show == [op EXCEPT !.pc = "after", !.result = "ok",
                              !.page = page, !.examined = shown, !.rest = rest]
           m == Material("file", "read", Span(shown.first, Min({shown.last, Lines[file]})),
                         file)
<1>1. op.cap = "read" /\ file' = file /\ epoch' = epoch
  BY DEF ReadFile, Looks, Steps, sourceVars, sessionVars
<1>2. \/ op' = refuse \/ op' = fail
      \/ ~(request.first > Lines[file]) /\ op' = show
  BY DEF ReadFile, Steps
<1>3. OpTyped /\ OpRead /\ file \in Revisions /\ Lines[file] \in Nat
  BY SourceAssumption DEF ObservationIInv, OpHolds, LinesIInv, CountsHold, SourceTypeOK
<1>4. op.request \in Requests
  BY <1>1, <1>3 DEF OpRead
<1>5. /\ request.first \in Nat \ {0} /\ request.last \in Nat
      /\ request.last # 0 => request.first <= request.last
  BY <1>4, ObservationAssumption
<1>6. CASE op' = refuse \/ op' = fail
  <2>1. /\ op'.cap = op.cap /\ op'.request = op.request
        /\ op'.examined = op.examined /\ op'.page = op.page
    BY <1>6, <1>3 DEF OpTyped
  <2>2. QED
    BY <2>1, <1>3, OpReadStays
<1>7. CASE ~(request.first > Lines[file]) /\ op' = show
  <2>1. \A x \in Nat, y \in Nat : Min({x, y}) = IF x <= y THEN x ELSE y
    BY DEF Min
  <2>2. end = IF request.last = 0 THEN Lines[file]
              ELSE IF request.last <= Lines[file] THEN request.last ELSE Lines[file]
    BY <2>1, <1>3, <1>5
  <2> HIDE DEF request, end
  <2>3. end \in Nat /\ request.first <= end /\ end <= Lines[file]
    BY <2>2, <1>3, <1>5, <1>7
  <2>4. request.first + PageLines - 1 \in Nat /\ request.first <= request.first + PageLines - 1
    BY <1>5, RangesAssumption
  <2>5. stop \in Nat /\ request.first <= stop /\ stop <= Lines[file]
    BY <2>1, <2>3, <2>4, <1>3, <1>5
  <2> HIDE DEF stop
  <2>6. shown.first = request.first /\ shown.last = stop /\ shown = Span(request.first, stop)
    BY DEF Span
  <2> HIDE DEF shown
  <2>7. Min({shown.last, Lines[file]}) = stop
    BY <2>1, <2>5, <2>6, <1>3
  <2>8. page = {m}
    BY <2>5, <2>6, <1>3, <1>5 DEF LerFaixa
  <2>9. "read" \in m.from /\ m.span = shown /\ m.rev = file
    BY <2>6, <2>7 DEF Material
  <2> HIDE DEF page, m, rest
  <2>10. /\ op'.cap = op.cap /\ op'.request = op.request
         /\ op'.examined = shown /\ op'.page = page
    BY <1>3, <1>7 DEF OpTyped
  <2>11. 1 <= shown.first /\ shown.first <= shown.last /\ shown.last <= Lines[file]
    BY <2>5, <2>6, <1>5
  <2>12. QED
    BY <2>8, <2>9, <2>10, <2>11, <1>3, <1>4 DEF OpRead, IsRead
<1>8. QED
  BY <1>2, <1>6, <1>7

(* The other tools keep what they are.                                     *)
LEMMA OtherTools ==
    ASSUME OpTyped, Tool, ~ReadFile
    PROVE  OpRead'
<1>1. CASE SearchCode \/ SearchShow \/ SearchBind
  BY <1>1 DEF SearchCode, SearchShow, SearchBind, Looks, Steps, OpTyped, OpRead
<1>2. CASE FindSymbol \/ FindShow
  BY <1>2 DEF FindSymbol, FindShow, Looks, Steps, OpTyped, OpRead
<1>3. CASE ListTree \/ ListTreeEnd
  BY <1>3 DEF ListTree, ListTreeEnd, Looks, Steps, OpTyped, OpRead
<1>4. CASE ContinueFails \/ ContinueShow
  BY <1>4 DEF ContinueFails, ContinueShow, Looks, Steps, OpTyped, OpRead
<1>5. CASE ContinueReadFilePage \/ ContinueSearchCodePage
  BY <1>5 DEF ContinueReadFilePage, ContinueSearchCodePage, Continues, Compared,
              Looks, Steps, OpTyped, OpRead
<1>6. CASE ContinueListTreePage \/ ContinueFindSymbolPage
  BY <1>6 DEF ContinueListTreePage, ContinueFindSymbolPage, Continues, Kept,
              Looks, Steps, OpTyped, OpRead
<1>7. QED
  BY <1>1, <1>2, <1>3, <1>4, <1>5, <1>6 DEF Tool

(* A checkpoint and a resumption change texts only.                        *)
LEMMA TextsAway ==
    ASSUME NEW l \in LedgerT
    PROVE  PersistedView(l).entries = l.entries /\ MaterialsKept(l, PersistedView(l))
<1> DEFINE mats == l.materials
           bare == [i \in DOMAIN mats |-> [mats[i] EXCEPT !.body = NoBody]]
           view == PersistedView(l)
<1>1. mats \in Seq(MaterialT)
  BY DEF LedgerT
<1>2. \A i \in DOMAIN mats : SameMaterial(mats[i], bare[i]) /\ bare[i].from = mats[i].from
  <2> HIDE DEF mats
  <2>1. \A i \in DOMAIN mats : mats[i] \in MaterialT
    BY <1>1
  <2>2. QED
    BY <2>1 DEF MaterialT, SameMaterial
<1>3. view = [l EXCEPT !.materials = bare]
  BY DEF PersistedView
<1>4. DOMAIN bare = DOMAIN mats
  OBVIOUS
<1> HIDE DEF bare, view
<1>5. view.entries = l.entries /\ view.materials = bare
  BY <1>3 DEF LedgerT
<1>6. QED
  BY <1>2, <1>4, <1>5 DEF MaterialsKept, view

LEMMA TextsBack ==
    ASSUME NEW l \in LedgerT
    PROVE  LET full == [l EXCEPT !.materials = [i \in DOMAIN @ |-> Rehydrated(@[i])]] IN
           full.entries = l.entries /\ MaterialsKept(l, full)
<1> DEFINE mats == l.materials
           texts == [i \in DOMAIN mats |-> Rehydrated(mats[i])]
           full == [l EXCEPT !.materials = texts]
<1>1. mats \in Seq(MaterialT)
  BY DEF LedgerT
<1>2. \A i \in DOMAIN mats : SameMaterial(mats[i], texts[i]) /\ texts[i].from = mats[i].from
  <2> HIDE DEF mats
  <2>1. \A i \in DOMAIN mats : mats[i] \in MaterialT
    BY <1>1
  <2>2. \A m \in MaterialT : SameMaterial(m, Rehydrated(m)) /\ Rehydrated(m).from = m.from
    BY DEF MaterialT, SameMaterial, Rehydrated
  <2>3. QED
    BY <2>1, <2>2
<1>4. DOMAIN texts = DOMAIN mats
  OBVIOUS
<1> HIDE DEF texts
<1>5. full.entries = l.entries /\ full.materials = texts
  BY DEF LedgerT
<1>6. MaterialsKept(l, full)
  BY <1>2, <1>4, <1>5 DEF MaterialsKept
<1>7. QED
  BY <1>5, <1>6 DEF texts

(* The algorithms on ranges do what is promised of them.                   *)
THEOREM RangesKeepTheirPromise == RangesHoldMatches /\ PageIsDiverse /\ CoverIsExact
<1>0. SmallLine \in Nat /\ SmallFiles \in Nat
  BY RangesAssumption
<1>1. RangesHoldMatches
  <2> SUFFICES ASSUME NEW lines \in SUBSET (1..SmallLine)
               PROVE  LET ranges == GroupAllSearchRanges(lines) IN
                      /\ lines \subseteq UNION {LinesOf(s) : s \in ToSet(ranges)}
                      /\ \A s \in ToSet(ranges) :
                            /\ s.last - s.first < SearchLines
                            /\ LinesOf(s) \intersect lines # {}
    BY DEF RangesHoldMatches
  <2> DEFINE ranges == GroupAllSearchRanges(lines)
             sorted == Ascending(lines)
             N == Cardinality(lines)
  <2>1. IsFiniteSet(lines) /\ lines \in SUBSET Nat /\ 0 \notin lines
    <3>1. IsFiniteSet(1..SmallLine)
      BY <1>0, FS_Interval
    <3>2. QED
      <4>1. IsFiniteSet(lines)
        BY <3>1, FS_Subset
      <4>2. QED
        BY <4>1, <1>0
  <2>2. RangesHold(ranges, sorted, N)
    BY <2>1, GroupedRangesHold
  <2>3. sorted \in [1..N -> lines] /\ \A l \in lines : \E k \in 1..N : sorted[k] = l
    BY <2>1, AscendingIsAll
  <2> HIDE DEF ranges, sorted, N
  <2>4. \A l \in lines : \E s \in ToSet(ranges) : l \in LinesOf(s)
    BY <2>2, <2>3 DEF RangesHold
  <2>5. \A s \in ToSet(ranges) : /\ s.last - s.first < SearchLines
                                 /\ \E k \in 1..N : sorted[k] \in LinesOf(s)
    BY <2>2 DEF RangesHold
  <2>6. \A k \in 1..N : sorted[k] \in lines
    BY <2>3
  <2>7. \A s \in ToSet(ranges) : LinesOf(s) \intersect lines # {}
    BY <2>5, <2>6
  <2>8. QED
    BY <2>4, <2>5, <2>7 DEF ranges
<1>2. PageIsDiverse
  <2> SUFFICES ASSUME NEW counts \in [1..SmallFiles -> 0..2],
                      NEW page \in 1..SmallFiles + 1
               PROVE  LET now == Materialized(counts, page) IN
                      /\ ToSet(now) \union ToSet(Remaining(counts, page))
                            = ToSet(InFileOrder(counts))
                      /\ Len(now) + Len(Remaining(counts, page))
                            = Len(InFileOrder(counts))
                      /\ (\E r \in ToSet(now) : r[2] > 1) =>
                            \A f \in DOMAIN counts :
                                counts[f] > 0 => <<f, 1>> \in ToSet(now)
    BY DEF PageIsDiverse
  <2>1. page \in Nat
    BY <1>0
  <2>2. QED
    BY <1>0, <2>1, PagesAreDiverse
<1>3. CoverIsExact
  <2> SUFFICES ASSUME NEW spans \in SUBSET SmallSpans, NEW request \in SmallSpans
               PROVE  LET rows   == {[span |-> s, turn |-> s.first] : s \in spans}
                          chosen == Covering(rows, request)
                      IN  /\ chosen.covers <=>
                               LinesOf(request) \subseteq UNION {LinesOf(s) : s \in spans}
                          /\ chosen.covers =>
                               LinesOf(request) \subseteq
                                   UNION {LinesOf(r.span) : r \in chosen.by}
    BY DEF CoverIsExact
  <2> DEFINE rows   == {[span |-> s, turn |-> s.first] : s \in spans}
             chosen == Covering(rows, request)
             L == 1..SmallLine
             square == L \X L
             make == [p \in square |-> [first |-> p[1], last |-> p[2]]]
             all == [first : L, last : L]
             row == [s \in spans |-> [span |-> s, turn |-> s.first]]
  <2>1. \A s \in SmallSpans : /\ s \in SpanT /\ s.first \in Nat \ {0} /\ s.last \in Nat
                              /\ s.first <= s.last
    BY <1>0 DEF SmallSpans, SpanT
  <2>2. IsFiniteSet(all)
    <3>1. IsFiniteSet(square)
      <4>1. IsFiniteSet(L)
        BY <1>0, FS_Interval
      <4> HIDE DEF L
      <4>2. QED
        BY <4>1, FS_Product
    <3>2. make \in [square -> all]
      OBVIOUS
    <3>3. \A t \in all : \E p \in square : make[p] = t
      <4> TAKE t \in all
      <4>1. t.first \in L /\ t.last \in L /\ t = [first |-> t.first, last |-> t.last]
        OBVIOUS
      <4> HIDE DEF L
      <4>2. <<t.first, t.last>> \in square /\ make[<<t.first, t.last>>] = t
        BY <4>1
      <4>3. QED
        BY <4>2
    <3> HIDE DEF square, make, all
    <3>4. QED
      BY <3>1, <3>2, <3>3, ImageIsFinite
  <2>3. IsFiniteSet(spans)
    <3>1. spans \in SUBSET all
      BY DEF SmallSpans
    <3> HIDE DEF all
    <3>2. QED
      BY <2>2, <3>1, FS_Subset
  <2>4. IsFiniteSet(rows)
    <3>1. row \in [spans -> rows] /\ \A t \in rows : \E s \in spans : row[s] = t
      OBVIOUS
    <3> HIDE DEF row, rows
    <3>2. QED
      BY <2>3, <3>1, ImageIsFinite
  <2>5. \A r \in rows : r.span \in SpanT /\ r.turn \in Nat
    BY <2>1
  <2>6. UNION {LinesOf(r.span) : r \in rows} = UNION {LinesOf(s) : s \in spans}
    <3>1. \A s \in spans : \E r \in rows : r.span = s
      <4> TAKE s \in spans
      <4> DEFINE r == [span |-> s, turn |-> s.first]
      <4>1. r \in rows /\ r.span = s
        OBVIOUS
      <4> HIDE DEF r, rows
      <4>2. QED
        BY <4>1
    <3>2. \A r \in rows : r.span \in spans
      OBVIOUS
    <3> HIDE DEF rows
    <3>3. QED
      BY <3>1, <3>2
  <2>7. /\ request.first \in Nat \ {0} /\ request.last \in Nat
        /\ request.first <= request.last + 1
    BY <2>1
  <2> HIDE DEF rows
  <2>8. /\ chosen.covers <=>
              LinesOf(request) \subseteq UNION {LinesOf(r.span) : r \in rows}
        /\ chosen.covers =>
              LinesOf(request) \subseteq UNION {LinesOf(r.span) : r \in chosen.by}
    BY <2>4, <2>5, <2>7, CoveringIsExact
  <2>9. QED
    BY <2>6, <2>8 DEF rows
<1>4. QED
  BY <1>1, <1>2, <1>3

(* Every step keeps it.                                                    *)
LEMMA LinesStep ==
    ASSUME ObservationIInv, LinesIInv, [ObservationNext]_vars
    PROVE  LinesIInv'
<1>0. /\ ReadsKnown(ledger) /\ ReadsKnown(saved.ledger) /\ OpRead /\ OpTyped
      /\ ledger \in LedgerT /\ saved.ledger \in LedgerT
      /\ saved = [ledger |-> saved.ledger, epoch |-> saved.epoch, moments |-> saved.moments]
  BY DEF ObservationIInv, LinesIInv, OpHolds, LedgerHolds
<1>1. ASSUME ledger' = ledger, saved' = saved, OpRead'
      PROVE  LinesIInv'
  BY <1>0, <1>1 DEF LinesIInv
<1>2. ASSUME op' = NoOp
      PROVE  OpRead'
  BY <1>2 DEF OpRead, NoOp
<1>3. CASE UNCHANGED vars
  BY <1>0, <1>1, <1>3, OpReadStays DEF vars, sessionVars
<1>4. ASSUME NEW cap, NEW request, Ask(cap, request),
             cap = "read" => request \in Requests
      PROVE  LinesIInv'
  <2>1. ledger' = ledger /\ saved' = saved
    BY <1>4 DEF Ask, sessionVars
  <2>2. op'.cap = cap /\ op'.request = request /\ op'.examined = Span(0, 0)
    BY <1>4 DEF Ask, NoOp
  <2>3. Span(0, 0).last = 0
    BY DEF Span
  <2>4. OpRead'
    BY <1>4, <2>2, <2>3 DEF OpRead
  <2>5. QED
    BY <1>1, <2>1, <2>4
<1>5. CASE \E i \in MaterialIds(ledger) : RecallEvidence(i)
  <2>1. ledger' = ledger /\ saved' = saved /\ op' = op
    BY <1>5 DEF RecallEvidence, sessionVars
  <2>2. QED
    BY <1>0, <1>1, <2>1, OpReadStays
<1>6. ASSUME NEW revision \in Revisions, ConfirmTransaction(revision)
      PROVE  LinesIInv'
  <2> DEFINE m == Written(revision)
             found == {m}
             r == RegisterMaterialCandidates(ledger, found)
  <2>1. op' = op /\ saved' = saved /\ ledger' = r
    BY <1>6 DEF ConfirmTransaction
  <2>2. m \in MaterialT
    <3>1. Lines[revision] \in Nat /\ revision \in Rev /\ epoch + 1 \in Nat
      BY SourceAssumption DEF Rev, ObservationIInv, CountsHold
    <3>2. QED
      BY <3>1 DEF Written, MaterialT, Span, SpanT, Caps, Bodies, NoToken
  <2> HIDE DEF m
  <2>3. found \in SUBSET MaterialT /\ \A x \in found : found = {x}
    BY <2>2
  <2> HIDE DEF found
  <2>4. /\ r.entries = ledger.entries
        /\ DOMAIN ledger.materials \subseteq DOMAIN r.materials
        /\ \A i \in DOMAIN ledger.materials :
              /\ SameMaterial(ledger.materials[i], r.materials[i])
              /\ ledger.materials[i].from \subseteq r.materials[i].from
    BY <1>0, <2>3, MaterialsStay
  <2> HIDE DEF r
  <2>5. MaterialsKept(ledger, r)
    BY <2>4 DEF MaterialsKept
  <2>6. ReadsKnown(r)
    BY <1>0, <2>4, <2>5, ReadsStay
  <2>7. OpRead'
    BY <1>0, <2>1, OpReadStays
  <2>8. QED
    BY <1>0, <2>1, <2>6, <2>7 DEF LinesIInv
<1>7. CASE Main
  <2>1. CASE \E r \in Requests : Ask("read", r)
    BY <2>1, <1>4
  <2>2. CASE \E cap \in {"search", "find", "tree"} : Ask(cap, NoRequest)
    <3>1. PICK cap \in {"search", "find", "tree"} : Ask(cap, NoRequest)
      BY <2>2
    <3>2. cap # "read"
      OBVIOUS
    <3>3. QED
      BY <3>1, <3>2, <1>4
  <2>3. CASE \E i \in FrontierIds(ledger) :
                 Ask("continue", [NoRequest EXCEPT !.span = Span(i, 0)])
    <3>1. PICK i \in FrontierIds(ledger) :
                 Ask("continue", [NoRequest EXCEPT !.span = Span(i, 0)])
      BY <2>3
    <3>2. "continue" # "read"
      OBVIOUS
    <3>3. QED
      BY <3>1, <3>2, <1>4
  <2>4. CASE \E r \in Revisions : ConfirmTransaction(r)
    BY <2>4, <1>6
  <2>5. QED
    BY <1>5, <1>7, <2>1, <2>2, <2>3, <2>4 DEF Main
<1>8. CASE Tool
  <2>1. ledger' = ledger /\ saved' = saved
    BY <1>8 DEF Tool, ReadFile, SearchCode, SearchShow, SearchBind, FindSymbol, FindShow,
                ListTree, ListTreeEnd, ContinueFails, ContinueShow, ContinueReadFilePage,
                ContinueSearchCodePage, ContinueListTreePage, ContinueFindSymbolPage,
                Steps, sessionVars
  <2>2. OpRead'
    BY <1>0, <1>8, ReadFileReads, OtherTools
  <2>3. QED
    BY <1>1, <2>1, <2>2
<1>9. CASE Prove \/ Before
  <2>1. ledger' = ledger /\ saved' = saved
    BY <1>9 DEF Prove, Before, sessionVars
  <2>2. /\ op'.cap = op.cap /\ op'.request = op.request
        /\ op'.examined = op.examined /\ op'.page = op.page
    BY <1>0, <1>9 DEF Prove, Before, OpTyped
  <2>3. QED
    BY <1>0, <1>1, <2>1, <2>2, OpReadStays
<1>10. CASE Replay
  BY <1>1, <1>2, <1>10 DEF Replay, sessionVars
<1>11. CASE Record
  <2>1. op.pc = "after" /\ ledger' = Recorded /\ saved' = saved /\ op' = NoOp
    BY <1>11 DEF Record
  <2>2. ReadsKnown(Recorded)
    BY <1>0, <2>1, RecordedReads
  <2>3. QED
    BY <1>0, <1>2, <2>1, <2>2 DEF LinesIInv
<1>12. CASE Checkpoint
  <2> DEFINE view == PersistedView(ledger)
  <2>1. op' = op /\ ledger' = ledger /\ saved' = [ledger |-> view, epoch |-> epoch, moments |-> moments]
    BY <1>12 DEF Checkpoint
  <2>2. view.entries = ledger.entries /\ MaterialsKept(ledger, view)
    BY <1>0, TextsAway
  <2> HIDE DEF view
  <2>3. saved'.ledger = view
    BY <2>1
  <2>4. ReadsKnown(view)
    BY <1>0, <2>2, ReadsStay
  <2>5. OpRead'
    BY <1>0, <2>1, OpReadStays
  <2>6. QED
    BY <1>0, <2>1, <2>3, <2>4, <2>5 DEF LinesIInv
<1>13. CASE Resume
  <2> DEFINE full == [saved.ledger EXCEPT !.materials =
                        [i \in DOMAIN @ |-> Rehydrated(@[i])]]
  <2>1. op' = NoOp /\ ledger' = full /\ (saved' = saved \/ saved' = NoSession)
    BY <1>13 DEF Resume
  <2>2. full.entries = saved.ledger.entries /\ MaterialsKept(saved.ledger, full)
    BY <1>0, TextsBack
  <2> HIDE DEF full
  <2>3. ReadsKnown(full)
    BY <1>0, <2>2, ReadsStay
  <2>4. ReadsKnown(saved'.ledger)
    <3>1. CASE saved' = saved
      BY <3>1, <1>0
    <3>2. CASE saved' = NoSession
      BY <3>2 DEF NoSession, EmptyLedger, ReadsKnown
    <3>3. QED
      BY <3>1, <3>2, <2>1
  <2>5. QED
    BY <1>2, <2>1, <2>3, <2>4 DEF LinesIInv
<1>14. CASE OtherHand
  <2>1. ledger' = ledger /\ saved' = saved
    BY <1>14 DEF OtherHand, sessionVars
  <2>2. /\ op'.cap = op.cap /\ op'.request = op.request
        /\ op'.examined = op.examined /\ op'.page = op.page
    BY <1>0, <1>14 DEF OtherHand, SeenToo, OpTyped
  <2>3. QED
    BY <1>0, <1>1, <2>1, <2>2, OpReadStays
<1>15. QED
  BY <1>3, <1>7, <1>8, <1>9, <1>10, <1>11, <1>12, <1>13, <1>14 DEF ObservationNext

(* The coverage counted is of lines that were told.                        *)
LEMMA CoverageHolds ==
    ASSUME ObservationIInv, LinesIInv
    PROVE  CoverageIsExact
<1> SUFFICES ASSUME NEW r \in Revisions
             PROVE  LET merged == MergedRanges(RangesOf(ledger, epoch, "file", r))
                        told   == UNION {LinesOf(m.span) :
                                     m \in {m \in ToSet(ledger.materials) :
                                            /\ "read" \in m.from /\ m.epoch = epoch
                                            /\ m.rev = r}}
                    IN  /\ UNION {LinesOf(s) : s \in ToSet(merged)} \subseteq told
                        /\ CompleteCoverage(merged, Lines[r]) => 1..Lines[r] \subseteq told
  BY DEF CoverageIsExact
<1> DEFINE S == RangesOf(ledger, epoch, "file", r)
           E == {e \in ledger.entries : /\ e.epoch = epoch /\ e.cap = "read"
                                        /\ e.request.path = "file" /\ e.examined.last > 0
                                        /\ e.revision = r}
           examined == [e \in E |-> e.examined]
           merged == MergedRanges(S)
           told   == UNION {LinesOf(m.span) :
                        m \in {m \in ToSet(ledger.materials) :
                               "read" \in m.from /\ m.epoch = epoch /\ m.rev = r}}
<1>1. /\ ReadsKnown(ledger) /\ ledger \in LedgerT /\ IsFiniteSet(ledger.entries)
      /\ Lines[r] \in Nat
  BY SourceAssumption DEF LinesIInv, ObservationIInv, LedgerHolds
<1>2. S = {e.examined : e \in E}
  BY DEF RangesOf
<1>3. E \subseteq ledger.entries /\ \A e \in E : Known(ledger, e) /\ e.epoch = epoch /\ e.revision = r
  BY <1>1 DEF ReadsKnown
<1>4. \A e \in E : e.examined \in SpanT
  <2>1. \A e \in ledger.entries : e \in EntryT
    BY <1>1 DEF LedgerT
  <2>2. \A e \in EntryT : e.examined \in SpanT
    BY DEF EntryT
  <2> HIDE DEF E
  <2>3. QED
    BY <2>1, <2>2, <1>3
<1> HIDE DEF E, S
<1>5. IsFiniteSet(S)
  <2>1. IsFiniteSet(E)
    BY <1>1, <1>3, FS_Subset
  <2>2. examined \in [E -> S] /\ \A t \in S : \E e \in E : examined[e] = t
    BY <1>2
  <2> HIDE DEF examined
  <2>3. QED
    BY <2>1, <2>2, ImageIsFinite
<1>6. S \in SUBSET SpanT
  BY <1>2, <1>4
<1>7. \A s \in S : /\ 1 <= s.first /\ s.first <= s.last /\ s.last <= Lines[r]
                   /\ LinesOf(s) \subseteq told
  <2> TAKE s \in S
  <2>1. PICK e \in E : s = e.examined
    BY <1>2
  <2>2. PICK i \in DOMAIN ledger.materials :
            /\ IsRead(ledger.materials[i], s)
            /\ ledger.materials[i].epoch = epoch /\ ledger.materials[i].rev = r
    BY <2>1, <1>3 DEF Known
  <2> DEFINE m == ledger.materials[i]
  <2>3. m \in ToSet(ledger.materials)
    BY DEF ToSet
  <2> HIDE DEF m
  <2>4. IsRead(m, s) /\ m.epoch = epoch /\ m.rev = r
    BY <2>2 DEF m
  <2>5. /\ "read" \in m.from /\ m.span = s
        /\ 1 <= s.first /\ s.first <= s.last /\ s.last <= Lines[r]
    BY <2>4 DEF IsRead
  <2>6. QED
    BY <2>3, <2>4, <2>5
<1> HIDE DEF told, merged
<1>8. /\ LinesIn(merged) = UNION {LinesOf(s) : s \in S}
      /\ CompleteCoverage(merged, Lines[r]) => 1..Lines[r] \subseteq LinesIn(merged)
  BY <1>1, <1>5, <1>6, <1>7, CoverageIsWhole DEF merged
<1>9. LinesIn(merged) \subseteq told
  BY <1>7, <1>8
<1>10. UNION {LinesOf(s) : s \in ToSet(merged)} \subseteq told
  BY <1>9 DEF LinesIn
<1>11. CompleteCoverage(merged, Lines[r]) => 1..Lines[r] \subseteq told
  BY <1>8, <1>9
<1>12. QED
  BY <1>10, <1>11 DEF merged, told, S

(* The coverage of a file (mechanical_coverage_state), the ranges of a     *)
(* search (_group_all_search_ranges, _diverse_search_materialization) and  *)
(* the ranges that cover a request (_covering_read_file) are exact: what   *)
(* they say was read, found or left is.                                    *)
THEOREM LinesTheorem == ObservationSpec => []LinesAreExact
<1>1. ObservationInit => LinesIInv
  <2> SUFFICES ASSUME ObservationInit PROVE LinesIInv
    OBVIOUS
  <2>1. ledger = EmptyLedger /\ saved = NoSession /\ op = NoOp
    BY DEF ObservationInit
  <2>2. ReadsKnown(EmptyLedger) /\ NoSession.ledger = EmptyLedger
    BY DEF ReadsKnown, EmptyLedger, NoSession
  <2>3. NoOp.cap # "read"
    BY DEF NoOp
  <2>4. QED
    BY <2>1, <2>2, <2>3 DEF LinesIInv, OpRead
<1>2. ObservationIInv /\ LinesIInv => LinesAreExact
  BY CoverageHolds, RangesKeepTheirPromise DEF LinesAreExact, RangesAreExact
<1>3. ObservationIInv /\ LinesIInv /\ [ObservationNext]_vars => LinesIInv'
  BY LinesStep
<1>4. QED
  BY <1>1, <1>2, <1>3, ObservationInvariance, PTL DEF ObservationSpec

===============================================================================
