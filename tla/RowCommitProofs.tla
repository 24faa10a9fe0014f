-------------------------- MODULE RowCommitProofs --------------------------
(***************************************************************************)
(* What a chunk plan covers and what a chunk's transaction commits, for    *)
(* tables of any size: the chunks tile the span of the rows they were      *)
(* planned over, and the ops of a chunk, run in one transaction that is    *)
(* not rejected, make its rows equal to the source's.                      *)
(***************************************************************************)
EXTENDS RowSyncProofs

-----------------------------------------------------------------------------
(***************************************************************************)
(* Finite sets.                                                            *)
(***************************************************************************)

Labelled(S, F, x) == {s \in S : F[s] = x}

\* Sets that agree on how many elements have each label are of one size: the
\* bijections of the parts make one of the whole.
LEMMA Glue ==
  ASSUME NEW S, NEW D, IsFiniteSet(S), IsFiniteSet(D), NEW F,
         \A x : Cardinality(Labelled(S, F, x)) = Cardinality(Labelled(D, F, x))
  PROVE  Cardinality(S) = Cardinality(D)
<1> DEFINE P(x) == Labelled(S, F, x)
           Q(x) == Labelled(D, F, x)
           b(x) == CHOOSE f \in Bijection(P(x), Q(x)) : TRUE
           g    == [s \in S |-> b(F[s])[s]]
<1>1. \A x : b(x) \in Bijection(P(x), Q(x))
  <2> TAKE x
  <2>1. P(x) \in SUBSET S /\ Q(x) \in SUBSET D
    BY DEF Labelled
  <2>2. IsFiniteSet(P(x)) /\ IsFiniteSet(Q(x))
    BY <2>1, FS_Subset
  <2>3. ExistsBijection(P(x), Q(x))
    BY <2>2, FS_SameCardinalityBij
  <2> QED
    BY <2>3 DEF ExistsBijection
<1> HIDE DEF b
<1>2. \A s \in S : g[s] \in D /\ F[g[s]] = F[s]
  <2> TAKE s \in S
  <2>1. s \in P(F[s])
    BY DEF Labelled
  <2>2. b(F[s])[s] \in Q(F[s])
    BY <1>1, <2>1 DEF Bijection, Injection, IsInjective
  <2> QED
    BY <2>2 DEF Labelled
<1>3. \A s, t \in S : g[s] = g[t] => s = t
  <2> SUFFICES ASSUME NEW s \in S, NEW t \in S, g[s] = g[t] PROVE s = t
    OBVIOUS
  <2>1. F[s] = F[t]
    BY <1>2
  <2>2. s \in P(F[s]) /\ t \in P(F[s]) /\ b(F[s])[s] = b(F[s])[t]
    BY <2>1 DEF Labelled
  <2> HIDE DEF P, Q, g
  <2> QED
    BY <1>1, <2>2 DEF Bijection, Injection, IsInjective
<1>4. \A d \in D : \E s \in S : g[s] = d
  <2> TAKE d \in D
  <2>1. d \in Q(F[d])
    BY DEF Labelled
  <2>2. PICK s \in P(F[d]) : b(F[d])[s] = d
    BY <1>1, <2>1 DEF Bijection, Surjection
  <2> QED
    BY <2>2 DEF Labelled
<1>5. g \in [S -> D]
  BY <1>2
<1> HIDE DEF g
<1>6. g \in Bijection(S, D)
  BY <1>3, <1>4, <1>5 DEF Bijection, Injection, Surjection, IsInjective
<1> QED
  BY <1>6, FS_Bijection DEF ExistsBijection

\* A set of integers in order: every one of them, once.
LEMMA InOrderIs ==
  ASSUME NEW S, S \subseteq Int, IsFiniteSet(S)
  PROVE  /\ Cardinality(S) \in Nat /\ DOMAIN InOrder(S) = 1..Cardinality(S)
         /\ \A i \in 1..Cardinality(S) : InOrder(S)[i] \in S
         /\ \A i, j \in 1..Cardinality(S) : InOrder(S)[i] = InOrder(S)[j] => i = j
         /\ \A x \in S : \E i \in 1..Cardinality(S) : InOrder(S)[i] = x
<1> DEFINE n     == Cardinality(S)
           below(x) == {y \in S : y < x}
           f     == [x \in S |-> Cardinality(below(x)) + 1]
<1>1. n \in Nat
  BY FS_CardinalityType
<1>2. \A x \in S : IsFiniteSet(below(x)) /\ Cardinality(below(x)) \in 0..(n - 1)
  <2> TAKE x \in S
  <2>1. below(x) \subseteq S /\ x \notin below(x)
    OBVIOUS
  <2>2. IsFiniteSet(below(x)) /\ Cardinality(below(x)) <= n /\ Cardinality(below(x)) # n
    BY <2>1, FS_Subset
  <2>3. Cardinality(below(x)) \in Nat
    BY <2>2, FS_CardinalityType
  <2> QED
    BY <1>1, <2>2, <2>3
<1>3. \A x, y \in S : x < y => Cardinality(below(x)) < Cardinality(below(y))
  <2> SUFFICES ASSUME NEW x \in S, NEW y \in S, x < y
               PROVE  Cardinality(below(x)) < Cardinality(below(y))
    OBVIOUS
  <2>1. below(x) \subseteq below(y) /\ x \in below(y) /\ x \notin below(x)
    <3>1. \A z \in S : z < x => z < y
      OBVIOUS
    <3>2. ~(x < x)
      OBVIOUS
    <3> QED
      BY <3>1, <3>2
  <2>2. Cardinality(below(x)) <= Cardinality(below(y))
        /\ Cardinality(below(x)) # Cardinality(below(y))
    BY <1>2, <2>1, FS_Subset
  <2> QED
    BY <1>2, <2>2
<1> HIDE DEF below
<1>4. f \in [S -> 1..n]
  BY <1>1, <1>2
<1>5. \A x, y \in S : f[x] = f[y] => x = y
  <2> SUFFICES ASSUME NEW x \in S, NEW y \in S, f[x] = f[y] PROVE x = y
    OBVIOUS
  <2>1. Cardinality(below(x)) = Cardinality(below(y))
    BY <1>2
  <2> QED
    BY <1>2, <1>3, <2>1
<1> HIDE DEF f, n
<1>6. f \in Injection(S, 1..n)
  BY <1>4, <1>5 DEF Injection, IsInjective
<1>7. IsFiniteSet(1..n) /\ Cardinality(1..n) = n
  BY <1>1, FS_Interval
<1>8. f \in Surjection(S, 1..n)
  BY <1>6, <1>7, FS_Injection DEF n
<1>9. \A i \in 1..n : \E x \in S : f[x] = i
  BY <1>8 DEF Surjection
<1>10. InOrder(S) = [i \in 1..n |-> CHOOSE x \in S : Cardinality(below(x)) = i - 1]
  BY DEF InOrder, n, below
<1>11. \A i \in 1..n : \E x \in S : Cardinality(below(x)) = i - 1
  <2> TAKE i \in 1..n
  <2>1. PICK x \in S : f[x] = i
    BY <1>9
  <2>2. Cardinality(below(x)) = i - 1
    BY <1>2, <2>1 DEF f
  <2> QED
    BY <2>2
<1>12. \A i \in 1..n : InOrder(S)[i] \in S /\ Cardinality(below(InOrder(S)[i])) = i - 1
  BY <1>10, <1>11
<1>13. \A x \in S : \E i \in 1..n : InOrder(S)[i] = x
  <2> TAKE x \in S
  <2> DEFINE i == Cardinality(below(x)) + 1
  <2>1. i \in 1..n
    BY <1>1, <1>2
  <2>2. Cardinality(below(InOrder(S)[i])) = Cardinality(below(x)) /\ InOrder(S)[i] \in S
    BY <1>2, <1>12, <2>1
  <2>3. InOrder(S)[i] = x
    BY <1>5, <2>2 DEF f
  <2> QED
    BY <2>1, <2>3
<1>14. \A i, j \in 1..n : InOrder(S)[i] = InOrder(S)[j] => i = j
  BY <1>1, <1>12
<1> QED
  BY <1>1, <1>10, <1>12, <1>13, <1>14 DEF n

-----------------------------------------------------------------------------
(***************************************************************************)
(* The comparison: two sets of rows are the same if each normalized row is *)
(* as often in the one as in the other.                                    *)
(***************************************************************************)
Alike(rows, c) == {r \in rows : CanonRow(r) = c}
Same(s, d) == \A c : Cardinality(Alike(s, c)) = Cardinality(Alike(d, c))

\* Counting rows by their canonical form is the code's multiset comparison.
LEMMA SameIs ==
  ASSUME NEW s, NEW d, IsFiniteSet(s), IsFiniteSet(d)
  PROVE  SameMultiset(s, d) <=> Same(s, d)
<1> DEFINE F == [r \in s \cup d |-> CanonRow(r)]
<1> HIDE DEF CanonRow
<1>1. ASSUME Same(s, d) PROVE SameMultiset(s, d)
  <2>1. \A x : Labelled(s, F, x) = Alike(s, x) /\ Labelled(d, F, x) = Alike(d, x)
    BY DEF Alike, Labelled
  <2>2. \A x : Cardinality(Labelled(s, F, x)) = Cardinality(Labelled(d, F, x))
    BY <1>1, <2>1 DEF Same
  <2> HIDE DEF F
  <2>3. Cardinality(s) = Cardinality(d)
    BY <2>2, Glue
  <2> QED
    BY <1>1, <2>3 DEF Same, SameMultiset, Alike
<1>2. ASSUME SameMultiset(s, d) PROVE Same(s, d)
  <2> DEFINE e == {x \in d : \E r \in s : CanonRow(r) = CanonRow(x)}
  <2>1. Cardinality(s) = Cardinality(d)
        /\ \A r \in s : Cardinality(Alike(s, CanonRow(r))) = Cardinality(Alike(d, CanonRow(r)))
    BY <1>2 DEF SameMultiset, Alike
  <2>2. \A x : Cardinality(Labelled(s, F, x)) = Cardinality(Labelled(e, F, x))
    <3> TAKE x
    <3>1. CASE \E r \in s : CanonRow(r) = x
      <4>1. Labelled(s, F, x) = Alike(s, x) /\ Labelled(e, F, x) = Alike(d, x)
        BY <3>1 DEF Alike, Labelled
      <4> QED
        BY <2>1, <3>1, <4>1
    <3>2. CASE ~\E r \in s : CanonRow(r) = x
      <4>1. Labelled(s, F, x) = {} /\ Labelled(e, F, x) = {}
        BY <3>2 DEF Labelled
      <4> QED
        BY <4>1
    <3> QED
      BY <3>1, <3>2
  <2>3. e \subseteq d /\ IsFiniteSet(e)
    BY FS_Subset
  <2> HIDE DEF F, e
  <2>4. Cardinality(s) = Cardinality(e)
    BY <2>2, <2>3, Glue
  <2>5. e = d
    BY <2>1, <2>3, <2>4, FS_Subset
  <2>6. ASSUME NEW c, ~\E r \in s : CanonRow(r) = c
        PROVE  Cardinality(Alike(s, c)) = Cardinality(Alike(d, c))
    <3>1. Alike(s, c) = {} /\ Alike(d, c) = {}
      BY <2>5, <2>6 DEF Alike, e
    <3> QED
      BY <3>1
  <2> QED
    BY <2>1, <2>6 DEF Same
<1> QED
  BY <1>1, <1>2

\* What is the same stays the same part by part.
LEMMA SameSelf ==
  ASSUME NEW s, NEW d, s = d
  PROVE  Same(s, d)
  BY DEF Same

-----------------------------------------------------------------------------
(***************************************************************************)
(* The chunks of a plan.  They select the keys between the extremes, and   *)
(* no key twice.                                                           *)
(***************************************************************************)

\* The ranges of the integer splitter do not leave the extremes.
LEMMA IntRangesWithin ==
  ASSUME NEW low \in MinInt..MaxInt, NEW high \in low..MaxInt, NEW n \in 2..Half,
         SpanSafe(low, high), NEW k \in Int,
         NEW C, C = IntBoundaries(low, high, n, 0),
         NEW p \in DOMAIN C, Selects(C[p], <<k>>)
  PROVE  low <= k /\ k <= high
<1>1. /\ Half \in Nat \ {0} /\ MaxInt = Half - 1 /\ MinInt = -Half
      /\ low \in Int /\ high \in MinInt..MaxInt /\ n \in Nat \ {0}
      /\ <<k>> \in KeysOf(1) /\ <<k>>[1] = k /\ k # NULL
  BY HalfAssumption, NullAssumption DEF MaxInt, MinInt, KeysOf, Values
<1>2. CASE low = high
  <2>1. DOMAIN C = {1} /\ C[1].lo = <<low>> /\ C[1].hi = <<high>> /\ C[1].prefix = 0
    BY <1>2 DEF IntBoundaries
  <2>2. p = 1
    BY <2>1
  <2>3. Selects(C[p], <<k>>) <=>
          k # NULL /\ (low < k \/ (C[p].loIncl /\ low = k)) /\ k <= high
    BY <1>1, <2>1, <2>2, SelectsLead
  <2> QED
    BY <1>1, <2>3
<1>3. CASE low # high
  <2>0. PICK m \in 1..n, step \in Nat, diff \in 1..(2 * Half - 1) :
           /\ IntBoundaries(low, high, n, 0) = Ranges(low, m, step, diff, 0)
           /\ Shape(low, high, n, m, step, diff)
    BY <1>1, <1>3, IntBoundariesShape
  <2>1. diff = high - low /\ step \in Nat \ {0}
    <3>1. low < high /\ ~(high < low)
      BY <1>1, <1>3
    <3> QED
      BY <2>0, <3>1 DEF Shape
  <2>2. p \in 1..m /\ p \in Nat
    BY <2>0 DEF Ranges
  <2>3. BoundsOf(low, step, diff, p) /\ RangeChunk(C[p], low, step, diff, 0, p)
    BY <1>1, <2>0, <2>2, RangeBounds
  <2> DEFINE a == RangeLow(low, step, p)
             b == RangeHigh(low, step, diff, p)
             s == (p - 1) * step
             e == RangeEnd(step, diff, p)
  <2>4. /\ e \in 0..(2 * Half - 1) /\ e <= diff /\ s \in Nat /\ s <= e
        /\ p # 1 => s - 1 \in 0..(2 * Half - 1)
    BY <2>1, <2>3 DEF BoundsOf
  <2> HIDE DEF s, e
  <2>5. b = low + e
    BY <1>1, <2>1, <2>4 DEF RangeHigh, At, e
  <2>6. a = IF p = 1 THEN low ELSE low + s - 1
    <3>1. p # 1 => At(low, s - 1) = low + s - 1
      BY <1>1, <2>1, <2>4 DEF At
    <3> QED
      BY <2>1, <3>1 DEF RangeLow, s
  <2>7. a \in Int /\ b \in Int /\ low <= a /\ b <= high
    BY <1>1, <2>1, <2>4, <2>5, <2>6
  <2>8. C[p].lo = <<a>> /\ C[p].hi = <<b>> /\ C[p].prefix = 0
    BY <2>3 DEF RangeChunk
  <2> HIDE DEF a, b
  <2>9. Selects(C[p], <<k>>) <=> k # NULL /\ (a < k \/ (C[p].loIncl /\ a = k)) /\ k <= b
    BY <1>1, <2>7, <2>8, SelectsLead
  <2> QED
    BY <1>1, <2>7, <2>9
<1> QED
  BY <1>2, <1>3

\* An interval still to split, with its keys.
Intervals(V) == [lo : V, hi : V, incl : BOOLEAN, rows : Nat]
Within(w, k) == (w.lo < k \/ (w.incl /\ w.lo = k)) /\ k <= w.hi
IntervalChunk(w) == [id |-> 0, lo |-> <<w.lo>>, loIncl |-> w.incl, hi |-> <<w.hi>>, prefix |-> 0]

\* An interval's chunk selects the keys within the interval.
LEMMA IntervalSelects ==
  ASSUME NEW V, V \subseteq Int, NEW w \in Intervals(V), NEW k \in Int, NEW ch,
         ch.lo = <<w.lo>>, ch.loIncl = w.incl, ch.hi = <<w.hi>>, ch.prefix = 0
  PROVE  Selects(ch, <<k>>) <=> Within(w, k)
<1>1. w.lo \in Int /\ w.hi \in Int /\ w.incl \in BOOLEAN
  BY DEF Intervals
<1>2. <<k>> \in KeysOf(1) /\ <<k>>[1] = k /\ k # NULL
  BY NullAssumption DEF KeysOf, Values
<1>3. Selects(ch, <<k>>) <=>
        k # NULL /\ (w.lo < k \/ (ch.loIncl /\ w.lo = k)) /\ k <= w.hi
  BY <1>1, <1>2, SelectsLead
<1> QED
  BY <1>2, <1>3 DEF Within

\* The splitter of Sampled: where an interval is cut, and the chunks of it.
RowAt(rows, ch, off) ==
  {k \in {r.k : r \in InChunk(rows, ch)} :
     /\ Cardinality({r \in InChunk(rows, ch) : r.k < k}) <= off
     /\ off < Cardinality({r \in InChunk(rows, ch) : r.k <= k})}
Mids(rows, size, w) ==
  IF w.rows <= size THEN {} ELSE RowAt(rows, IntervalChunk(w), w.rows \div 2) \ {w.hi}
Lower(w, mid) == [lo |-> w.lo, hi |-> mid, incl |-> w.incl, rows |-> w.rows \div 2]
Upper(w, mid) == [lo |-> mid, hi |-> w.hi, incl |-> FALSE, rows |-> w.rows - w.rows \div 2]
Parts(f, rows, size, w) ==
  IF Mids(rows, size, w) = {} THEN << IntervalChunk(w) >>
  ELSE LET mid == CHOOSE k \in Mids(rows, size, w) : TRUE
       IN  f[Lower(w, mid)] \o f[Upper(w, mid)]
IsSplit(f, V, rows, size) == f = [w \in Intervals(V) |-> Parts(f, rows, size, w)]

Splittable(V, rows, size) ==
  V \subseteq Int /\ (\A r \in rows : r.k \in V) /\ size \in Nat \ {0}

\* The cut is a key of the interval but not its end, and both parts have
\* fewer rows.
LEMMA CutIs ==
  ASSUME NEW V, NEW rows, NEW size, Splittable(V, rows, size),
         NEW w \in Intervals(V), NEW mid \in Mids(rows, size, w)
  PROVE  /\ mid \in V /\ Within(w, mid) /\ mid # w.hi
         /\ Lower(w, mid) \in Intervals(V) /\ Lower(w, mid).rows < w.rows
         /\ Upper(w, mid) \in Intervals(V) /\ Upper(w, mid).rows < w.rows
<1>1. w.rows \in Nat /\ ~(w.rows <= size) /\ w.lo \in V /\ w.hi \in V /\ w.incl \in BOOLEAN
  BY DEF Mids, Intervals, Splittable
<1>2. w.rows \div 2 \in Nat /\ w.rows - w.rows \div 2 \in Nat
      /\ w.rows \div 2 < w.rows /\ w.rows - w.rows \div 2 < w.rows
  BY <1>1 DEF Splittable
<1>3. mid \in RowAt(rows, IntervalChunk(w), w.rows \div 2) /\ mid # w.hi
  BY <1>1 DEF Mids
<1>4. PICK r \in InChunk(rows, IntervalChunk(w)) : mid = r.k
  BY <1>3 DEF RowAt
<1>5. mid \in V /\ mid \in Int /\ Selects(IntervalChunk(w), <<mid>>)
  BY <1>4 DEF InChunk, Splittable
<1>6. Within(w, mid)
  BY <1>5, IntervalSelects DEF IntervalChunk, Splittable
<1> QED
  BY <1>1, <1>2, <1>3, <1>5, <1>6 DEF Lower, Upper, Intervals

SameBelow(f, g, V, w) == \A v \in Intervals(V) : v.rows < w.rows => f[v] = g[v]

\* Parts needs f only for the intervals with fewer rows.
LEMMA PartsAgree ==
  ASSUME NEW V, NEW rows, NEW size, Splittable(V, rows, size),
         NEW w \in Intervals(V), NEW f, NEW g, SameBelow(f, g, V, w)
  PROVE  Parts(f, rows, size, w) = Parts(g, rows, size, w)
<1> DEFINE mid == CHOOSE k \in Mids(rows, size, w) : TRUE
<1>1. CASE Mids(rows, size, w) = {}
  BY <1>1 DEF Parts
<1>2. CASE Mids(rows, size, w) # {}
  <2>1. mid \in Mids(rows, size, w)
    BY <1>2
  <2> HIDE DEF mid
  <2>2. f[Lower(w, mid)] = g[Lower(w, mid)] /\ f[Upper(w, mid)] = g[Upper(w, mid)]
    BY <2>1, CutIs DEF SameBelow
  <2> QED
    BY <1>2, <2>2 DEF Parts, mid
<1> QED
  BY <1>1, <1>2

\* The recursion is one: it is defined for the intervals of up to m rows ...
UpToRows(V, m) == {w \in Intervals(V) : w.rows <= m}
SplitUpTo(f, V, rows, size, m) == f = [w \in UpToRows(V, m) |-> Parts(f, rows, size, w)]

\* The splitter as a function of the intervals with at most n rows.
LEMMA SplitUpToExists ==
  ASSUME NEW V, NEW rows, NEW size, Splittable(V, rows, size),
         NEW n \in Nat
  PROVE  \E f : SplitUpTo(f, V, rows, size, n)
<1> DEFINE Good == {m \in 0..n : \E f : SplitUpTo(f, V, rows, size, m)}
           None == [w \in {} |-> w]
<1>1. 0 \in Good
  <2> DEFINE f == [w \in UpToRows(V, 0) |-> Parts(None, rows, size, w)]
  <2>1. ASSUME NEW w \in UpToRows(V, 0) PROVE Parts(None, rows, size, w) = Parts(f, rows, size, w)
    <3>1. w \in Intervals(V) /\ w.rows \in Nat /\ w.rows <= 0
      BY DEF UpToRows, Intervals
    <3>2. SameBelow(None, f, V, w)
      BY <3>1 DEF Intervals, SameBelow
    <3> HIDE DEF f, None
    <3> QED
      BY <3>1, <3>2, PartsAgree
  <2>2. f = [w \in UpToRows(V, 0) |-> Parts(f, rows, size, w)]
    BY <2>1
  <2> HIDE DEF f
  <2> QED
    BY <2>2 DEF SplitUpTo
<1>2. \A m \in 0..(n - 1) : m \in Good => m + 1 \in Good
  <2> SUFFICES ASSUME NEW m \in 0..(n - 1), NEW f, SplitUpTo(f, V, rows, size, m)
               PROVE  \E g : SplitUpTo(g, V, rows, size, m + 1)
    OBVIOUS
  <2> HIDE DEF Good
  <2> DEFINE g == [w \in UpToRows(V, m + 1) |-> Parts(f, rows, size, w)]
  <2>1. ASSUME NEW w \in UpToRows(V, m) PROVE w \in UpToRows(V, m + 1) /\ f[w] = g[w]
    <3>1. w \in UpToRows(V, m + 1)
      BY DEF UpToRows, Intervals
    <3>2. f[w] = Parts(f, rows, size, w)
      BY DEF SplitUpTo
    <3> QED
      BY <3>1, <3>2
  <2>2. ASSUME NEW w \in UpToRows(V, m + 1)
        PROVE  Parts(f, rows, size, w) = Parts(g, rows, size, w)
    <3>1. w \in Intervals(V) /\ w.rows \in Nat /\ w.rows <= m + 1
      BY DEF UpToRows, Intervals
    <3>2. \A v \in Intervals(V) : v.rows < w.rows => v \in UpToRows(V, m)
      BY <3>1 DEF UpToRows, Intervals
    <3>3. SameBelow(f, g, V, w)
      BY <2>1, <3>2 DEF SameBelow
    <3> HIDE DEF g
    <3> QED
      BY <3>1, <3>3, PartsAgree
  <2>3. g = [w \in UpToRows(V, m + 1) |-> Parts(g, rows, size, w)]
    BY <2>2
  <2> HIDE DEF g
  <2> QED
    BY <2>3 DEF SplitUpTo
<1> HIDE DEF Good
<1>3. 0..n \subseteq Good
  BY <1>1, <1>2, UpTo
<1> QED
  BY <1>3 DEF Good

\* ... in one way ...
LEMMA SplitUpToUnique ==
  ASSUME NEW V, NEW rows, NEW size, Splittable(V, rows, size),
         NEW n \in Nat, NEW m \in Nat, n <= m, NEW f, SplitUpTo(f, V, rows, size, n),
         NEW g, SplitUpTo(g, V, rows, size, m), NEW w \in UpToRows(V, n)
  PROVE  f[w] = g[w]
<1> DEFINE Good == {q \in 0..n : \A v \in Intervals(V) : v.rows <= q => f[v] = g[v]}
<1>1. \A v \in Intervals(V) : v.rows <= n =>
         f[v] = Parts(f, rows, size, v) /\ g[v] = Parts(g, rows, size, v)
  BY DEF SplitUpTo, UpToRows, Intervals
<1>2. 0 \in Good
  <2> SUFFICES ASSUME NEW v \in Intervals(V), v.rows <= 0 PROVE f[v] = g[v]
    OBVIOUS
  <2>1. SameBelow(f, g, V, v)
    BY DEF Intervals, SameBelow
  <2>2. Parts(f, rows, size, v) = Parts(g, rows, size, v)
    BY <2>1, PartsAgree
  <2>3. v.rows <= n
    BY DEF Intervals
  <2> QED
    BY <1>1, <2>2, <2>3
<1>3. \A q \in 0..(n - 1) : q \in Good => q + 1 \in Good
  <2> SUFFICES ASSUME NEW q \in 0..(n - 1), q \in Good,
                      NEW v \in Intervals(V), v.rows <= q + 1
               PROVE  f[v] = g[v]
    OBVIOUS
  <2>1. \A u \in Intervals(V) : u.rows < v.rows => u.rows <= q
    BY DEF Intervals
  <2>2. SameBelow(f, g, V, v)
    BY <2>1 DEF SameBelow
  <2>3. Parts(f, rows, size, v) = Parts(g, rows, size, v)
    BY <2>2, PartsAgree
  <2>4. v.rows <= n
    BY DEF Intervals
  <2> QED
    BY <1>1, <2>3, <2>4
<1> HIDE DEF Good
<1>4. n \in Good
  BY <1>2, <1>3, UpTo
<1> QED
  BY <1>4 DEF Good, UpToRows

\* ... and so for all.
LEMMA SplitExists ==
  ASSUME NEW V, NEW rows, NEW size, Splittable(V, rows, size)
  PROVE  \E f : IsSplit(f, V, rows, size)
<1> DEFINE b(m) == CHOOSE f : SplitUpTo(f, V, rows, size, m)
           f    == [w \in Intervals(V) |-> b(w.rows)[w]]
<1>1. \A m \in Nat : SplitUpTo(b(m), V, rows, size, m)
  BY SplitUpToExists
<1> HIDE DEF b
<1>2. ASSUME NEW w \in Intervals(V) PROVE f[w] = Parts(f, rows, size, w)
  <2>1. w.rows \in Nat /\ w \in UpToRows(V, w.rows)
    BY DEF UpToRows, Intervals
  <2>2. SplitUpTo(b(w.rows), V, rows, size, w.rows)
    BY <1>1, <2>1
  <2>3. f[w] = Parts(b(w.rows), rows, size, w)
    BY <2>1, <2>2 DEF SplitUpTo
  <2>4. ASSUME NEW v \in Intervals(V), v.rows < w.rows PROVE b(w.rows)[v] = f[v]
    <3>1. v.rows \in Nat /\ v \in UpToRows(V, v.rows) /\ v.rows <= w.rows
      BY <2>1, <2>4 DEF UpToRows, Intervals
    <3>2. b(v.rows)[v] = b(w.rows)[v]
      BY <1>1, <2>1, <3>1, SplitUpToUnique
    <3> QED
      BY <3>2
  <2> HIDE DEF f
  <2>6. SameBelow(b(w.rows), f, V, w)
    BY <2>4 DEF SameBelow
  <2>5. Parts(b(w.rows), rows, size, w) = Parts(f, rows, size, w)
    BY <2>6, PartsAgree
  <2> QED
    BY <2>3, <2>5
<1>3. f = [w \in Intervals(V) |-> f[w]]
  OBVIOUS
<1> HIDE DEF f
<1>4. f = [w \in Intervals(V) |-> Parts(f, rows, size, w)]
  BY <1>2, <1>3
<1> QED
  BY <1>4 DEF IsSplit

\* A sequence of chunks that select the keys of S, each key by one of them.
Tiles(q, T, S) ==
  /\ q \in Seq(T)
  /\ \A i \in 1..Len(q), k \in Int : Selects(q[i], <<k>>) => k \in S
  /\ \A k \in S : \E i \in 1..Len(q) : Selects(q[i], <<k>>)
  /\ \A i, j \in 1..Len(q), k \in Int : Selects(q[i], <<k>>) /\ Selects(q[j], <<k>>) => i = j

\* Chunk sequences over disjoint key sets tile their union together.
LEMMA TilesConcat ==
  ASSUME NEW T, NEW A, NEW B, A \cap B = {}, NEW a, Tiles(a, T, A), NEW b, Tiles(b, T, B)
  PROVE  Tiles(a \o b, T, A \cup B)
<1> DEFINE c == a \o b
<1>1. /\ a \in Seq(T) /\ b \in Seq(T) /\ Len(a) \in Nat /\ Len(b) \in Nat
  BY DEF Tiles
<1>2. /\ c \in Seq(T) /\ Len(c) = Len(a) + Len(b)
      /\ \A i \in 1..(Len(a) + Len(b)) : c[i] = IF i <= Len(a) THEN a[i] ELSE b[i - Len(a)]
  BY <1>1, ConcatProperties
<1> HIDE DEF c
<1>3. /\ \A i \in 1..Len(a) : i \in 1..Len(c) /\ c[i] = a[i]
      /\ \A i \in 1..Len(b) : Len(a) + i \in 1..Len(c) /\ c[Len(a) + i] = b[i]
  <2>1. ASSUME NEW i \in 1..Len(a) PROVE i \in 1..Len(c) /\ c[i] = a[i]
    BY <1>1, <1>2
  <2>2. ASSUME NEW i \in 1..Len(b) PROVE Len(a) + i \in 1..Len(c) /\ c[Len(a) + i] = b[i]
    <3>1. Len(a) + i \in 1..(Len(a) + Len(b)) /\ ~(Len(a) + i <= Len(a)) /\ (Len(a) + i) - Len(a) = i
      BY <1>1
    <3> QED
      BY <1>2, <3>1
  <2> QED
    BY <2>1, <2>2
<1>4. ASSUME NEW i \in 1..Len(c)
      PROVE  (i \in 1..Len(a) /\ c[i] = a[i])
             \/ (i - Len(a) \in 1..Len(b) /\ c[i] = b[i - Len(a)])
  BY <1>1, <1>2
<1>5. ASSUME NEW i \in 1..Len(c), NEW k \in Int, Selects(c[i], <<k>>)
      PROVE  \/ i \in 1..Len(a) /\ Selects(a[i], <<k>>) /\ k \in A
             \/ i - Len(a) \in 1..Len(b) /\ Selects(b[i - Len(a)], <<k>>) /\ k \in B
  BY <1>4, <1>5 DEF Tiles
<1>6. ASSUME NEW k \in A \cup B PROVE \E i \in 1..Len(c) : Selects(c[i], <<k>>)
  BY <1>3 DEF Tiles
<1>7. ASSUME NEW i \in 1..Len(c), NEW j \in 1..Len(c), NEW k \in Int,
             Selects(c[i], <<k>>), Selects(c[j], <<k>>)
      PROVE  i = j
  <2>1. CASE k \in A
    <3>1. i \in 1..Len(a) /\ Selects(a[i], <<k>>) /\ j \in 1..Len(a) /\ Selects(a[j], <<k>>)
      BY <1>5, <1>7, <2>1
    <3> QED
      BY <3>1 DEF Tiles
  <2>2. CASE k \notin A
    <3>1. /\ i - Len(a) \in 1..Len(b) /\ Selects(b[i - Len(a)], <<k>>)
          /\ j - Len(a) \in 1..Len(b) /\ Selects(b[j - Len(a)], <<k>>)
      BY <1>5, <1>7, <2>2
    <3>2. i - Len(a) = j - Len(a)
      BY <3>1 DEF Tiles
    <3> QED
      BY <1>1, <3>2
  <2> QED
    BY <2>1, <2>2
<1>8. Tiles(c, T, A \cup B)
  BY <1>2, <1>5, <1>6, <1>7 DEF Tiles
<1> QED
  BY <1>8 DEF c

ChunksOf(V) == {IntervalChunk(w) : w \in Intervals(V)}
KeysIn(w)   == {k \in Int : Within(w, k)}

\* A chunk that is not cut tiles its interval.
LEMMA OneTile ==
  ASSUME NEW V, V \subseteq Int, NEW w \in Intervals(V)
  PROVE  Tiles(<< IntervalChunk(w) >>, ChunksOf(V), KeysIn(w))
<1> DEFINE ch == IntervalChunk(w)
           q  == << ch >>
<1>1. \A k \in Int : Selects(ch, <<k>>) <=> Within(w, k)
  BY IntervalSelects DEF IntervalChunk
<1>2. ch \in ChunksOf(V)
  BY DEF ChunksOf
<1> HIDE DEF ch
<1>3. q \in Seq(ChunksOf(V)) /\ Len(q) = 1 /\ q[1] = ch
  BY <1>2
<1> HIDE DEF q
<1>4. \A i \in 1..Len(q) : i = 1 /\ q[i] = ch
  BY <1>3
<1>5. 1 \in 1..Len(q)
  BY <1>3
<1>6. Tiles(q, ChunksOf(V), KeysIn(w))
  BY <1>1, <1>3, <1>4, <1>5 DEF Tiles, KeysIn
<1> QED
  BY <1>6 DEF q, ch

\* What the splitter makes of an interval selects the keys of the interval.
LEMMA SplitTiles ==
  ASSUME NEW V, NEW rows, NEW size, Splittable(V, rows, size),
         NEW f, IsSplit(f, V, rows, size), NEW w \in Intervals(V)
  PROVE  Tiles(f[w], ChunksOf(V), KeysIn(w))
<1> DEFINE Tiled(v) == Tiles(f[v], ChunksOf(V), KeysIn(v))
           Good == {m \in 0..w.rows : \A v \in Intervals(V) : v.rows <= m => Tiled(v)}
<1>0. V \subseteq Int /\ w.rows \in Nat
  BY DEF Splittable, Intervals
<1>1. ASSUME NEW v \in Intervals(V), \A u \in Intervals(V) : u.rows < v.rows => Tiled(u)
      PROVE  Tiled(v)
  <2> HIDE DEF Tiled
  <2>1. f[v] = Parts(f, rows, size, v)
    BY DEF IsSplit
  <2>2. CASE Mids(rows, size, v) = {}
    BY <1>0, <2>1, <2>2, OneTile DEF Parts, Tiled
  <2>3. CASE Mids(rows, size, v) # {}
    <3> DEFINE mid == CHOOSE k \in Mids(rows, size, v) : TRUE
    <3>1. mid \in Mids(rows, size, v)
      BY <2>3
    <3>2. f[v] = f[Lower(v, mid)] \o f[Upper(v, mid)]
      BY <2>1, <2>3 DEF Parts
    <3> HIDE DEF mid
    <3>3. /\ mid \in V /\ Within(v, mid)
          /\ Lower(v, mid) \in Intervals(V) /\ Lower(v, mid).rows < v.rows
          /\ Upper(v, mid) \in Intervals(V) /\ Upper(v, mid).rows < v.rows
      BY <3>1, CutIs
    <3>4. Tiled(Lower(v, mid)) /\ Tiled(Upper(v, mid))
      BY <1>1, <3>3
    <3>5. v.lo \in Int /\ v.hi \in Int /\ mid \in Int /\ v.incl \in BOOLEAN
      BY <1>0, <3>3 DEF Intervals
    <3>6. \A k \in Int : Within(Lower(v, mid), k) <=> Within(v, k) /\ k <= mid
      BY <3>3, <3>5 DEF Within, Lower
    <3>7. \A k \in Int : Within(Upper(v, mid), k) <=> Within(v, k) /\ mid < k
      BY <3>3, <3>5 DEF Within, Upper
    <3>8. \A k \in Int : ~(k <= mid /\ mid < k) /\ (k <= mid \/ mid < k)
      BY <3>5
    <3>9. /\ KeysIn(Lower(v, mid)) \cap KeysIn(Upper(v, mid)) = {}
          /\ KeysIn(v) = KeysIn(Lower(v, mid)) \cup KeysIn(Upper(v, mid))
      BY <3>6, <3>7, <3>8 DEF KeysIn
    <3> QED
      BY <3>2, <3>4, <3>9, TilesConcat DEF Tiled
  <2> QED
    BY <2>2, <2>3
<1> HIDE DEF Tiled
<1>2. 0 \in Good
  <2> SUFFICES ASSUME NEW v \in Intervals(V), v.rows <= 0 PROVE Tiled(v)
    BY <1>0
  <2>1. \A u \in Intervals(V) : ~(u.rows < v.rows)
    BY DEF Intervals
  <2> QED
    BY <1>1, <2>1
<1>3. \A m \in 0..(w.rows - 1) : m \in Good => m + 1 \in Good
  <2> SUFFICES ASSUME NEW m \in 0..(w.rows - 1), m \in Good,
                      NEW v \in Intervals(V), v.rows <= m + 1
               PROVE  Tiled(v)
    BY <1>0
  <2>1. \A u \in Intervals(V) : u.rows < v.rows => u.rows <= m
    BY DEF Intervals
  <2>2. \A u \in Intervals(V) : u.rows < v.rows => Tiled(u)
    BY <2>1
  <2> QED
    BY <1>1, <2>2
<1> HIDE DEF Good
<1>4. w.rows \in Good
  BY <1>0, <1>2, <1>3, UpTo
<1> QED
  BY <1>0, <1>4 DEF Good, Tiled

Whole(low, high, m) == [lo |-> low, hi |-> high, incl |-> TRUE, rows |-> m]

Renumber(all) == [i \in DOMAIN all |-> [all[i] EXCEPT !.id = i - 1]]

\* What is renumbered selects the same keys.
LEMMA Renumbered ==
  ASSUME NEW V, V \subseteq Int, NEW all, NEW S, S \subseteq Int, Tiles(all, ChunksOf(V), S)
  PROVE  Tiles(Renumber(all), ToSet(Renumber(all)), S)
<1> DEFINE q == Renumber(all)
<1> HIDE DEF q
<1>1. all \in Seq(ChunksOf(V)) /\ Len(all) \in Nat /\ DOMAIN all = 1..Len(all)
  BY DEF Tiles
<1>2. DOMAIN q = 1..Len(all) /\ q \in Seq(ToSet(q)) /\ Len(q) = Len(all)
  <2>1. q = [i \in 1..Len(all) |-> q[i]]
    BY <1>1 DEF q, Renumber
  <2>2. q \in [1..Len(all) -> ToSet(q)]
    BY <2>1 DEF ToSet
  <2>3. q \in Seq(ToSet(q))
    BY <1>1, <2>2
  <2> QED
    BY <1>1, <2>1, <2>3
<1>3. ASSUME NEW i \in 1..Len(all), NEW k \in Int
      PROVE  Selects(q[i], <<k>>) <=> Selects(all[i], <<k>>)
  <2>1. PICK w \in Intervals(V) : all[i] = IntervalChunk(w)
    BY <1>1 DEF ChunksOf
  <2>2. q[i] = [all[i] EXCEPT !.id = i - 1]
    BY <1>1 DEF q, Renumber
  <2>3. /\ q[i].lo = <<w.lo>> /\ q[i].loIncl = w.incl /\ q[i].hi = <<w.hi>> /\ q[i].prefix = 0
        /\ all[i].lo = <<w.lo>> /\ all[i].loIncl = w.incl /\ all[i].hi = <<w.hi>>
        /\ all[i].prefix = 0
    BY <2>1, <2>2 DEF IntervalChunk
  <2> QED
    BY <2>3, IntervalSelects
<1>4. \A i \in 1..Len(all), k \in Int : Selects(all[i], <<k>>) => k \in S
  BY DEF Tiles
<1>5. \A k \in S : k \in Int /\ \E i \in 1..Len(all) : Selects(all[i], <<k>>)
  BY DEF Tiles
<1>6. \A i, j \in 1..Len(all), k \in Int :
         Selects(all[i], <<k>>) /\ Selects(all[j], <<k>>) => i = j
  BY DEF Tiles
<1> QED
  BY <1>2, <1>3, <1>4, <1>5, <1>6 DEF Tiles, q

\* The chunks of the sampled splitter tile the span.
LEMMA SampledTiles ==
  ASSUME NEW V, NEW rows, NEW size, Splittable(V, rows, size), NEW low \in V, NEW high \in V,
         NEW n \in Nat
  PROVE  Tiles(Sampled(V, size, rows, low, high, n), ToSet(Sampled(V, size, rows, low, high, n)),
               KeysIn(Whole(low, high, n * size)))
<1> DEFINE split == CHOOSE f : IsSplit(f, V, rows, size)
           w     == Whole(low, high, n * size)
           all   == split[w]
           body(f) == [v \in [lo : V, hi : V, incl : BOOLEAN, rows : Nat] |->
                        LET half == v.rows \div 2
                            mids == IF v.rows <= size THEN {} ELSE RowAt(rows, IntervalChunk(v), half) \ {v.hi}
                        IN  IF mids = {} THEN << IntervalChunk(v) >>
                            ELSE LET mid == CHOOSE k \in mids : TRUE IN
                                 f[[lo |-> v.lo, hi |-> mid, incl |-> v.incl, rows |-> half]]
                                   \o f[[lo |-> mid, hi |-> v.hi, incl |-> FALSE, rows |-> v.rows - half]]]
           iter == CHOOSE f : f = body(f)
<1>1. Sampled(V, size, rows, low, high, n) =
        [i \in DOMAIN iter[w] |-> [iter[w][i] EXCEPT !.id = i - 1]]
  BY DEF Sampled, Whole, RowAt, IntervalChunk
<1>3. ASSUME NEW f PROVE f = body(f) <=> IsSplit(f, V, rows, size)
  <2>1. body(f) = [v \in Intervals(V) |-> Parts(f, rows, size, v)]
    BY DEF Intervals, Parts, Lower, Upper, Mids
  <2> QED
    BY <2>1 DEF IsSplit
<1> HIDE DEF body
<1>4. iter = split
  BY <1>3, Zenon
<1>5. IsSplit(split, V, rows, size)
  BY SplitExists
<1>6. w \in Intervals(V) /\ V \subseteq Int /\ KeysIn(w) \subseteq Int
  BY DEF Intervals, Whole, Splittable, KeysIn
<1> HIDE DEF split, iter, w
<1>7. Tiles(all, ChunksOf(V), KeysIn(w))
  BY <1>5, <1>6, SplitTiles
<1> HIDE DEF all
<1>8. Sampled(V, size, rows, low, high, n) = Renumber(all)
  BY <1>1, <1>4 DEF all, Renumber
<1>9. Tiles(Renumber(all), ToSet(Renumber(all)), KeysIn(w))
  BY <1>6, <1>7, Renumbered
<1> QED
  BY <1>8, <1>9 DEF w

\* The extremes of a set of rows are keys, and all its keys lie between.
LEMMA ExtremesAre ==
  ASSUME setting \in Settings, NEW rows \in SUBSET Row, rows # {}
  PROVE  /\ Extremes(rows)[1] \in Keys /\ Extremes(rows)[2] \in Keys
         /\ Extremes(rows) = <<Extremes(rows)[1], Extremes(rows)[2]>>
         /\ Extremes(rows)[1] <= Extremes(rows)[2]
         /\ \A r \in rows : r.k \in Extremes(rows)[1]..Extremes(rows)[2]
<1> DEFINE ks == {x.k : x \in rows}
<1>1. ks \in SUBSET Keys /\ ks \in SUBSET Int /\ ks # {} /\ \A r \in rows : r.k \in ks
  BY SettingFacts DEF Row
<1>2. IsFiniteSet(ks)
  <2>1. IsFiniteSet(Keys)
    BY RowAssumption DEF Keys
  <2> QED
    BY <1>1, <2>1, FS_Subset
<1>3. Extremes(rows) = <<Min(ks), Max(ks)>>
  BY DEF Extremes
<1> HIDE DEF ks
<1>4. Min(ks) \in ks /\ Max(ks) \in ks /\ \A x \in ks : Min(ks) <= x /\ x <= Max(ks)
  BY <1>1, <1>2, ExtremesOf
<1>5. \A x \in ks : x \in Int /\ x \in Keys
  BY <1>1
<1> QED
  BY <1>1, <1>3, <1>4, <1>5

Between(rows) == Extremes(rows)[1]..Extremes(rows)[2]

\* No key is in two ranges of the integer splitter.
LEMMA IntOnce ==
  ASSUME NEW low \in MinInt..MaxInt, NEW high \in MinInt..MaxInt, NEW n \in 2..Half,
         SpanSafe(low, high), NEW k \in KeysOf(1),
         NEW p \in DOMAIN IntBoundaries(low, high, n, 0),
         NEW q \in DOMAIN IntBoundaries(low, high, n, 0),
         Selects(IntBoundaries(low, high, n, 0)[p], k),
         Selects(IntBoundaries(low, high, n, 0)[q], k)
  PROVE  p = q
<1> DEFINE cols == 1
           prefix == 0
           C == IntBoundaries(low, high, n, prefix)
<1>1. k \in KeysOf(cols) /\ cols \in Nat \ {0} /\ prefix = IF cols > 1 THEN 1 ELSE 0
  OBVIOUS
<1>2. p \in DOMAIN C /\ q \in DOMAIN C /\ Selects(C[p], k) /\ Selects(C[q], k)
  OBVIOUS
<1>3. C = IntBoundaries(low, high, n, prefix)
  OBVIOUS
<1> HIDE DEF C, prefix, cols
<1> QED
  BY <1>1, <1>2, <1>3, IntRangesDisjoint

\* The integer splitter's ranges are a plan.
LEMMA IntTiles ==
  ASSUME NEW low \in MinInt..MaxInt, NEW high \in low..MaxInt, NEW n \in 2..Half,
         SpanSafe(low, high)
  PROVE  Tiles(IntBoundaries(low, high, n, 0), ToSet(IntBoundaries(low, high, n, 0)), low..high)
<1> DEFINE C == IntBoundaries(low, high, n, 0)
<1>1. low \in Int /\ high \in Int /\ high \in MinInt..MaxInt
  BY HalfAssumption DEF MaxInt, MinInt
<1>2. IntRanges(C, n, 0)
  BY <1>1, IntBoundariesType
<1>3. DOMAIN C = 1..Len(C) /\ Len(C) \in Nat /\ C \in Seq(ToSet(C))
  <2>1. PICK m \in 1..n : DOMAIN C = 1..m /\ Len(C) = m /\ C = [i \in 1..m |-> C[i]]
    BY <1>2 DEF IntRanges
  <2>2. m \in Nat
    BY HalfAssumption
  <2> HIDE DEF C
  <2>3. C \in [1..m -> ToSet(C)]
    BY <2>1 DEF ToSet
  <2> QED
    BY <2>1, <2>2, <2>3
<1>4. \A k \in Int : <<k>> \in KeysOf(1) /\ <<k>>[1] = k
  BY DEF KeysOf, Values
<1>5. ASSUME NEW i \in 1..Len(C), NEW k \in Int, Selects(C[i], <<k>>) PROVE k \in low..high
  BY <1>1, <1>3, <1>5, IntRangesWithin
<1>6. ASSUME NEW k \in low..high PROVE \E i \in 1..Len(C) : Selects(C[i], <<k>>)
  BY <1>1, <1>3, <1>4, IntRangesCover, 0 = IF 1 > 1 THEN 1 ELSE 0
<1>7. ASSUME NEW i \in 1..Len(C), NEW j \in 1..Len(C), NEW k \in Int,
             Selects(C[i], <<k>>), Selects(C[j], <<k>>)
      PROVE  i = j
  <2>1. i \in DOMAIN C /\ j \in DOMAIN C /\ <<k>> \in KeysOf(1)
    BY <1>3, <1>4
  <2> HIDE DEF C
  <2> QED
    BY <1>1, <1>7, <2>1, IntOnce DEF C
<1> HIDE DEF C
<1>8. Tiles(C, ToSet(C), low..high)
  BY <1>3, <1>5, <1>6, <1>7 DEF Tiles
<1> QED
  BY <1>8 DEF C

\* A plan selects every key between the extremes, once.
THEOREM PlanChunksIs ==
  ASSUME setting \in Settings, NEW rows \in SUBSET Row, rows # {}, NEW size \in Nat \ {0}
  PROVE  Tiles(PlanChunks(rows, size), ToSet(PlanChunks(rows, size)), Between(rows))
<1> DEFINE low  == Extremes(rows)[1]
           high == Extremes(rows)[2]
           n    == Ceil(Cardinality(rows), size)
<1>1. /\ Keys \subseteq Int /\ low \in Keys /\ high \in Keys /\ low <= high
      /\ \A r \in rows : r.k \in Keys
  BY ExtremesAre, SettingFacts DEF Row
<1>2. Cardinality(rows) \in Nat
  BY SettingFacts, FS_Subset, FS_CardinalityType
<1>3. n \in Nat
  <2>1. Cardinality(rows) + size - 1 \in Nat
    BY <1>2
  <2> QED
    BY <2>1 DEF Ceil
<1> HIDE DEF n, low, high
<1>4. PlanChunks(rows, size) =
        IF n > 1 /\ n <= MaxN /\ IntLead /\ high <= MaxInt /\ SpanSafe(low, high)
        THEN IntBoundaries(low, high, n, 0) ELSE Sampled(Keys, size, rows, low, high, n)
  BY DEF PlanChunks, n, low, high
<1>5. CASE n > 1 /\ n <= MaxN /\ IntLead /\ high <= MaxInt /\ SpanSafe(low, high)
  <2>1. Keys \subseteq MinInt..(MaxInt + Half)
    BY <1>5, SyncAssumption DEF IntLead, Keys
  <2>2. low \in MinInt..MaxInt /\ high \in low..MaxInt
    BY <1>1, <1>5, <2>1, HalfAssumption DEF MinInt, MaxInt
  <2>3. n \in 2..Half
    BY <1>3, <1>5, MaxNAssumption, HalfAssumption
  <2>4. Tiles(IntBoundaries(low, high, n, 0), ToSet(IntBoundaries(low, high, n, 0)), low..high)
    BY <1>5, <2>2, <2>3, IntTiles
  <2> QED
    BY <1>4, <1>5, <2>4 DEF Between, low, high
<1>6. CASE ~(n > 1 /\ n <= MaxN /\ IntLead /\ high <= MaxInt /\ SpanSafe(low, high))
  <2>1. Splittable(Keys, rows, size)
    BY <1>1 DEF Splittable
  <2>2. Tiles(Sampled(Keys, size, rows, low, high, n), ToSet(Sampled(Keys, size, rows, low, high, n)),
              KeysIn(Whole(low, high, n * size)))
    BY <1>1, <1>3, <2>1, SampledTiles
  <2>3. KeysIn(Whole(low, high, n * size)) = low..high
    <3>1. low \in Int /\ high \in Int
      BY <1>1
    <3>2. \A k \in Int : Within(Whole(low, high, n * size), k) <=> k \in low..high
      BY <3>1 DEF Within, Whole
    <3> QED
      BY <3>1, <3>2 DEF KeysIn
  <2> QED
    BY <1>4, <1>6, <2>2, <2>3 DEF Between, low, high
<1> QED
  BY <1>5, <1>6

-----------------------------------------------------------------------------
(***************************************************************************)
(* What a transaction that is not rejected leaves: the rows whose keys no  *)
(* op addresses, the rows the ops write, and nothing else.                 *)
(***************************************************************************)
InTable(r, t) == t.dup \/ (r \in t.rows /\ r.k \notin t.dels)

\* The rows the table will have once everything batched is flushed.
Seen(r, t) == (r \in t.rows /\ r.k \notin t.dels) \/ r \in ToSet(t.pend)

Gives(op, r) == \/ op.kind = "insert" /\ r = op.rows[1]
                \/ op.kind = "rewrite" /\ r \in ToSet(op.rows)
Updates(op, r) == op.kind = "update" /\ r.k \in op.keys /\ r = [op.rows[1] EXCEPT !.k = r.k]

\* The pending rows after one more.
LEMMA PendOf ==
  ASSUME NEW T, NEW pend \in Seq(T), NEW row \in T
  PROVE  ToSet(Append(pend, row)) = ToSet(pend) \cup {row}
<1> DEFINE a == Append(pend, row)
<1>1. /\ DOMAIN a = 1..(Len(pend) + 1) /\ DOMAIN pend = 1..Len(pend)
      /\ a[Len(pend) + 1] = row /\ \A i \in 1..Len(pend) : a[i] = pend[i]
      /\ Len(pend) \in Nat
  OBVIOUS
<1> HIDE DEF a
<1>2. \A i \in 1..(Len(pend) + 1) : i \in 1..Len(pend) \/ i = Len(pend) + 1
  BY <1>1
<1>3. \A i \in 1..Len(pend) : i \in 1..(Len(pend) + 1)
  BY <1>1
<1>4. Len(pend) + 1 \in 1..(Len(pend) + 1)
  BY <1>1
<1>5. ToSet(a) = ToSet(pend) \cup {row}
  BY <1>1, <1>2, <1>3, <1>4 DEF ToSet
<1> QED
  BY <1>5 DEF a

\* Flushing the batched deletes shows nothing new and hides nothing.
LEMMA FlushDeletesShows ==
  ASSUME NEW K, NEW t \in TxType(K)
  PROVE  /\ \A r : Seen(r, FlushDeletes(t)) <=> Seen(r, t)
         /\ \A r : InTable(r, t) => InTable(r, FlushDeletes(t))
         /\ FlushDeletes(t).pend = t.pend /\ FlushDeletes(t).dup = t.dup
         /\ FlushDeletes(t).rows \subseteq t.rows
<1> DEFINE rest == {x \in t.rows : x.k \notin t.dels}
<1>1. FlushDeletes(t) = [rows |-> rest, dels |-> {}, pend |-> t.pend, dup |-> t.dup]
  BY FlushDeletesIs
<1>2. \A r : r \in rest <=> r \in t.rows /\ r.k \notin t.dels
  OBVIOUS
<1> HIDE DEF rest
<1> DEFINE f == FlushDeletes(t)
<1> HIDE DEF f
<1>3. f.rows = rest /\ f.dels = {} /\ f.pend = t.pend /\ f.dup = t.dup
  BY <1>1 DEF f
<1>4. \A r : Seen(r, f) <=> Seen(r, t)
  BY <1>2, <1>3 DEF Seen
<1>5. \A r : InTable(r, t) => InTable(r, f)
  BY <1>2, <1>3 DEF InTable
<1> QED
  BY <1>2, <1>3, <1>4, <1>5 DEF f

\* Flush writes what is pending and takes nothing away.
LEMMA FlushShows ==
  ASSUME NEW K, NEW t \in TxType(K), t.dels = {}
  PROVE  /\ ~Flush(t).dup => ~t.dup /\ \A r : Seen(r, t) <=> r \in Flush(t).rows
         /\ \A r : Seen(r, Flush(t)) => Seen(r, t)
         /\ \A r : InTable(r, t) => InTable(r, Flush(t))
         /\ Flush(t).pend = <<>> /\ Flush(t).dels = {}
<1> DEFINE bad == FlushBad(t)
           new == IF bad THEN t.rows ELSE t.rows \cup ToSet(t.pend)
           f   == Flush(t)
<1>1. f = [rows |-> new, dels |-> t.dels, pend |-> <<>>, dup |-> t.dup \/ bad]
  BY FlushIs
<1>2. /\ \A r : r \in new => r \in t.rows \/ r \in ToSet(t.pend)
      /\ ~bad => \A r : r \in new <=> r \in t.rows \/ r \in ToSet(t.pend)
      /\ \A r : r \in t.rows => r \in new
  OBVIOUS
<1> HIDE DEF bad, new, f
<1>3. f.rows = new /\ f.dels = {} /\ f.pend = <<>>
  BY <1>1
<1>4. f.dup = (t.dup \/ bad)
  BY <1>1
<1>5. ~f.dup => ~t.dup /\ ~bad
  BY <1>4, Zenon
<1>6. t.dup => f.dup
  BY <1>4, Zenon
<1>7. ToSet(f.pend) = {}
  BY <1>3 DEF ToSet
<1>8. \A r : Seen(r, t) <=> r \in t.rows \/ r \in ToSet(t.pend)
  BY DEF Seen
<1>9. \A r : Seen(r, f) => Seen(r, t)
  BY <1>2, <1>3, <1>7, <1>8 DEF Seen
<1>10. \A r : InTable(r, t) => InTable(r, f)
  BY <1>2, <1>3, <1>6 DEF InTable
<1>11. ~f.dup => ~t.dup /\ \A r : Seen(r, t) <=> r \in f.rows
  BY <1>2, <1>3, <1>5, <1>8
<1> QED
  BY <1>3, <1>9, <1>10, <1>11 DEF f

\* AddInsert adds one row to what will be in the table.
LEMMA AddInsertShows ==
  ASSUME NEW K, NEW stay, NEW t, TxOK(t, K, stay), t.dels = {}, NEW row \in Matching(Row)
  PROVE  /\ ~AddInsert(t, row).dup => ~t.dup
         /\ \A r : Seen(r, AddInsert(t, row)) => Seen(r, t) \/ r = row
         /\ \A r : r \in ToSet(AddInsert(t, row).pend) => r \in ToSet(t.pend) \/ r = row
         /\ \A r : InTable(r, t) => InTable(r, AddInsert(t, row))
<1> DEFINE room == IF Len(t.pend) >= Batch THEN Flush(t) ELSE t
           a    == AddInsert(t, row)
<1>1. TxOK(room, K, stay) /\ room.dels = {}
  BY FlushOK
<1>2. /\ ~room.dup => ~t.dup
      /\ \A r : Seen(r, room) => Seen(r, t)
      /\ \A r : InTable(r, t) => InTable(r, room)
      /\ \A r : r \in ToSet(room.pend) => r \in ToSet(t.pend)
  <2>1. CASE Len(t.pend) >= Batch
    <3>1. room = Flush(t) /\ t \in TxType(K)
      BY <2>1 DEF TxOK
    <3>2. ToSet(<<>>) = {}
      BY DEF ToSet
    <3> HIDE DEF room
    <3> QED
      BY <3>1, <3>2, FlushShows
  <2>2. CASE ~(Len(t.pend) >= Batch)
    <3>1. room = t
      BY <2>2
    <3> HIDE DEF room
    <3> QED
      BY <3>1
  <2> QED
    BY <2>1, <2>2
<1> HIDE DEF room
<1>3. a = [rows |-> room.rows, dels |-> room.dels, pend |-> Append(room.pend, row), dup |-> room.dup]
  BY <1>1, AddInsertIs DEF TxOK, room
<1>4. ToSet(Append(room.pend, row)) = ToSet(room.pend) \cup {row}
  <2>1. room.pend \in Seq(Matching(Row))
    BY <1>1 DEF TxOK, TxType
  <2> QED
    BY <2>1, PendOf
<1> HIDE DEF a
<1>5. a.rows = room.rows /\ a.dels = room.dels /\ a.dup = room.dup
      /\ ToSet(a.pend) = ToSet(room.pend) \cup {row}
  BY <1>3, <1>4
<1>6. \A r : Seen(r, a) => Seen(r, room) \/ r = row
  BY <1>5 DEF Seen
<1>7. \A r : InTable(r, room) => InTable(r, a)
  BY <1>5 DEF InTable
<1> QED
  BY <1>2, <1>5, <1>6, <1>7 DEF a

\* UpdateRow changes the rows of its key and no other.
LEMMA UpdateShows ==
  ASSUME NEW K, NEW stay, NEW t, TxOK(t, K, stay), t.dels = {}, NEW key, NEW row \in Row
  PROVE  /\ ~UpdateRow(t, key, row).dup => ~t.dup
         /\ UpdateRow(t, key, row).pend = t.pend
         /\ \A r : InTable(r, t) /\ r.k # key => InTable(r, UpdateRow(t, key, row))
         /\ \A r : InTable(r, t) /\ r.k = key =>
              InTable([row EXCEPT !.k = key], UpdateRow(t, key, row))
         /\ ~UpdateRow(t, key, row).dup =>
              \A r : Seen(r, UpdateRow(t, key, row)) =>
                \/ r \in ToSet(t.pend)
                \/ Seen(r, t) /\ r.k # key
                \/ r.k = key /\ r = [row EXCEPT !.k = r.k]
<1> DEFINE bad == UpdateBad(t.rows, key, row)
           rec == [row EXCEPT !.k = key]
           new == IF bad THEN t.rows
                  ELSE (t.rows \ AtKey(t.rows, key)) \cup Updated(t.rows, key, row)
           u   == UpdateRow(t, key, row)
<1>1. u = [rows |-> new, dels |-> t.dels, pend |-> t.pend, dup |-> t.dup \/ bad]
  BY UpdateIs DEF TxOK
<1>2. rec.k = key
  BY DEF Row
<1>3. /\ ~bad => \A r : r \in new <=>
                   (r \in t.rows /\ r.k # key) \/ (r = rec /\ \E x \in t.rows : x.k = key)
      /\ bad => new = t.rows
  BY DEF AtKey, Updated
<1> HIDE DEF bad, rec, new, u
<1>4. u.rows = new /\ u.dels = {} /\ u.pend = t.pend
  BY <1>1
<1>5. u.dup = (t.dup \/ bad)
  BY <1>1
<1>6. /\ ~u.dup => ~t.dup /\ ~bad
      /\ t.dup \/ bad => u.dup
  BY <1>5, Zenon
<1>7. \A r : InTable(r, t) /\ r.k # key => InTable(r, u)
  BY <1>3, <1>4, <1>6 DEF InTable
<1>8. \A r : InTable(r, t) /\ r.k = key => InTable(rec, u)
  BY <1>3, <1>4, <1>6 DEF InTable
<1>9. ~u.dup => \A r : Seen(r, u) =>
                  \/ r \in ToSet(t.pend)
                  \/ Seen(r, t) /\ r.k # key
                  \/ r = rec
  BY <1>3, <1>4, <1>6 DEF Seen
<1>10. \A r : r = rec => r.k = key /\ r = [row EXCEPT !.k = r.k]
  BY <1>2 DEF rec
<1> QED
  BY <1>4, <1>6, <1>7, <1>8, <1>9, <1>10 DEF u, rec

\* The inserts of a rewrite, one after the other.
LEMMA RowsShow ==
  ASSUME NEW K, NEW stay, NEW t, TxOK(t, K, stay), t.dels = {}, NEW rows \in Seq(Matching(Row))
  PROVE  /\ ~FoldOfRows(t, rows).dup => ~t.dup
         /\ \A r : Seen(r, FoldOfRows(t, rows)) => Seen(r, t) \/ r \in ToSet(rows)
         /\ \A r : r \in ToSet(FoldOfRows(t, rows).pend) => r \in ToSet(t.pend) \/ r \in ToSet(rows)
         /\ \A r : InTable(r, t) => InTable(r, FoldOfRows(t, rows))
         /\ \A r : InPlace(r, t) \/ r \in ToSet(rows) => InPlace(r, FoldOfRows(t, rows))
<1> DEFINE n == Len(rows)
<1>1. PICK g : /\ g[0] = t /\ FoldOfRows(t, rows) = g[n]
               /\ \A i \in 1..n : g[i] = AddInsert(g[i - 1], rows[i])
  BY FoldRows
<1>0. n \in Nat /\ (\A i \in 1..n : rows[i] \in Matching(Row))
      /\ \A x : x \in ToSet(rows) <=> \E i \in 1..n : rows[i] = x
  BY DEF ToSet
<1> DEFINE Given(r, i) == \E j \in 1..i : rows[j] = r
           OK(i) ==
             /\ TxOK(g[i], K, stay) /\ g[i].dels = {}
             /\ ~g[i].dup => ~t.dup
             /\ \A r : Seen(r, g[i]) => Seen(r, t) \/ r \in ToSet(rows)
             /\ \A r : r \in ToSet(g[i].pend) => r \in ToSet(t.pend) \/ r \in ToSet(rows)
             /\ \A r : InTable(r, t) => InTable(r, g[i])
             /\ \A r : InPlace(r, t) \/ Given(r, i) => InPlace(r, g[i])
           Good == {i \in 0..n : OK(i)}
<1> HIDE DEF n, OK
<1>2. OK(0)
  <2>1. \A r : ~Given(r, 0)
    OBVIOUS
  <2> QED
    BY <1>0, <1>1, <2>1 DEF OK
<1>3. ASSUME NEW i \in 0..(n - 1), OK(i)
      PROVE  OK(i + 1)
  <2>1. i + 1 \in 1..n /\ (i + 1) - 1 = i
    BY <1>0
  <2>2. g[i + 1] = AddInsert(g[i], rows[i + 1]) /\ rows[i + 1] \in Matching(Row)
        /\ rows[i + 1] \in ToSet(rows)
    BY <1>0, <1>1, <2>1
  <2>3. \A r : Given(r, i + 1) => Given(r, i) \/ r = rows[i + 1]
    <3>1. \A j \in 1..(i + 1) : j \in 1..i \/ j = i + 1
      OBVIOUS
    <3> QED
      BY <3>1
  <2> DEFINE row == rows[i + 1]
             old == g[i]
             new == AddInsert(old, row)
  <2>4. TxOK(old, K, stay) /\ old.dels = {} /\ row \in Matching(Row)
    BY <1>3, <2>2 DEF OK
  <2> HIDE DEF row, old
  <2>5. TxOK(new, K, stay) /\ new.dels = {}
    BY <2>4, AddInsertOK
  <2>6. /\ InPlace(row, new)
        /\ \A r : InPlace(r, old) => InPlace(r, new)
    BY <2>4, AddInsertKeeps
  <2>7. /\ ~new.dup => ~old.dup
        /\ \A r : Seen(r, new) => Seen(r, old) \/ r = row
        /\ \A r : r \in ToSet(new.pend) => r \in ToSet(old.pend) \/ r = row
        /\ \A r : InTable(r, old) => InTable(r, new)
    BY <2>4, AddInsertShows
  <2> HIDE DEF Given, new
  <2>8. g[i + 1] = new /\ row \in ToSet(rows)
        /\ \A r : Given(r, i + 1) => Given(r, i) \/ r = row
    BY <2>2, <2>3 DEF row, new, old
  <2>9. /\ ~old.dup => ~t.dup
        /\ \A r : Seen(r, old) => Seen(r, t) \/ r \in ToSet(rows)
        /\ \A r : r \in ToSet(old.pend) => r \in ToSet(t.pend) \/ r \in ToSet(rows)
        /\ \A r : InTable(r, t) => InTable(r, old)
        /\ \A r : InPlace(r, t) \/ Given(r, i) => InPlace(r, old)
    BY <1>3 DEF OK, old
  <2> QED
    BY <2>5, <2>6, <2>7, <2>8, <2>9 DEF OK
<1> HIDE DEF Given
<1>4. OK(n)
  <2>1. 0 \in Good /\ \A i \in 0..(n - 1) : i \in Good => i + 1 \in Good
    <3>1. 0 \in 0..n /\ \A i \in 0..(n - 1) : i \in 0..n /\ i + 1 \in 0..n
      BY <1>0
    <3> QED
      BY <1>2, <1>3, <3>1
  <2> HIDE DEF Good
  <2>2. 0..n \subseteq Good
    BY <1>0, <2>1, UpTo
  <2>3. n \in 0..n
    BY <1>0
  <2> QED
    BY <2>2, <2>3 DEF Good
<1>6. \A r : r \in ToSet(rows) => Given(r, n)
  BY <1>0 DEF Given
<1> QED
  BY <1>1, <1>4, <1>6 DEF OK

\* The transaction a rewrite inserts its rows into.
Cleared(t, ks) == FlushDeletes([FlushDeletes(t) EXCEPT !.dels = ks])

\* What is left once the keys ks are deleted.
LEMMA ClearedShows ==
  ASSUME NEW K, NEW stay, Apart(K, stay), NEW t, TxOK(t, K, stay), NEW ks \in SUBSET K
  PROVE  /\ TxOK(Cleared(t, ks), K, stay) /\ Cleared(t, ks).dels = {}
         /\ Cleared(t, ks).dup = t.dup /\ Cleared(t, ks).pend = t.pend
         /\ \A r : Seen(r, Cleared(t, ks)) => r \in ToSet(t.pend) \/ (Seen(r, t) /\ r.k \notin ks)
         /\ \A r : InTable(r, t) /\ r.k \notin ks => InTable(r, Cleared(t, ks))
         /\ \A r : InPlace(r, t) /\ r.k \notin ks => InPlace(r, Cleared(t, ks))
<1> DEFINE f == FlushDeletes(t)
           e == [f EXCEPT !.dels = ks]
           c == FlushDeletes(e)
<1>1. TxOK(f, K, stay) /\ f.dels = {}
  BY FlushDeletesOK
<1>2. /\ \A r : Seen(r, f) <=> Seen(r, t)
      /\ \A r : InTable(r, t) => InTable(r, f)
      /\ f.pend = t.pend /\ f.dup = t.dup
  BY FlushDeletesShows DEF TxOK
<1> HIDE DEF f
<1>3. TxOK(e, K, stay)
  BY <1>1, SetDelsOK
<1>4. e = [rows |-> f.rows, dels |-> ks, pend |-> f.pend, dup |-> f.dup]
  BY <1>1, SetDels DEF TxOK
<1> HIDE DEF e
<1>5. e.rows = f.rows /\ e.dels = ks /\ e.pend = f.pend /\ e.dup = f.dup
  BY <1>4
<1>6. TxOK(c, K, stay) /\ c.dels = {}
  BY <1>3, FlushDeletesOK
<1>7. /\ \A r : Seen(r, c) <=> Seen(r, e)
      /\ \A r : InTable(r, e) => InTable(r, c)
      /\ c.pend = e.pend /\ c.dup = e.dup
  BY <1>3, FlushDeletesShows DEF TxOK
<1> HIDE DEF c
<1>8. \A r : Seen(r, e) => r \in ToSet(f.pend) \/ (Seen(r, f) /\ r.k \notin ks)
  BY <1>1, <1>5 DEF Seen
<1>9. \A r : InTable(r, f) /\ r.k \notin ks => InTable(r, e)
  BY <1>1, <1>5 DEF InTable
<1>10. \A r : InPlace(r, t) <=> InTable(r, t) \/ r \in ToSet(t.pend)
  BY DEF InPlace, InTable
<1>11. \A r : InPlace(r, c) <=> InTable(r, c) \/ r \in ToSet(c.pend)
  BY DEF InPlace, InTable
<1>12. c.dup = t.dup
  BY <1>2, <1>5, <1>7
<1> QED
  BY <1>2, <1>5, <1>6, <1>7, <1>8, <1>9, <1>10, <1>11, <1>12 DEF Cleared, c, e, f

OneKey(op) == op.kind = "update" => \E k : op.keys = {k}
Addresses(op, k) == op.kind # "insert" /\ k \in op.keys

\* One op takes the transaction t to u.
Does(t, op, u) ==
  /\ ~u.dup => ~t.dup
  /\ \A r : r \in ToSet(u.pend) => r \in ToSet(t.pend) \/ Gives(op, r)
  /\ \A r : InTable(r, t) /\ ~Addresses(op, r.k) => InTable(r, u)
  /\ \A r : InPlace(r, t) /\ ~Addresses(op, r.k) => InPlace(r, u)
  /\ \A r : Gives(op, r) => InPlace(r, u)
  /\ op.kind = "update" => \A r : op.keys = {r.k} /\ InTable(r, t) =>
       InTable([op.rows[1] EXCEPT !.k = r.k], u)
  /\ ~u.dup => \A r : Seen(r, u) =>
       \/ r \in ToSet(t.pend) \/ Gives(op, r) \/ Updates(op, r)
       \/ Seen(r, t) /\ ~Addresses(op, r.k)

\* In place is in the table or pending.
LEMMA InPlaceIs ==
  ASSUME NEW r, NEW t
  PROVE  InPlace(r, t) <=> InTable(r, t) \/ r \in ToSet(t.pend)
  BY DEF InPlace, InTable

\* A delete op changes the table as Does says.
LEMMA DeleteDoes ==
  ASSUME NEW K, NEW stay, Apart(K, stay), NEW t, TxOK(t, K, stay),
         NEW op \in OpsOver(K), op.kind = "delete"
  PROVE  Does(t, op, RunOp(t, op))
<1> DEFINE u == RunOp(t, op)
<1>1. u = [rows |-> t.rows, dels |-> t.dels \cup op.keys, pend |-> t.pend, dup |-> t.dup]
  <2>1. RunOp(t, op) = [t EXCEPT !.dels = t.dels \cup op.keys]
    BY RunOpCases
  <2> QED
    BY <2>1, SetDels DEF TxOK
<1> HIDE DEF u
<1>2. u.rows = t.rows /\ u.dels = t.dels \cup op.keys /\ u.pend = t.pend /\ u.dup = t.dup
  BY <1>1
<1>3. \A r : InTable(r, t) /\ r.k \notin op.keys => InTable(r, u)
  BY <1>2 DEF InTable
<1>4. \A r : InPlace(r, t) /\ r.k \notin op.keys => InPlace(r, u)
  BY <1>2, <1>3, InPlaceIs
<1>5. \A r : Seen(r, u) => r \in ToSet(t.pend) \/ (Seen(r, t) /\ r.k \notin op.keys)
  BY <1>2 DEF Seen
<1>6. \A r : ~Gives(op, r) /\ (Addresses(op, r.k) <=> r.k \in op.keys)
  BY DEF Gives, Addresses
<1>7. Does(t, op, u)
  BY <1>2, <1>3, <1>4, <1>5, <1>6 DEF Does
<1> QED
  BY <1>7 DEF u

\* An insert op changes the table as Does says.
LEMMA InsertDoes ==
  ASSUME NEW K, NEW stay, Apart(K, stay), NEW t, TxOK(t, K, stay),
         NEW op \in OpsOver(K), op.kind = "insert"
  PROVE  Does(t, op, RunOp(t, op))
<1> DEFINE f == FlushDeletes(t)
           row == op.rows[1]
           u == AddInsert(f, row)
<1>1. RunOp(t, op) = u /\ row \in Matching(Row)
  BY RunOpCases
<1>2. TxOK(f, K, stay) /\ f.dels = {}
  BY FlushDeletesOK
<1>3. /\ \A r : Seen(r, f) <=> Seen(r, t)
      /\ \A r : InTable(r, t) => InTable(r, f)
      /\ f.pend = t.pend /\ f.dup = t.dup
  BY FlushDeletesShows DEF TxOK
<1>4. \A r : (Gives(op, r) <=> r = row) /\ ~Addresses(op, r.k)
  BY DEF Gives, Addresses
<1> HIDE DEF f, row
<1>5. \A r : InPlace(r, t) => InPlace(r, f)
  BY <1>3, InPlaceIs
<1>6. /\ InPlace(row, u)
      /\ \A r : InPlace(r, f) => InPlace(r, u)
  BY <1>1, <1>2, AddInsertKeeps
<1>7. /\ ~u.dup => ~f.dup
      /\ \A r : Seen(r, u) => Seen(r, f) \/ r = row
      /\ \A r : r \in ToSet(u.pend) => r \in ToSet(f.pend) \/ r = row
      /\ \A r : InTable(r, f) => InTable(r, u)
  BY <1>1, <1>2, AddInsertShows
<1> HIDE DEF u
<1>8. ~u.dup => ~t.dup
  BY <1>3, <1>7
<1>9. Does(t, op, u)
  BY <1>3, <1>4, <1>5, <1>6, <1>7, <1>8 DEF Does
<1> QED
  BY <1>1, <1>9

\* An update op changes the table as Does says.
LEMMA UpdateDoes ==
  ASSUME NEW K, NEW stay, Apart(K, stay), NEW t, TxOK(t, K, stay),
         NEW op \in OpsOver(K), op.kind = "update", OneKey(op)
  PROVE  Does(t, op, RunOp(t, op))
<1> DEFINE f == FlushDeletes(t)
           row == op.rows[1]
           key == CHOOSE k \in op.keys : TRUE
           u == UpdateRow(f, key, row)
<1>1. RunOp(t, op) = u /\ row \in Row /\ op.keys = {key}
  BY RunOpCases DEF Matching, OneKey
<1>2. TxOK(f, K, stay) /\ f.dels = {}
  BY FlushDeletesOK
<1>3. /\ \A r : Seen(r, f) <=> Seen(r, t)
      /\ \A r : InTable(r, t) => InTable(r, f)
      /\ f.pend = t.pend /\ f.dup = t.dup
  BY FlushDeletesShows DEF TxOK
<1>4. \A r : ~Gives(op, r) /\ (Addresses(op, r.k) <=> r.k \in op.keys)
  BY DEF Gives, Addresses
<1>5. \A r : Updates(op, r) <=> r.k \in op.keys /\ r = [row EXCEPT !.k = r.k]
  BY DEF Updates
<1> HIDE DEF f, row, key
<1>6. /\ ~u.dup => ~f.dup
      /\ u.pend = f.pend
      /\ \A r : InTable(r, f) /\ r.k # key => InTable(r, u)
      /\ \A r : InTable(r, f) /\ r.k = key => InTable([row EXCEPT !.k = key], u)
      /\ ~u.dup => \A r : Seen(r, u) =>
           \/ r \in ToSet(f.pend)
           \/ Seen(r, f) /\ r.k # key
           \/ r.k = key /\ r = [row EXCEPT !.k = r.k]
  BY <1>1, <1>2, UpdateShows
<1> HIDE DEF u
<1>7. \A r : InTable(r, t) /\ r.k \notin op.keys => InTable(r, u)
  BY <1>1, <1>3, <1>6
<1>8. \A r : InPlace(r, t) /\ r.k \notin op.keys => InPlace(r, u)
  BY <1>3, <1>6, <1>7, InPlaceIs
<1>9. ASSUME NEW r, op.keys = {r.k}, InTable(r, t)
      PROVE  InTable([row EXCEPT !.k = r.k], u)
  <2>1. key = r.k
    BY <1>1, <1>9
  <2> QED
    BY <1>3, <1>6, <1>9, <2>1
<1>10. ASSUME ~u.dup, NEW r, Seen(r, u)
       PROVE  \/ r \in ToSet(t.pend) \/ Updates(op, r)
              \/ Seen(r, t) /\ r.k \notin op.keys
  <2> USE <1>10
  <2>1. \/ r \in ToSet(t.pend)
        \/ Seen(r, t) /\ r.k # key
        \/ r.k = key /\ r = [row EXCEPT !.k = r.k]
    BY <1>3, <1>6
  <2> QED
    BY <2>1, <1>1, <1>5
<1>11. Does(t, op, u)
  BY <1>3, <1>4, <1>6, <1>7, <1>8, <1>9, <1>10 DEF Does, row
<1> QED
  BY <1>1, <1>11

\* A rewrite op changes the table as Does says.
LEMMA RewriteDoes ==
  ASSUME NEW K, NEW stay, Apart(K, stay), NEW t, TxOK(t, K, stay),
         NEW op \in OpsOver(K), op.kind = "rewrite"
  PROVE  Does(t, op, RunOp(t, op))
<1> DEFINE c == Cleared(t, op.keys)
           u == FoldOfRows(c, op.rows)
<1>1. RunOp(t, op) = u /\ op.keys \in SUBSET K /\ op.rows \in Seq(Matching(Row))
  BY RunOpCases DEF Cleared
<1>2. \A r : (Gives(op, r) <=> r \in ToSet(op.rows)) /\ (Addresses(op, r.k) <=> r.k \in op.keys)
  BY DEF Gives, Addresses
<1>3. /\ TxOK(c, K, stay) /\ c.dels = {} /\ c.dup = t.dup /\ c.pend = t.pend
      /\ \A r : Seen(r, c) => r \in ToSet(t.pend) \/ (Seen(r, t) /\ r.k \notin op.keys)
      /\ \A r : InTable(r, t) /\ r.k \notin op.keys => InTable(r, c)
      /\ \A r : InPlace(r, t) /\ r.k \notin op.keys => InPlace(r, c)
  BY <1>1, ClearedShows
<1> HIDE DEF c
<1>4. /\ ~u.dup => ~c.dup
      /\ \A r : Seen(r, u) => Seen(r, c) \/ r \in ToSet(op.rows)
      /\ \A r : r \in ToSet(u.pend) => r \in ToSet(c.pend) \/ r \in ToSet(op.rows)
      /\ \A r : InTable(r, c) => InTable(r, u)
      /\ \A r : InPlace(r, c) \/ r \in ToSet(op.rows) => InPlace(r, u)
  BY <1>1, <1>3, RowsShow
<1> HIDE DEF u
<1>5. ~u.dup => ~t.dup
  BY <1>3, <1>4, Zenon
<1>6. Does(t, op, u)
  BY <1>2, <1>3, <1>4, <1>5 DEF Does
<1> QED
  BY <1>1, <1>6

\* Every op changes the table as Does says.
LEMMA RunOpDoes ==
  ASSUME NEW K, NEW stay, Apart(K, stay), NEW t, TxOK(t, K, stay),
         NEW op \in OpsOver(K), OneKey(op)
  PROVE  Does(t, op, RunOp(t, op))
<1>1. op.kind \in {"delete", "insert", "update", "rewrite"}
  BY RunOpCases
<1> QED
  BY <1>1, DeleteDoes, InsertDoes, UpdateDoes, RewriteDoes

\* The states of a transaction that runs the ops one by one.
Trace(g, K, stay, rows, ops) ==
  /\ ops \in Seq(OpsOver(K)) /\ g[0] = Begin(rows)
  /\ \A i \in 0..Len(ops) : TxOK(g[i], K, stay)
  /\ \A i \in 1..Len(ops) : Does(g[i - 1], ops[i], g[i])

\* The fold of RunOps has its intermediate states.
LEMMA TraceExists ==
  ASSUME NEW K, NEW stay, Apart(K, stay), NEW rows, TableOK(rows, stay),
         NEW ops \in Seq(OpsOver(K)), \A i \in 1..Len(ops) : OneKey(ops[i])
  PROVE  \E g : /\ Trace(g, K, stay, rows, ops)
                /\ RunOps(rows, ops) = Flush(FlushDeletes(g[Len(ops)]))
<1>1. PICK g : /\ g[0] = Begin(rows) /\ FoldOfOps(Begin(rows), ops) = g[Len(ops)]
               /\ \A i \in 1..Len(ops) : g[i] = RunOp(g[i - 1], ops[i])
  BY FoldOps
<1> DEFINE n == Len(ops)
           Good == {i \in 0..n : TxOK(g[i], K, stay)}
<1>2. n \in Nat /\ \A i \in 1..n : ops[i] \in OpsOver(K)
  OBVIOUS
<1> HIDE DEF n
<1>3. 0 \in Good
  BY <1>1, <1>2, BeginIs
<1>4. \A i \in 0..(n - 1) : i \in Good => i + 1 \in Good
  <2> SUFFICES ASSUME NEW i \in 0..(n - 1), TxOK(g[i], K, stay)
               PROVE  TxOK(g[i + 1], K, stay) /\ i + 1 \in 0..n
    OBVIOUS
  <2>1. i + 1 \in 1..n /\ i + 1 \in 0..n /\ (i + 1) - 1 = i
    BY <1>2
  <2>2. g[i + 1] = RunOp(g[i], ops[i + 1]) /\ ops[i + 1] \in OpsOver(K)
    BY <1>1, <1>2, <2>1 DEF n
  <2> QED
    BY <2>1, <2>2, RunOpOK
<1> HIDE DEF Good
<1>5. 0..n \subseteq Good
  BY <1>2, <1>3, <1>4, UpTo
<1>6. \A i \in 0..n : TxOK(g[i], K, stay)
  BY <1>5 DEF Good
<1>7. ASSUME NEW i \in 1..n PROVE Does(g[i - 1], ops[i], g[i])
  <2>1. i - 1 \in 0..n
    BY <1>2
  <2>2. TxOK(g[i - 1], K, stay) /\ ops[i] \in OpsOver(K) /\ OneKey(ops[i])
    BY <1>2, <1>6, <2>1 DEF n
  <2>3. g[i] = RunOp(g[i - 1], ops[i])
    BY <1>1 DEF n
  <2> QED
    BY <2>2, <2>3, RunOpDoes
<1>8. Trace(g, K, stay, rows, ops)
  BY <1>1, <1>6, <1>7 DEF Trace, n
<1>9. RunOps(rows, ops) = Flush(FlushDeletes(g[Len(ops)]))
  BY <1>1 DEF RunOps, FoldOfOps
<1> QED
  BY <1>8, <1>9

\* A row in place after m ops is in place at the end if no later op
\* addresses its key.
LEMMA TraceKeeps ==
  ASSUME NEW g, NEW K, NEW stay, NEW rows, NEW ops, Trace(g, K, stay, rows, ops),
         NEW m \in 0..Len(ops), NEW r, InPlace(r, g[m]),
         \A i \in (m + 1)..Len(ops) : ~Addresses(ops[i], r.k)
  PROVE  InPlace(r, g[Len(ops)])
<1> DEFINE n == Len(ops)
           Good == {i \in 0..n : i >= m => InPlace(r, g[i])}
<1>1. n \in Nat /\ \A i \in 1..n : Does(g[i - 1], ops[i], g[i])
  BY DEF Trace
<1> HIDE DEF n
<1>2. m \in 0..n /\ \A i \in (m + 1)..n : ~Addresses(ops[i], r.k)
  BY DEF n
<1>3. 0 \in Good
  <2>1. 0 >= m => m = 0
    BY <1>1, <1>2
  <2> QED
    BY <1>1, <2>1
<1>4. \A i \in 0..(n - 1) : i \in Good => i + 1 \in Good
  <2> SUFFICES ASSUME NEW i \in 0..(n - 1), i >= m => InPlace(r, g[i]), i + 1 >= m
               PROVE  InPlace(r, g[i + 1])
    <3>1. \A i \in 0..(n - 1) : i + 1 \in 0..n
      BY <1>1
    <3> QED
      BY <3>1
  <2>1. i + 1 \in 1..n /\ i + 1 \in 0..n /\ (i + 1) - 1 = i /\ (i >= m \/ m = i + 1)
    BY <1>1, <1>2
  <2>2. CASE m = i + 1
    BY <2>1, <2>2
  <2>3. CASE i >= m
    <3>1. Does(g[i], ops[i + 1], g[i + 1])
      BY <1>1, <2>1
    <3>2. i + 1 \in (m + 1)..n
      BY <1>1, <1>2, <2>1, <2>3
    <3> QED
      BY <1>2, <2>1, <2>3, <3>1, <3>2 DEF Does
  <2> QED
    BY <2>1, <2>2, <2>3
<1> HIDE DEF Good
<1>5. 0..n \subseteq Good
  BY <1>1, <1>3, <1>4, UpTo
<1>6. n \in 0..n /\ n >= m
  BY <1>1, <1>2
<1> QED
  BY <1>5, <1>6 DEF Good, n

\* A row of the table is still in it after the ops before m, if they do not
\* address its key.
LEMMA TraceHas ==
  ASSUME NEW g, NEW K, NEW stay, NEW rows, NEW ops, Trace(g, K, stay, rows, ops),
         NEW m \in 0..Len(ops), NEW r \in rows,
         \A i \in 1..m : ~Addresses(ops[i], r.k)
  PROVE  InTable(r, g[m])
<1> DEFINE Good == {i \in 0..m : InTable(r, g[i])}
<1>1. Len(ops) \in Nat /\ \A i \in 1..Len(ops) : Does(g[i - 1], ops[i], g[i])
  BY DEF Trace
<1>2. 0 \in Good
  <2>1. InTable(r, Begin(rows))
    BY DEF InTable, Begin
  <2> QED
    BY <2>1, <1>1 DEF Trace
<1>3. \A i \in 0..(m - 1) : i \in Good => i + 1 \in Good
  <2> SUFFICES ASSUME NEW i \in 0..(m - 1), InTable(r, g[i])
               PROVE  InTable(r, g[i + 1]) /\ i + 1 \in 0..m
    OBVIOUS
  <2>1. i + 1 \in 1..m /\ i + 1 \in 0..m /\ i + 1 \in 1..Len(ops) /\ (i + 1) - 1 = i
    BY <1>1
  <2>2. Does(g[i], ops[i + 1], g[i + 1])
    BY <1>1, <2>1
  <2> QED
    BY <2>1, <2>2 DEF Does
<1> HIDE DEF Good
<1>4. 0..m \subseteq Good
  <2>1. m \in Nat
    BY <1>1
  <2> QED
    BY <1>2, <1>3, <2>1, UpTo
<1>5. m \in 0..m
  BY <1>1
<1> QED
  BY <1>4, <1>5 DEF Good

\* What the first m ops explain.
Explained(r, rows, ops, m) ==
  \/ r \in rows /\ \A i \in 1..m : ~Addresses(ops[i], r.k)
  \/ \E i \in 1..m : Gives(ops[i], r) \/ Updates(ops[i], r)

\* What the states of a trace hold of the rows the ops address and write.
LEMMA TraceShows ==
  ASSUME NEW g, NEW K, NEW stay, NEW rows, NEW ops, Trace(g, K, stay, rows, ops),
         ~g[Len(ops)].dup, NEW r, Seen(r, g[Len(ops)])
  PROVE  Explained(r, rows, ops, Len(ops))
<1> DEFINE n == Len(ops)
           OK(i) == /\ \A x \in ToSet(g[i].pend) : \E j \in 1..i : Gives(ops[j], x)
                    /\ ~g[i].dup => \A x : Seen(x, g[i]) => Explained(x, rows, ops, i)
           Good == {i \in 0..n : OK(i)}
<1>1. n \in Nat /\ \A i \in 1..n : Does(g[i - 1], ops[i], g[i])
  BY DEF Trace
<1> HIDE DEF n, OK
<1>2. OK(0)
  <2>1. g[0] = Begin(rows)
    BY DEF Trace
  <2>2. ToSet(<<>>) = {}
    BY DEF ToSet
  <2> QED
    BY <2>1, <2>2 DEF OK, Begin, Seen, Explained
<1>3. ASSUME NEW i \in 0..(n - 1), OK(i)
      PROVE  OK(i + 1)
  <2>1. i + 1 \in 1..n /\ i + 1 \in 1..(i + 1) /\ (i + 1) - 1 = i
        /\ (\A j \in 1..i : j \in 1..(i + 1))
        /\ (\A j \in 1..(i + 1) : j \in 1..i \/ j = i + 1)
    BY <1>1
  <2> DEFINE t == g[i]
             u == g[i + 1]
             op == ops[i + 1]
  <2>2. Does(t, op, u)
    BY <1>1, <2>1
  <2>3. /\ \A x \in ToSet(t.pend) : \E j \in 1..i : Gives(ops[j], x)
        /\ ~t.dup => \A x : Seen(x, t) => Explained(x, rows, ops, i)
    BY <1>3 DEF OK
  <2>4. \A x \in ToSet(u.pend) : \E j \in 1..(i + 1) : Gives(ops[j], x)
    <3>1. \A x \in ToSet(u.pend) : x \in ToSet(t.pend) \/ Gives(op, x)
      BY <2>2 DEF Does
    <3> QED
      BY <2>1, <2>3, <3>1
  <2>5. ASSUME ~u.dup, NEW x, Seen(x, u)
        PROVE  Explained(x, rows, ops, i + 1)
    <3>1. ~t.dup /\ \/ x \in ToSet(t.pend) \/ Gives(op, x) \/ Updates(op, x)
                    \/ Seen(x, t) /\ ~Addresses(op, x.k)
      BY <2>2, <2>5 DEF Does
    <3>2. CASE x \in ToSet(t.pend)
      BY <2>1, <2>3, <3>2 DEF Explained
    <3>3. CASE Gives(op, x) \/ Updates(op, x)
      BY <2>1, <3>3 DEF Explained
    <3>4. CASE Seen(x, t) /\ ~Addresses(op, x.k)
      <4>1. Explained(x, rows, ops, i)
        BY <2>3, <3>1, <3>4
      <4> QED
        BY <2>1, <3>4, <4>1 DEF Explained
    <3> QED
      BY <3>1, <3>2, <3>3, <3>4
  <2> QED
    BY <2>4, <2>5 DEF OK
<1>4. OK(n)
  <2>1. 0 \in Good /\ \A i \in 0..(n - 1) : i \in Good => i + 1 \in Good
    <3>1. 0 \in 0..n /\ \A i \in 0..(n - 1) : i \in 0..n /\ i + 1 \in 0..n
      BY <1>1
    <3> QED
      BY <1>2, <1>3, <3>1
  <2> HIDE DEF Good
  <2>2. 0..n \subseteq Good
    BY <1>1, <2>1, UpTo
  <2>3. n \in 0..n
    BY <1>1
  <2> QED
    BY <2>2, <2>3 DEF Good
<1> QED
  BY <1>4 DEF OK, n

\* What a transaction leaves that no unique index rejects.
Later(ops, j, k)   == \E i \in (j + 1)..Len(ops) : Addresses(ops[i], k)
OnlyOne(ops, j, k) == \A i \in 1..Len(ops) : i # j => ~Addresses(ops[i], k)

Result(rows, ops, new) ==
  /\ \A r \in new : Explained(r, rows, ops, Len(ops))
  /\ \A r \in rows : ~Later(ops, 0, r.k) => r \in new
  /\ \A j \in 1..Len(ops) : \A r : Gives(ops[j], r) /\ ~Later(ops, j, r.k) => r \in new
  /\ \A j \in 1..Len(ops), r \in rows :
       ops[j].kind = "update" /\ ops[j].keys = {r.k} /\ OnlyOne(ops, j, r.k) =>
         [ops[j].rows[1] EXCEPT !.k = r.k] \in new

\* A transaction that is not rejected leaves what Result says.
LEMMA RunOpsResult ==
  ASSUME NEW K, NEW stay, Apart(K, stay), NEW rows, TableOK(rows, stay),
         NEW ops \in Seq(OpsOver(K)), \A i \in 1..Len(ops) : OneKey(ops[i]),
         ~RunOps(rows, ops).dup
  PROVE  Result(rows, ops, RunOps(rows, ops).rows)
<1>1. PICK g : /\ Trace(g, K, stay, rows, ops)
               /\ RunOps(rows, ops) = Flush(FlushDeletes(g[Len(ops)]))
  BY TraceExists
<1> DEFINE n == Len(ops)
           t == g[n]
           f == FlushDeletes(t)
           new == Flush(f).rows
<1>2. n \in Nat /\ n \in 0..n
  OBVIOUS
<1>3. TxOK(t, K, stay) /\ \A i \in 1..n : Does(g[i - 1], ops[i], g[i])
  BY <1>1, <1>2 DEF Trace
<1>4. TxOK(f, K, stay) /\ f.dels = {}
  BY <1>3, FlushDeletesOK
<1>5. (\A r : Seen(r, f) <=> Seen(r, t)) /\ f.dup = t.dup
  BY <1>3, FlushDeletesShows DEF TxOK
<1>6. ~f.dup /\ \A r : Seen(r, f) <=> r \in new
  BY <1>1, <1>4, FlushShows DEF TxOK
<1>7. ~t.dup /\ \A r : r \in new <=> Seen(r, t)
  BY <1>5, <1>6
<1>8. \A r : InPlace(r, t) => r \in new
  BY <1>7 DEF InPlace, Seen
<1> HIDE DEF new, t, n
<1>9. ASSUME NEW r \in new PROVE Explained(r, rows, ops, n)
  BY <1>1, <1>7, TraceShows DEF t, n
<1>10. ASSUME NEW j \in 0..n, NEW r, InPlace(r, g[j]), ~Later(ops, j, r.k)
       PROVE  r \in new
  <2>1. InPlace(r, t)
    BY <1>1, <1>10, TraceKeeps DEF Later, t, n
  <2> QED
    BY <1>8, <2>1
<1>11. ASSUME NEW r \in rows, ~Later(ops, 0, r.k) PROVE r \in new
  <2>1. 0 \in 0..n /\ 0 \in 0..Len(ops) /\ \A i \in 1..0 : FALSE
    BY <1>2
  <2>2. InTable(r, g[0])
    BY <1>1, <2>1, TraceHas
  <2> QED
    BY <1>10, <1>11, <2>1, <2>2, InPlaceIs
<1>12. ASSUME NEW j \in 1..n, NEW r, Gives(ops[j], r), ~Later(ops, j, r.k)
       PROVE  r \in new
  <2>1. j \in 0..n
    BY <1>2
  <2>2. InPlace(r, g[j])
    BY <1>3, <1>12 DEF Does
  <2> QED
    BY <1>10, <1>12, <2>1, <2>2
<1>13. ASSUME NEW j \in 1..n, NEW r \in rows, ops[j].kind = "update", ops[j].keys = {r.k},
              OnlyOne(ops, j, r.k)
       PROVE  [ops[j].rows[1] EXCEPT !.k = r.k] \in new
  <2>1. j \in 0..n /\ j - 1 \in 0..n /\ j - 1 \in 0..Len(ops)
    BY <1>2 DEF n
  <2>2. \A i \in 1..(j - 1) : i \in 1..Len(ops) /\ i # j
    BY <1>2 DEF n
  <2>3. \A i \in (j + 1)..Len(ops) : i \in 1..Len(ops) /\ i # j
    BY <1>2 DEF n
  <2>4. InTable(r, g[j - 1])
    BY <1>1, <1>13, <2>1, <2>2, TraceHas DEF OnlyOne
  <2>5. Does(g[j - 1], ops[j], g[j])
    BY <1>3
  <2> DEFINE x == [ops[j].rows[1] EXCEPT !.k = r.k]
  <2>6. InTable(x, g[j])
    BY <1>13, <2>4, <2>5 DEF Does
  <2>7. x.k = r.k
    <3>1. ops \in Seq(OpsOver(K)) /\ j \in 1..Len(ops)
      BY DEF n
    <3>2. ops[j] \in OpsOver(K)
      BY <3>1
    <3>3. ops[j].rows[1] \in Matching(Row)
      BY <1>13, <3>2, RunOpCases
    <3> QED
      BY <3>3 DEF Row, Matching
  <2> HIDE DEF x
  <2>8. ~Later(ops, j, x.k)
    BY <1>13, <2>3, <2>7 DEF Later, OnlyOne
  <2>9. x \in new
    BY <1>10, <2>1, <2>6, <2>8, InPlaceIs
  <2> QED
    BY <2>9 DEF x
<1>14. Result(rows, ops, new)
  BY <1>9, <1>11, <1>12, <1>13 DEF Result, n
<1> QED
  BY <1>1, <1>14 DEF new, t, n

\* Sequences of A put around one of B give one of B.
Around(A, B) ==
  /\ \A a, b \in A : a \o b \in A
  /\ \A a \in A, b \in B : a \o b \in B /\ b \o a \in B

\* One sequence among others decides what their concatenation is.
LEMMA FlatSplit ==
  ASSUME NEW n \in Nat, NEW seqs, Len(seqs) = n, NEW i \in 1..n, NEW A, NEW B, Around(A, B),
         \A j \in 1..n : j # i => seqs[j] \in A, seqs[i] \in B
  PROVE  FlattenSeq(seqs) \in B
<1>1. n # 0
  OBVIOUS
<1>2. PICK h : Joined(h, seqs, n)
  BY <1>1, FlatSteps
<1>3. /\ FlattenSeq(seqs) = h[n] /\ h[1] = seqs[1]
      /\ \A m \in 1..(n - 1) : h[m + 1] = h[m] \o seqs[m + 1]
  BY <1>2 DEF Joined
<1> DEFINE Good == {m \in 0..n : m = 0 \/ IF m < i THEN h[m] \in A ELSE h[m] \in B}
<1>4. 0 \in Good
  OBVIOUS
<1>5. \A m \in 0..(n - 1) : m \in Good => m + 1 \in Good
  <2> SUFFICES ASSUME NEW m \in 0..(n - 1),
                      m = 0 \/ IF m < i THEN h[m] \in A ELSE h[m] \in B
               PROVE  IF m + 1 < i THEN h[m + 1] \in A ELSE h[m + 1] \in B
    <3>1. \A m \in 0..(n - 1) : m + 1 \in 0..n
      OBVIOUS
    <3> QED
      BY <3>1
  <2>1. CASE m = 0
    <3>1. m + 1 = 1 /\ (1 < i <=> 1 # i) /\ 1 \in 1..n
      BY <2>1
    <3> QED
      BY <1>3, <3>1
  <2>2. CASE m # 0
    <3>1. m \in 1..(n - 1) /\ m + 1 \in 1..n
      BY <2>2
    <3>2. h[m + 1] = h[m] \o seqs[m + 1]
      BY <1>3, <3>1
    <3>3. CASE m + 1 < i
      <4>1. h[m] \in A /\ seqs[m + 1] \in A
        BY <2>2, <3>1, <3>3
      <4> QED
        BY <3>2, <3>3, <4>1 DEF Around
    <3>4. CASE m + 1 = i
      <4>1. h[m] \in A /\ seqs[m + 1] \in B
        BY <2>2, <3>4
      <4> QED
        BY <3>2, <3>4, <4>1 DEF Around
    <3>5. CASE m + 1 > i
      <4>1. h[m] \in B /\ seqs[m + 1] \in A
        BY <2>2, <3>1, <3>5
      <4> QED
        BY <3>2, <3>5, <4>1 DEF Around
    <3> QED
      BY <3>3, <3>4, <3>5
  <2> QED
    BY <2>1, <2>2
<1> HIDE DEF Good
<1>6. 0..n \subseteq Good
  BY <1>4, <1>5, UpTo
<1>7. n \in 0..n /\ n # 0 /\ ~(n < i)
  OBVIOUS
<1> QED
  BY <1>3, <1>6, <1>7 DEF Good

-----------------------------------------------------------------------------
(***************************************************************************)
(* The ops of a chunk, key group by key group.                             *)
(***************************************************************************)

\* The op addresses a key of the group or writes a row of it.
Touches(op, id) ==
  (\E k \in op.keys : KeyId[k] = id) \/ (\E r \in ToSet(op.rows) : KeyId[r.k] = id)

\* The op is one of the group: it addresses keys of the group's rows in d
\* and writes the group's rows of s.
IsOf(op, s, d, id) ==
  /\ OneKey(op)
  /\ \A k \in op.keys : \E r \in Group(d, id) : r.k = k
  /\ ToSet(op.rows) \subseteq Group(s, id)

Away(T, id) == {q \in Seq(T) : \A i \in 1..Len(q) : ~Touches(q[i], id)}

\* c has the part q at m, and touches the group nowhere else.
PartAt(c, q, id, m) ==
  /\ m + Len(q) <= Len(c)
  /\ \A x \in 1..Len(q) : c[m + x] = q[x]
  /\ \A x \in 1..Len(c) : x \in (m + 1)..(m + Len(q)) \/ ~Touches(c[x], id)
Holding(T, q, id) == {c \in Seq(T) : \E m \in Nat : PartAt(c, q, id, m)}

\* The elements of a concatenation.
LEMMA ConcatIs ==
  ASSUME NEW T, NEW a \in Seq(T), NEW b \in Seq(T)
  PROVE  /\ a \o b \in Seq(T) /\ Len(a \o b) = Len(a) + Len(b)
         /\ Len(a) \in Nat /\ Len(b) \in Nat
         /\ \A i \in 1..Len(a) : (a \o b)[i] = a[i]
         /\ \A i \in 1..Len(b) : (a \o b)[Len(a) + i] = b[i]
         /\ \A i \in 1..Len(a \o b) :
              i \in 1..Len(a) \/ (i - Len(a) \in 1..Len(b) /\ i = Len(a) + (i - Len(a)))
<1> DEFINE c == a \o b
<1>1. /\ c \in Seq(T) /\ Len(c) = Len(a) + Len(b)
      /\ \A i \in 1..(Len(a) + Len(b)) : c[i] = IF i <= Len(a) THEN a[i] ELSE b[i - Len(a)]
  BY ConcatProperties
<1>2. Len(a) \in Nat /\ Len(b) \in Nat
  OBVIOUS
<1> HIDE DEF c
<1>3. \A i \in 1..Len(a) : c[i] = a[i]
  BY <1>1, <1>2
<1>4. ASSUME NEW i \in 1..Len(b) PROVE c[Len(a) + i] = b[i]
  <2>1. Len(a) + i \in 1..(Len(a) + Len(b)) /\ ~(Len(a) + i <= Len(a)) /\ (Len(a) + i) - Len(a) = i
    BY <1>2
  <2> QED
    BY <1>1, <2>1
<1>5. \A i \in 1..Len(c) : i \in 1..Len(a) \/ (i - Len(a) \in 1..Len(b) /\ i = Len(a) + (i - Len(a)))
  BY <1>1, <1>2
<1> QED
  BY <1>1, <1>2, <1>3, <1>4, <1>5 DEF c

\* Ops away from a group stay away from it when put together.
LEMMA AwayConcat ==
  ASSUME NEW T, NEW id, NEW a \in Away(T, id), NEW b \in Away(T, id)
  PROVE  a \o b \in Away(T, id)
<1> DEFINE c == a \o b
<1>1. a \in Seq(T) /\ b \in Seq(T)
  BY DEF Away
<1>2. /\ c \in Seq(T)
      /\ \A i \in 1..Len(a) : c[i] = a[i]
      /\ \A i \in 1..Len(b) : c[Len(a) + i] = b[i]
      /\ \A i \in 1..Len(c) : i \in 1..Len(a) \/ (i - Len(a) \in 1..Len(b) /\ i = Len(a) + (i - Len(a)))
  BY <1>1, ConcatIs
<1> HIDE DEF c
<1>3. \A i \in 1..Len(c) : ~Touches(c[i], id)
  BY <1>2 DEF Away
<1>4. c \in Away(T, id)
  BY <1>2, <1>3 DEF Away
<1> QED
  BY <1>4 DEF c

\* A group's ops are still held behind ops away from the group.
LEMMA PartAfter ==
  ASSUME NEW T, NEW id, NEW q \in Seq(T), NEW a \in Away(T, id), NEW b \in Holding(T, q, id)
  PROVE  a \o b \in Holding(T, q, id)
<1> DEFINE c == a \o b
<1>1. a \in Seq(T) /\ b \in Seq(T) /\ Len(q) \in Nat /\ \A i \in 1..Len(a) : ~Touches(a[i], id)
  BY DEF Away, Holding
<1>2. PICK m \in Nat : PartAt(b, q, id, m)
  BY DEF Holding
<1>3. /\ c \in Seq(T) /\ Len(c) = Len(a) + Len(b) /\ Len(a) \in Nat /\ Len(b) \in Nat
      /\ \A i \in 1..Len(a) : c[i] = a[i]
      /\ \A i \in 1..Len(b) : c[Len(a) + i] = b[i]
      /\ \A i \in 1..Len(c) : i \in 1..Len(a) \/ (i - Len(a) \in 1..Len(b) /\ i = Len(a) + (i - Len(a)))
  BY <1>1, ConcatIs
<1> HIDE DEF c
<1> DEFINE l == Len(a) + m
<1>4. l \in Nat /\ l + Len(q) <= Len(c)
  BY <1>1, <1>2, <1>3 DEF PartAt
<1>5. ASSUME NEW x \in 1..Len(q) PROVE c[l + x] = q[x]
  <2>1. m + x \in 1..Len(b) /\ l + x = Len(a) + (m + x)
    BY <1>1, <1>2, <1>3 DEF PartAt
  <2> QED
    BY <1>2, <1>3, <2>1 DEF PartAt
<1>6. ASSUME NEW x \in 1..Len(c) PROVE x \in (l + 1)..(l + Len(q)) \/ ~Touches(c[x], id)
  <2>1. CASE x \in 1..Len(a)
    BY <1>1, <1>3, <2>1
  <2>2. CASE x - Len(a) \in 1..Len(b)
    <3>1. c[x] = b[x - Len(a)]
      BY <1>3, <2>2
    <3>2. x - Len(a) \in (m + 1)..(m + Len(q)) \/ ~Touches(b[x - Len(a)], id)
      BY <1>2, <2>2 DEF PartAt
    <3>3. x - Len(a) \in (m + 1)..(m + Len(q)) => x \in (l + 1)..(l + Len(q))
      BY <1>1, <1>3
    <3> QED
      BY <3>1, <3>2, <3>3
  <2> QED
    BY <1>3, <2>1, <2>2
<1> HIDE DEF l
<1>7. PartAt(c, q, id, l)
  BY <1>4, <1>5, <1>6 DEF PartAt
<1>8. c \in Holding(T, q, id)
  BY <1>3, <1>4, <1>7 DEF Holding
<1> QED
  BY <1>8 DEF c

\* A group's ops are still held in front of ops away from the group.
LEMMA PartBefore ==
  ASSUME NEW T, NEW id, NEW q \in Seq(T), NEW a \in Away(T, id), NEW b \in Holding(T, q, id)
  PROVE  b \o a \in Holding(T, q, id)
<1> DEFINE c == b \o a
<1>1. a \in Seq(T) /\ b \in Seq(T) /\ Len(q) \in Nat /\ \A i \in 1..Len(a) : ~Touches(a[i], id)
  BY DEF Away, Holding
<1>2. PICK m \in Nat : PartAt(b, q, id, m)
  BY DEF Holding
<1>3. /\ c \in Seq(T) /\ Len(c) = Len(b) + Len(a) /\ Len(a) \in Nat /\ Len(b) \in Nat
      /\ \A i \in 1..Len(b) : c[i] = b[i]
      /\ \A i \in 1..Len(a) : c[Len(b) + i] = a[i]
      /\ \A i \in 1..Len(c) : i \in 1..Len(b) \/ (i - Len(b) \in 1..Len(a) /\ i = Len(b) + (i - Len(b)))
  BY <1>1, ConcatIs
<1> HIDE DEF c
<1>4. m + Len(q) <= Len(c)
  BY <1>1, <1>2, <1>3 DEF PartAt
<1>5. ASSUME NEW x \in 1..Len(q) PROVE c[m + x] = q[x]
  <2>1. m + x \in 1..Len(b)
    BY <1>1, <1>2, <1>3 DEF PartAt
  <2> QED
    BY <1>2, <1>3, <2>1 DEF PartAt
<1>6. ASSUME NEW x \in 1..Len(c) PROVE x \in (m + 1)..(m + Len(q)) \/ ~Touches(c[x], id)
  <2>1. CASE x \in 1..Len(b)
    BY <1>2, <1>3, <2>1 DEF PartAt
  <2>2. CASE x - Len(b) \in 1..Len(a) /\ x = Len(b) + (x - Len(b))
    <3>1. c[x] = a[x - Len(b)]
      BY <1>3, <2>2
    <3> QED
      BY <1>1, <2>2, <3>1
  <2> QED
    BY <1>3, <2>1, <2>2
<1>7. PartAt(c, q, id, m)
  BY <1>4, <1>5, <1>6 DEF PartAt
<1>8. c \in Holding(T, q, id)
  BY <1>3, <1>7 DEF Holding
<1> QED
  BY <1>8 DEF c

\* A group's ops hold themselves.
LEMMA PartSelf ==
  ASSUME NEW T, NEW id, NEW q \in Seq(T)
  PROVE  q \in Holding(T, q, id) /\ Around(Away(T, id), Holding(T, q, id))
<1>1. PartAt(q, q, id, 0)
  <2>1. Len(q) \in Nat /\ 0 + Len(q) <= Len(q) /\ (0 + 1)..(0 + Len(q)) = 1..Len(q)
        /\ \A x \in 1..Len(q) : 0 + x = x
    OBVIOUS
  <2> QED
    BY <2>1 DEF PartAt
<1>2. q \in Holding(T, q, id)
  BY <1>1 DEF Holding
<1>3. Around(Away(T, id), Holding(T, q, id))
  BY AwayConcat, PartAfter, PartBefore DEF Around
<1> QED
  BY <1>2, <1>3

\* The ops of one key group.
Own(K, s, d, id) == {q \in Seq(OpsOver(K)) : \A i \in 1..Len(q) : IsOf(q[i], s, d, id)}

\* The ops of a group touch no other group.
LEMMA OfOthers ==
  ASSUME NEW op, NEW s, NEW d, NEW id, NEW own, IsOf(op, s, d, own), own # id
  PROVE  ~Touches(op, id)
<1>1. \A r \in Group(d, own) : KeyId[r.k] = own
  BY DEF Group
<1>2. \A r \in Group(s, own) : KeyId[r.k] = own
  BY DEF Group
<1> QED
  BY <1>1, <1>2 DEF IsOf, Touches

\* The ops of a group are away from every other group.
LEMMA OwnAway ==
  ASSUME NEW K, NEW s, NEW d, NEW id, NEW own, own # id, NEW q \in Own(K, s, d, own)
  PROVE  q \in Away(OpsOver(K), id)
<1>1. q \in Seq(OpsOver(K)) /\ \A i \in 1..Len(q) : IsOf(q[i], s, d, own)
  BY DEF Own
<1>2. \A i \in 1..Len(q) : ~Touches(q[i], id)
  BY <1>1, OfOthers
<1> QED
  BY <1>1, <1>2 DEF Away

\* The ops of one group, put together.
LEMMA OwnConcat ==
  ASSUME NEW K, NEW s, NEW d, NEW id, NEW a \in Own(K, s, d, id), NEW b \in Own(K, s, d, id)
  PROVE  a \o b \in Own(K, s, d, id)
<1> DEFINE c == a \o b
<1>1. a \in Seq(OpsOver(K)) /\ b \in Seq(OpsOver(K))
  BY DEF Own
<1>2. /\ c \in Seq(OpsOver(K))
      /\ \A i \in 1..Len(a) : c[i] = a[i]
      /\ \A i \in 1..Len(b) : c[Len(a) + i] = b[i]
      /\ \A i \in 1..Len(c) : i \in 1..Len(a) \/ (i - Len(a) \in 1..Len(b) /\ i = Len(a) + (i - Len(a)))
  BY <1>1, ConcatIs
<1> HIDE DEF c
<1>3. \A i \in 1..Len(c) : IsOf(c[i], s, d, id)
  BY <1>2 DEF Own
<1>4. c \in Own(K, s, d, id)
  BY <1>2, <1>3 DEF Own
<1> QED
  BY <1>4 DEF c

\* No op at all.
LEMMA OwnNone ==
  ASSUME NEW K, NEW s, NEW d, NEW id
  PROVE  <<>> \in Own(K, s, d, id)
  BY DEF Own

\* What the groups of a chunk's two sides are.
Sides(K, s, d) ==
  /\ setting \in Settings /\ s \subseteq Matching(Row) /\ d \subseteq Matching(Row)
  /\ K \subseteq Keys /\ \A x \in d : x.k \in K

AreDeletes(D, K, s, d, id) ==
  /\ D \in Own(K, s, d, id) /\ \A i \in 1..Len(D) : D[i].kind = "delete"
  /\ \A r \in Group(d, id) : \E i \in 1..Len(D) : D[i].keys = {r.k}

AreInserts(I, K, s, d, id) ==
  /\ I \in Own(K, s, d, id) /\ \A i \in 1..Len(I) : I[i].kind = "insert"
  /\ \A r \in Group(s, id) : \E i \in 1..Len(I) : I[i].rows = <<r>>

\* The deletes of a group's rows are ops of the group.
LEMMA GroupDeletes ==
  ASSUME NEW K, NEW s, NEW d, Sides(K, s, d), NEW id
  PROVE  AreDeletes(Deletes(Group(d, id)), K, s, d, id)
<1> DEFINE gd == Group(d, id)
           D  == Deletes(gd)
<1>1. /\ Cardinality(gd) \in Nat
      /\ \A i \in 1..Cardinality(gd) : SetToSeq(gd)[i] \in gd /\ SetToSeq(gd)[i].k \in K
      /\ \A x \in gd : \E i \in 1..Cardinality(gd) : SetToSeq(gd)[i] = x
  BY GroupFacts DEF Sides
<1> HIDE DEF gd
<1>2. /\ D \in Seq(OpsOver(K)) /\ Len(D) = Cardinality(gd)
      /\ \A i \in 1..Cardinality(gd) : D[i].kind = "delete"
           /\ D[i].keys = {SetToSeq(gd)[i].k} /\ D[i].rows = <<>>
  <2>1. Cardinality(gd) \in Nat
    BY <1>1
  <2>2. \A i \in 1..Cardinality(gd) : SetToSeq(gd)[i].k \in K
    BY <1>1
  <2> QED
    BY <2>1, <2>2, DeletesFacts
<1> HIDE DEF D
<1>3. ToSet(<<>>) = {}
  BY DEF ToSet
<1>4. \A i \in 1..Len(D) : IsOf(D[i], s, d, id)
  BY <1>1, <1>2, <1>3 DEF IsOf, OneKey, gd
<1>5. D \in Own(K, s, d, id)
  BY <1>2, <1>4 DEF Own
<1>6. \A r \in gd : \E i \in 1..Len(D) : D[i].keys = {r.k}
  BY <1>1, <1>2
<1> QED
  BY <1>2, <1>5, <1>6 DEF AreDeletes, D, gd

\* The inserts of a group's rows are ops of the group.
LEMMA GroupInserts ==
  ASSUME NEW K, NEW s, NEW d, Sides(K, s, d), NEW id
  PROVE  AreInserts(Inserts(Group(s, id)), K, s, d, id)
<1> DEFINE gs == Group(s, id)
           I  == Inserts(gs)
<1>1. /\ Cardinality(gs) \in Nat
      /\ \A i \in 1..Cardinality(gs) : SetToSeq(gs)[i] \in gs /\ SetToSeq(gs)[i] \in Matching(Row)
      /\ \A x \in gs : \E i \in 1..Cardinality(gs) : SetToSeq(gs)[i] = x
  BY GroupFacts DEF Sides
<1> HIDE DEF gs
<1>2. /\ I \in Seq(OpsOver(K)) /\ Len(I) = Cardinality(gs)
      /\ \A i \in 1..Cardinality(gs) : I[i].kind = "insert"
           /\ I[i].rows = <<SetToSeq(gs)[i]>> /\ I[i].keys = {}
  BY <1>1, InsertsFacts
<1> HIDE DEF I
<1>3. \A x : ToSet(<<x>>) = {x}
  BY DEF ToSet
<1>4. ASSUME NEW i \in 1..Len(I) PROVE IsOf(I[i], s, d, id)
  <2> DEFINE x == SetToSeq(gs)[i]
  <2>0. i \in 1..Cardinality(gs) /\ x \in gs
    BY <1>1, <1>2
  <2>2. I[i].kind = "insert" /\ I[i].rows = <<x>> /\ I[i].keys = {}
    BY <1>2, <2>0
  <2> HIDE DEF x
  <2>3. ToSet(<<x>>) = {x}
    BY <1>3
  <2>1. I[i].kind # "update" /\ I[i].keys = {} /\ ToSet(I[i].rows) \subseteq gs
    BY <2>0, <2>2, <2>3
  <2> QED
    BY <2>1 DEF IsOf, OneKey, gs
<1>5. I \in Own(K, s, d, id)
  BY <1>2, <1>4 DEF Own
<1>6. \A r \in gs : \E i \in 1..Len(I) : I[i].rows = <<r>>
  BY <1>1, <1>2
<1> QED
  BY <1>2, <1>5, <1>6 DEF AreInserts, I, gs

\* The one op of a group that is updated, or rewritten where it stands.
GroupOp(kind, s, d, id) ==
  Op(kind, {r.k : r \in Group(d, id)}, SetToSeq(Group(s, id)))

IsGroupOp(op, kind, K, s, d, id) ==
  /\ << op >> \in Own(K, s, d, id) /\ op.kind = kind /\ op.keys = {r.k : r \in Group(d, id)}
  /\ \A r \in Group(s, id) : r \in ToSet(op.rows)
  /\ kind = "update" => \E row, r0 : /\ Group(s, id) = {row} /\ Group(d, id) = {r0}
                                     /\ op.rows[1] = row

\* The one op of a group is an op of the group.
LEMMA GroupOpIs ==
  ASSUME NEW K, NEW s, NEW d, Sides(K, s, d), NEW id, NEW kind \in {"update", "rewrite"},
         kind = "update" => Kind(Group(s, id), Group(d, id)) = "update"
  PROVE  IsGroupOp(GroupOp(kind, s, d, id), kind, K, s, d, id)
<1> DEFINE gs == Group(s, id)
           gd == Group(d, id)
           ks == {r.k : r \in gd}
           rs == SetToSeq(gs)
           op == GroupOp(kind, s, d, id)
<1>1. /\ Cardinality(gs) \in Nat /\ rs \in Seq(Matching(Row)) /\ Len(rs) = Cardinality(gs)
      /\ \A i \in 1..Cardinality(gs) : rs[i] \in gs
      /\ \A x \in gs : \E i \in 1..Cardinality(gs) : rs[i] = x
      /\ IsFiniteSet(gs) /\ IsFiniteSet(gd) /\ ks \in SUBSET K
  <2>1. s \subseteq Matching(Row) /\ d \subseteq Matching(Row) /\ \A x \in d : x.k \in K
    BY DEF Sides
  <2>2. IsFiniteSet(gd) /\ gd \subseteq d
    BY <2>1, GroupFacts DEF Sides
  <2>3. /\ Cardinality(gs) \in Nat /\ rs \in Seq(Matching(Row)) /\ Len(rs) = Cardinality(gs)
        /\ \A i \in 1..Cardinality(gs) : rs[i] \in gs
        /\ \A x \in gs : \E i \in 1..Cardinality(gs) : rs[i] = x
        /\ IsFiniteSet(gs)
    BY <2>1, GroupFacts DEF Sides
  <2> HIDE DEF gd, gs, rs
  <2>4. ks \in SUBSET K
    BY <2>1, <2>2
  <2> QED
    BY <2>2, <2>3, <2>4
<1>2. kind = "update" => Cardinality(gs) = 1 /\ Cardinality(gd) = 1 /\ gd # {}
  BY KindFacts
<1>3. op = Op(kind, ks, rs)
  BY DEF GroupOp
<1>4. \A r \in gd : r.k \in ks
  OBVIOUS
<1>5. \A k \in ks : \E r \in gd : r.k = k
  OBVIOUS
<1>6. \A r0 : gd = {r0} => ks = {r0.k}
  OBVIOUS
<1> HIDE DEF gs, gd, ks, rs, op
<1>7. op.kind = kind /\ op.keys = ks /\ op.rows = rs
  BY <1>3 DEF Op
<1>8. ToSet(rs) \subseteq gs /\ gs \subseteq ToSet(rs)
  BY <1>1 DEF ToSet
<1>9. ASSUME kind = "update"
      PROVE  \E row, r0 : gs = {row} /\ gd = {r0} /\ rs[1] = row
  <2>1. PICK row : gs = {row}
    BY <1>1, <1>2, <1>9, FS_Singleton
  <2>2. PICK r0 : gd = {r0}
    BY <1>1, <1>2, <1>9, FS_Singleton
  <2>3. 1 \in 1..Cardinality(gs)
    BY <1>2, <1>9
  <2>4. rs[1] = row
    BY <1>1, <2>1, <2>3
  <2> QED
    BY <2>1, <2>2, <2>4
<1>10. op \in OpsOver(K)
  <2>1. kind = "update" => ks # {} /\ rs # <<>>
    BY <1>1, <1>2, <1>4
  <2> QED
    BY <1>1, <1>3, <2>1 DEF OpsOver, Op
<1>11. OneKey(op)
  BY <1>6, <1>7, <1>9 DEF OneKey
<1>12. IsOf(op, s, d, id)
  BY <1>5, <1>7, <1>8, <1>11 DEF IsOf, gs, gd
<1>13. << op >> \in Own(K, s, d, id)
  <2>1. << op >> \in Seq(OpsOver(K)) /\ Len(<< op >>) = 1 /\ << op >>[1] = op
    BY <1>10
  <2> DEFINE q == << op >>
  <2> HIDE DEF q
  <2>2. q \in Seq(OpsOver(K)) /\ Len(q) = 1 /\ q[1] = op
    BY <2>1 DEF q
  <2>3. \A i \in 1..Len(q) : i = 1
    BY <2>2
  <2>4. q \in Own(K, s, d, id)
    BY <1>12, <2>2, <2>3 DEF Own
  <2> QED
    BY <2>4 DEF q
<1> QED
  <2>1. IsGroupOp(op, kind, K, s, d, id)
    BY <1>7, <1>8, <1>9, <1>13 DEF IsGroupOp, ks, gs, gd
  <2> QED
    BY <2>1 DEF op

AllOwn(K, s, d) ==
  {q \in Seq(OpsOver(K)) : \A i \in 1..Len(q) : \E id : IsOf(q[i], s, d, id)}

\* The ops of every group, in the order of the groups.
Pieces(seqs, ids, K, s, d) ==
  /\ ids \subseteq Int /\ IsFiniteSet(ids) /\ seqs \in [1..Cardinality(ids) -> Seq(OpsOver(K))]
  /\ \A i \in 1..Cardinality(ids) : seqs[i] \in Own(K, s, d, InOrder(ids)[i])

\* The ops of several groups, put together.
LEMMA AllOwnConcat ==
  ASSUME NEW K, NEW s, NEW d, NEW a \in AllOwn(K, s, d), NEW b \in AllOwn(K, s, d)
  PROVE  a \o b \in AllOwn(K, s, d)
<1> DEFINE c == a \o b
<1>1. a \in Seq(OpsOver(K)) /\ b \in Seq(OpsOver(K))
  BY DEF AllOwn
<1>2. /\ c \in Seq(OpsOver(K))
      /\ \A i \in 1..Len(a) : c[i] = a[i]
      /\ \A i \in 1..Len(b) : c[Len(a) + i] = b[i]
      /\ \A i \in 1..Len(c) : i \in 1..Len(a) \/ (i - Len(a) \in 1..Len(b) /\ i = Len(a) + (i - Len(a)))
  BY <1>1, ConcatIs
<1>3. /\ \A i \in 1..Len(a) : \E id : IsOf(a[i], s, d, id)
      /\ \A i \in 1..Len(b) : \E id : IsOf(b[i], s, d, id)
  BY DEF AllOwn
<1> HIDE DEF c
<1>4. \A i \in 1..Len(c) : \E id : IsOf(c[i], s, d, id)
  BY <1>2, <1>3
<1>5. c \in AllOwn(K, s, d)
  BY <1>2, <1>4 DEF AllOwn
<1> QED
  BY <1>5 DEF c

\* The ops of one group are ops of groups.
LEMMA OwnIsAllOwn ==
  ASSUME NEW K, NEW s, NEW d, NEW id, NEW q \in Own(K, s, d, id)
  PROVE  q \in AllOwn(K, s, d)
<1>1. q \in Seq(OpsOver(K)) /\ \A i \in 1..Len(q) : IsOf(q[i], s, d, id)
  BY DEF Own
<1>2. \A i \in 1..Len(q) : \E x : IsOf(q[i], s, d, x)
  BY <1>1
<1> QED
  BY <1>1, <1>2 DEF AllOwn

\* All the groups' ops, flattened, are ops of groups.
LEMMA PiecesOwn ==
  ASSUME NEW seqs, NEW ids, NEW K, NEW s, NEW d, Pieces(seqs, ids, K, s, d)
  PROVE  FlattenSeq(seqs) \in AllOwn(K, s, d)
<1> DEFINE S == AllOwn(K, s, d)
           n == Cardinality(ids)
           T == OpsOver(K)
<1>1. S \in SUBSET Seq(T) /\ n \in Nat
  BY FS_CardinalityType DEF AllOwn, Pieces
<1>2. <<>> \in S
  BY OwnNone, OwnIsAllOwn
<1>3. \A a, b \in S : a \o b \in S
  BY AllOwnConcat
<1>4. \A i \in 1..n : seqs[i] \in S
  BY OwnIsAllOwn DEF Pieces
<1>5. seqs \in [1..n -> S]
  BY <1>4 DEF Pieces
<1> HIDE DEF S, n, T
<1>6. FlattenSeq(seqs) \in S
  BY <1>1, <1>2, <1>3, <1>5, Flattened
<1> QED
  BY <1>6 DEF S

\* No op touches a group that has no rows.
LEMMA PiecesAway ==
  ASSUME NEW seqs, NEW ids, NEW K, NEW s, NEW d, Pieces(seqs, ids, K, s, d),
         NEW id, id \notin ids
  PROVE  FlattenSeq(seqs) \in Away(OpsOver(K), id)
<1> DEFINE S == Away(OpsOver(K), id)
           n == Cardinality(ids)
           T == OpsOver(K)
<1>1. S \in SUBSET Seq(T) /\ n \in Nat
  BY FS_CardinalityType DEF Away, Pieces
<1>2. <<>> \in S
  BY DEF Away
<1>3. \A a, b \in S : a \o b \in S
  BY AwayConcat
<1>4. \A i \in 1..n : seqs[i] \in S
  <2>1. \A i \in 1..n : InOrder(ids)[i] \in ids
    BY InOrderIs DEF Pieces
  <2> QED
    BY <2>1, OwnAway DEF Pieces
<1>5. seqs \in [1..n -> S]
  BY <1>4 DEF Pieces
<1> HIDE DEF S, n, T
<1>6. FlattenSeq(seqs) \in S
  BY <1>1, <1>2, <1>3, <1>5, Flattened
<1> QED
  BY <1>6 DEF S

\* The ops of a group are all that touch it.
LEMMA PiecesHold ==
  ASSUME NEW seqs, NEW ids, NEW K, NEW s, NEW d, Pieces(seqs, ids, K, s, d),
         NEW id \in ids
  PROVE  \E i \in 1..Cardinality(ids) :
           InOrder(ids)[i] = id /\ FlattenSeq(seqs) \in Holding(OpsOver(K), seqs[i], id)
<1> DEFINE n == Cardinality(ids)
           T == OpsOver(K)
<1>1. n \in Nat /\ Len(seqs) = n
  BY FS_CardinalityType DEF Pieces
<1>2. PICK i \in 1..n : InOrder(ids)[i] = id
  BY InOrderIs DEF Pieces
<1>3. \A j \in 1..n : j # i => InOrder(ids)[j] # id
  BY <1>2, InOrderIs DEF Pieces
<1>4. \A j \in 1..n : j # i => seqs[j] \in Away(T, id)
  BY <1>3, OwnAway DEF Pieces
<1>5. seqs[i] \in Seq(T)
  BY DEF Pieces
<1> HIDE DEF n, T
<1>6. seqs[i] \in Holding(T, seqs[i], id) /\ Around(Away(T, id), Holding(T, seqs[i], id))
  BY <1>5, PartSelf
<1> DEFINE A == Away(T, id)
           B == Holding(T, seqs[i], id)
<1>7. Around(A, B) /\ seqs[i] \in B /\ \A j \in 1..n : j # i => seqs[j] \in A
  BY <1>4, <1>6
<1> HIDE DEF A, B
<1>8. FlattenSeq(seqs) \in B
  BY <1>1, <1>7, FlatSplit
<1> QED
  BY <1>2, <1>8 DEF B, n, T

\* Ops that hold none of a group's are away from it.
LEMMA HoldsNone ==
  ASSUME NEW T, NEW id, NEW c \in Holding(T, <<>>, id)
  PROVE  c \in Away(T, id)
<1>1. PICK m \in Nat : PartAt(c, <<>>, id, m)
  BY DEF Holding
<1>2. Len(<<>>) = 0 /\ (m + 1)..(m + 0) = {}
  OBVIOUS
<1>3. \A x \in 1..Len(c) : ~Touches(c[x], id)
  BY <1>1, <1>2 DEF PartAt
<1> QED
  BY <1>3 DEF Away, Holding

-----------------------------------------------------------------------------
(***************************************************************************)
(* What the ops of a chunk do to one of its key groups: nothing, as the    *)
(* two sides have the same rows; or every row is deleted and the source's  *)
(* are inserted after; or the only row is updated.                         *)
(***************************************************************************)
Untouched(c, s, d, id) ==
  SameMultiset(Group(s, id), Group(d, id)) /\ \A i \in 1..Len(c) : ~Touches(c[i], id)

Replaced(c, s, d, id) ==
  /\ \A r \in Group(d, id) : \E i \in 1..Len(c) : Addresses(c[i], r.k)
  /\ \A r \in Group(s, id) : \E j \in 1..Len(c) : Gives(c[j], r) /\ ~Later(c, j, r.k)
  /\ \A i \in 1..Len(c) : Touches(c[i], id) => c[i].kind # "update"

UpdatedOnce(c, s, d, id) ==
  \E j \in 1..Len(c), row \in Group(s, id), r0 \in Group(d, id) :
    /\ Group(s, id) = {row} /\ Group(d, id) = {r0}
    /\ c[j].kind = "update" /\ c[j].keys = {r0.k} /\ c[j].rows[1] = row
    /\ \A i \in 1..Len(c) : i # j => ~Touches(c[i], id)

\* The deletes and the inserts of a group are in c at p and, behind, at q.
Swaps(c, D, I, id, p, q) ==
  /\ p \in Nat /\ q \in Nat /\ p + Len(D) <= q /\ q + Len(I) <= Len(c)
  /\ \A x \in 1..Len(D) : c[p + x] = D[x]
  /\ \A x \in 1..Len(I) : c[q + x] = I[x]
  /\ \A x \in 1..Len(c) : \/ x \in (p + 1)..(p + Len(D)) \/ x \in (q + 1)..(q + Len(I))
                          \/ ~Touches(c[x], id)

\* Deletes and later inserts of a whole group replace it.
LEMMA SwapsReplace ==
  ASSUME NEW K, NEW s, NEW d, Sides(K, s, d), NEW id, NEW c, NEW p, NEW q,
         Len(c) \in Nat, Swaps(c, Deletes(Group(d, id)), Inserts(Group(s, id)), id, p, q)
  PROVE  Replaced(c, s, d, id)
<1> DEFINE D == Deletes(Group(d, id))
           I == Inserts(Group(s, id))
<1>0. AreDeletes(D, K, s, d, id) /\ AreInserts(I, K, s, d, id)
  BY GroupDeletes, GroupInserts
<1>3. Swaps(c, D, I, id, p, q)
  OBVIOUS
<1> HIDE DEF D, I
<1>1. /\ D \in Seq(OpsOver(K)) /\ \A i \in 1..Len(D) : D[i].kind = "delete"
      /\ \A r \in Group(d, id) : \E i \in 1..Len(D) : D[i].keys = {r.k}
  BY <1>0 DEF AreDeletes, Own
<1>2. /\ I \in Seq(OpsOver(K)) /\ \A i \in 1..Len(I) : I[i].kind = "insert"
      /\ \A r \in Group(s, id) : \E i \in 1..Len(I) : I[i].rows = <<r>>
  BY <1>0 DEF AreInserts, Own
<1>4. Len(D) \in Nat /\ Len(I) \in Nat
  BY <1>1, <1>2
<1>5. /\ p \in Nat /\ q \in Nat /\ p + Len(D) <= q /\ q + Len(I) <= Len(c)
      /\ \A x \in 1..Len(D) : c[p + x] = D[x] /\ p + x \in 1..Len(c)
      /\ \A x \in 1..Len(I) : c[q + x] = I[x] /\ q + x \in 1..Len(c)
  BY <1>3, <1>4 DEF Swaps
<1>6. ASSUME NEW x \in 1..Len(c)
      PROVE  \/ x - p \in 1..Len(D) /\ c[x] = D[x - p]
             \/ x - q \in 1..Len(I) /\ c[x] = I[x - q]
             \/ ~Touches(c[x], id)
  <2>1. CASE x \in (p + 1)..(p + Len(D))
    <3>1. x - p \in 1..Len(D) /\ p + (x - p) = x
      BY <1>4, <1>5, <2>1
    <3> QED
      BY <1>5, <3>1
  <2>2. CASE x \in (q + 1)..(q + Len(I))
    <3>1. x - q \in 1..Len(I) /\ q + (x - q) = x
      BY <1>4, <1>5, <2>2
    <3> QED
      BY <1>5, <3>1
  <2> QED
    BY <1>3, <2>1, <2>2 DEF Swaps
<1>7. ASSUME NEW r \in Group(d, id) PROVE \E i \in 1..Len(c) : Addresses(c[i], r.k)
  <2>1. PICK x \in 1..Len(D) : D[x].keys = {r.k}
    BY <1>1
  <2>2. Addresses(D[x], r.k)
    BY <1>1, <2>1 DEF Addresses
  <2> QED
    BY <1>5, <2>2
<1>8. ASSUME NEW r \in Group(s, id)
      PROVE  \E j \in 1..Len(c) : Gives(c[j], r) /\ ~Later(c, j, r.k)
  <2>1. PICK x \in 1..Len(I) : I[x].rows = <<r>>
    BY <1>2
  <2>2. I[x].rows[1] = r /\ I[x].kind = "insert"
    BY <1>2, <2>1
  <2> DEFINE j == q + x
  <2>3. j \in 1..Len(c) /\ c[j] = I[x]
    BY <1>5
  <2>4. Gives(c[j], r)
    BY <2>2, <2>3 DEF Gives
  <2>5. KeyId[r.k] = id
    BY DEF Group
  <2>6. ASSUME NEW i \in (j + 1)..Len(c) PROVE ~Addresses(c[i], r.k)
    <3>1. i \in 1..Len(c) /\ ~(i - p \in 1..Len(D))
      BY <1>4, <1>5, <2>3
    <3>2. (\E y \in 1..Len(I) : c[i] = I[y]) \/ ~Touches(c[i], id)
      BY <1>6, <3>1
    <3> QED
      BY <1>2, <2>5, <3>2 DEF Addresses, Touches
  <2> QED
    BY <2>3, <2>4, <2>6 DEF Later
<1>9. ASSUME NEW i \in 1..Len(c), Touches(c[i], id) PROVE c[i].kind # "update"
  <2>1. c[i].kind \in {"delete", "insert"}
    BY <1>1, <1>2, <1>6, <1>9
  <2> QED
    BY <2>1
<1> QED
  BY <1>7, <1>8, <1>9 DEF Replaced

\* The hot chunk: all deletes come before all inserts.
LEMMA HotSwaps ==
  ASSUME NEW T, NEW id, NEW D \in Seq(T), NEW I \in Seq(T),
         NEW a \in Holding(T, D, id), NEW b \in Holding(T, I, id)
  PROVE  \E p, q : Swaps(a \o b, D, I, id, p, q)
<1> DEFINE c == a \o b
<1>1. PICK m \in Nat : PartAt(a, D, id, m)
  BY DEF Holding
<1>2. PICK l \in Nat : PartAt(b, I, id, l)
  BY DEF Holding
<1>3. /\ Len(c) = Len(a) + Len(b) /\ Len(a) \in Nat /\ Len(b) \in Nat
      /\ \A i \in 1..Len(a) : c[i] = a[i]
      /\ \A i \in 1..Len(b) : c[Len(a) + i] = b[i]
      /\ \A i \in 1..Len(c) : i \in 1..Len(a) \/ (i - Len(a) \in 1..Len(b) /\ i = Len(a) + (i - Len(a)))
  <2>1. a \in Seq(T) /\ b \in Seq(T)
    BY DEF Holding
  <2> QED
    BY <2>1, ConcatIs
<1>4. Len(D) \in Nat /\ Len(I) \in Nat
  OBVIOUS
<1> HIDE DEF c
<1> DEFINE q == Len(a) + l
<1>5. m + Len(D) <= Len(a) /\ l + Len(I) <= Len(b)
  BY <1>1, <1>2 DEF PartAt
<1>6. q \in Nat /\ m + Len(D) <= q /\ q + Len(I) <= Len(c)
  BY <1>3, <1>4, <1>5
<1>7. ASSUME NEW x \in 1..Len(D) PROVE c[m + x] = D[x]
  <2>1. m + x \in 1..Len(a)
    BY <1>3, <1>4, <1>5
  <2> QED
    BY <1>1, <1>3, <2>1 DEF PartAt
<1>8. ASSUME NEW x \in 1..Len(I) PROVE c[q + x] = I[x]
  <2>1. l + x \in 1..Len(b) /\ q + x = Len(a) + (l + x)
    BY <1>3, <1>4, <1>5
  <2> QED
    BY <1>2, <1>3, <2>1 DEF PartAt
<1>9. ASSUME NEW x \in 1..Len(c)
      PROVE  \/ x \in (m + 1)..(m + Len(D)) \/ x \in (q + 1)..(q + Len(I))
             \/ ~Touches(c[x], id)
  <2>1. CASE x \in 1..Len(a)
    BY <1>1, <1>3, <2>1 DEF PartAt
  <2>2. CASE x - Len(a) \in 1..Len(b) /\ x = Len(a) + (x - Len(a))
    <3>1. c[x] = b[x - Len(a)]
      BY <1>3, <2>2
    <3>2. x - Len(a) \in (l + 1)..(l + Len(I)) \/ ~Touches(b[x - Len(a)], id)
      BY <1>2, <2>2 DEF PartAt
    <3>3. x - Len(a) \in (l + 1)..(l + Len(I)) => x \in (q + 1)..(q + Len(I))
      BY <1>3, <1>4
    <3> QED
      BY <3>1, <3>2, <3>3
  <2> QED
    BY <1>3, <2>1, <2>2
<1> HIDE DEF q
<1>10. Swaps(c, D, I, id, m, q)
  BY <1>6, <1>7, <1>8, <1>9 DEF Swaps
<1> QED
  BY <1>10 DEF c

\* The plain chunk: the inserts follow the deletes at once.
LEMMA PlainSwaps ==
  ASSUME NEW T, NEW id, NEW D \in Seq(T), NEW I \in Seq(T),
         NEW c \in Holding(T, D \o I, id)
  PROVE  \E p, q : Swaps(c, D, I, id, p, q)
<1> DEFINE e == D \o I
<1>1. PICK m \in Nat : PartAt(c, e, id, m)
  BY DEF Holding
<1>2. /\ Len(e) = Len(D) + Len(I) /\ Len(D) \in Nat /\ Len(I) \in Nat
      /\ \A i \in 1..Len(D) : e[i] = D[i]
      /\ \A i \in 1..Len(I) : e[Len(D) + i] = I[i]
  BY ConcatIs
<1>3. Len(c) \in Nat
  BY DEF Holding
<1> HIDE DEF e
<1> DEFINE q == m + Len(D)
<1>4. m + Len(e) <= Len(c)
  BY <1>1 DEF PartAt
<1>5. q \in Nat /\ m + Len(D) <= q /\ q + Len(I) <= Len(c)
  BY <1>2, <1>3, <1>4
<1>6. ASSUME NEW x \in 1..Len(D) PROVE c[m + x] = D[x]
  <2>1. x \in 1..Len(e)
    BY <1>2
  <2> QED
    BY <1>1, <1>2, <2>1 DEF PartAt
<1>7. ASSUME NEW x \in 1..Len(I) PROVE c[q + x] = I[x]
  <2>1. Len(D) + x \in 1..Len(e) /\ q + x = m + (Len(D) + x)
    BY <1>2
  <2> QED
    BY <1>1, <1>2, <2>1 DEF PartAt
<1>8. ASSUME NEW x \in 1..Len(c)
      PROVE  \/ x \in (m + 1)..(m + Len(D)) \/ x \in (q + 1)..(q + Len(I))
             \/ ~Touches(c[x], id)
  <2>1. x \in (m + 1)..(m + Len(e)) \/ ~Touches(c[x], id)
    BY <1>1 DEF PartAt
  <2>2. x \in (m + 1)..(m + Len(e)) => x \in (m + 1)..(m + Len(D)) \/ x \in (q + 1)..(q + Len(I))
    BY <1>2
  <2> QED
    BY <2>1, <2>2
<1> HIDE DEF q
<1>9. Swaps(c, D, I, id, m, q)
  BY <1>5, <1>6, <1>7, <1>8 DEF Swaps
<1> QED
  BY <1>9

\* When the diff leaves a group alone and when it deletes it.
LEMMA KindIs ==
  ASSUME NEW s, NEW d
  PROVE  /\ Kind(s, d) = "noop" => SameMultiset(s, d)
         /\ Kind(s, d) = "delete" => s = {}
  BY DEF Kind

\* The ops of a plain group are the group's own.
LEMMA PlainOwn ==
  ASSUME NEW K, NEW s, NEW d, Sides(K, s, d), NEW id
  PROVE  PlainOps(s, d, id) \in Own(K, s, d, id)
<1> DEFINE kind == Kind(Group(s, id), Group(d, id))
           D == Deletes(Group(d, id))
           I == Inserts(Group(s, id))
<1>1. D \in Own(K, s, d, id) /\ I \in Own(K, s, d, id)
  BY GroupDeletes, GroupInserts DEF AreDeletes, AreInserts
<1>2. D \o I \in Own(K, s, d, id)
  BY <1>1, OwnConcat
<1>3. kind = "update" => << GroupOp("update", s, d, id) >> \in Own(K, s, d, id)
  BY GroupOpIs DEF IsGroupOp
<1>4. /\ kind = "noop" => PlainOps(s, d, id) = <<>>
      /\ kind = "update" => PlainOps(s, d, id) = << GroupOp("update", s, d, id) >>
      /\ kind \notin {"noop", "update"} => PlainOps(s, d, id) = D \o I
  BY DEF PlainOps, GroupOp
<1> HIDE DEF kind, D, I
<1> QED
  BY <1>2, <1>3, <1>4, OwnNone

\* The ops of a hot group are the group's own, in both phases.
LEMMA HotOwn ==
  ASSUME NEW K, NEW s, NEW d, Sides(K, s, d), NEW id
  PROVE  HotDeletes(s, d, id) \in Own(K, s, d, id) /\ HotInserts(s, d, id) \in Own(K, s, d, id)
<1> DEFINE kind == Kind(Group(s, id), Group(d, id))
           D == Deletes(Group(d, id))
           I == Inserts(Group(s, id))
<1>1. D \in Own(K, s, d, id) /\ I \in Own(K, s, d, id)
  BY GroupDeletes, GroupInserts DEF AreDeletes, AreInserts
<1>2. << GroupOp("rewrite", s, d, id) >> \in Own(K, s, d, id)
  BY GroupOpIs DEF IsGroupOp
<1>3. HotDeletes(s, d, id) \in {<<>>, D, << GroupOp("rewrite", s, d, id) >>}
  <2>1. CASE kind = "noop"
    BY <2>1 DEF HotDeletes, GroupOp
  <2>2. CASE kind # "noop"
    BY <2>2 DEF HotDeletes, GroupOp
  <2> QED
    BY <2>1, <2>2
<1>4. HotInserts(s, d, id) \in {<<>>, I}
  BY DEF HotInserts
<1> HIDE DEF kind, D, I
<1> QED
  BY <1>1, <1>2, <1>3, <1>4, OwnNone

\* Ops that hold one op of a group hold it at one place only.
LEMMA HoldsOne ==
  ASSUME NEW T, NEW id, NEW op, NEW c \in Holding(T, <<op>>, id)
  PROVE  \E j \in 1..Len(c) : c[j] = op /\ \A i \in 1..Len(c) : i # j => ~Touches(c[i], id)
<1>1. PICK m \in Nat : PartAt(c, <<op>>, id, m)
  BY DEF Holding
<1>2. Len(<<op>>) = 1 /\ <<op>>[1] = op /\ Len(c) \in Nat
  BY DEF Holding
<1> DEFINE q == <<op>>
<1> HIDE DEF q
<1>3. Len(q) = 1 /\ q[1] = op /\ PartAt(c, q, id, m)
  BY <1>1, <1>2 DEF q
<1>4. m + 1 <= Len(c) /\ 1 \in 1..Len(q) /\ (m + 1)..(m + Len(q)) = {m + 1}
  BY <1>3 DEF PartAt
<1>5. m + 1 \in 1..Len(c) /\ c[m + 1] = op
  BY <1>2, <1>3, <1>4 DEF PartAt
<1>6. \A i \in 1..Len(c) : i # m + 1 => ~Touches(c[i], id)
  BY <1>3, <1>4 DEF PartAt
<1> QED
  BY <1>5, <1>6

\* A rewrite op replaces its group.
LEMMA RewriteReplaces ==
  ASSUME NEW K, NEW s, NEW d, Sides(K, s, d), NEW id,
         NEW c \in Holding(OpsOver(K), << GroupOp("rewrite", s, d, id) >>, id)
  PROVE  Replaced(c, s, d, id)
<1> DEFINE op == GroupOp("rewrite", s, d, id)
<1>1. op.kind = "rewrite" /\ op.keys = {r.k : r \in Group(d, id)}
      /\ \A r \in Group(s, id) : r \in ToSet(op.rows)
  <2>1. IsGroupOp(op, "rewrite", K, s, d, id)
    BY GroupOpIs
  <2> HIDE DEF op
  <2> QED
    BY <2>1 DEF IsGroupOp
<1> HIDE DEF op
<1>2. PICK j \in 1..Len(c) : c[j] = op /\ \A i \in 1..Len(c) : i # j => ~Touches(c[i], id)
  BY HoldsOne DEF op
<1>3. ASSUME NEW r \in Group(d, id) PROVE \E i \in 1..Len(c) : Addresses(c[i], r.k)
  BY <1>1, <1>2 DEF Addresses
<1>4. ASSUME NEW r \in Group(s, id)
      PROVE  \E i \in 1..Len(c) : Gives(c[i], r) /\ ~Later(c, i, r.k)
  <2>1. Gives(c[j], r)
    BY <1>1, <1>2 DEF Gives
  <2>2. KeyId[r.k] = id
    BY DEF Group
  <2>3. \A i \in (j + 1)..Len(c) : i \in 1..Len(c) /\ i # j
    OBVIOUS
  <2>4. ~Later(c, j, r.k)
    BY <1>2, <2>2, <2>3 DEF Later, Addresses, Touches
  <2> QED
    BY <2>1, <2>4
<1>5. ASSUME NEW i \in 1..Len(c), Touches(c[i], id) PROVE c[i].kind # "update"
  BY <1>1, <1>2, <1>5
<1> QED
  BY <1>3, <1>4, <1>5 DEF Replaced

\* An updated group has that one op.
LEMMA UpdatesOnce ==
  ASSUME NEW K, NEW s, NEW d, Sides(K, s, d), NEW id,
         Kind(Group(s, id), Group(d, id)) = "update",
         NEW c \in Holding(OpsOver(K), << GroupOp("update", s, d, id) >>, id)
  PROVE  UpdatedOnce(c, s, d, id)
<1> DEFINE op == GroupOp("update", s, d, id)
<1>1. /\ op.kind = "update" /\ op.keys = {r.k : r \in Group(d, id)}
      /\ \E row, r0 : /\ Group(s, id) = {row} /\ Group(d, id) = {r0}
                      /\ op.rows[1] = row
  <2>1. IsGroupOp(op, "update", K, s, d, id)
    BY GroupOpIs
  <2> HIDE DEF op
  <2> QED
    BY <2>1 DEF IsGroupOp
<1> HIDE DEF op
<1>2. PICK j \in 1..Len(c) : c[j] = op /\ \A i \in 1..Len(c) : i # j => ~Touches(c[i], id)
  BY HoldsOne DEF op
<1>3. PICK row, r0 : /\ Group(s, id) = {row} /\ Group(d, id) = {r0}
                     /\ op.rows[1] = row
  BY <1>1
<1>4. op.keys = {r0.k}
  BY <1>1, <1>3
<1> QED
  BY <1>1, <1>2, <1>3, <1>4 DEF UpdatedOnce

\* A group with no rows on either side is replaced by nothing.
LEMMA AwayReplaces ==
  ASSUME NEW K, NEW s, NEW d, NEW id, id \notin GroupIds(s \cup d),
         NEW c \in Away(OpsOver(K), id)
  PROVE  Replaced(c, s, d, id)
<1>1. Group(s, id) = {} /\ Group(d, id) = {}
  BY DEF Group, GroupIds
<1> QED
  BY <1>1 DEF Replaced, Away

Treated(c, s, d, id) ==
  Untouched(c, s, d, id) \/ Replaced(c, s, d, id) \/ UpdatedOnce(c, s, d, id)

\* The plain diff treats every group.
LEMMA PlainGroups ==
  ASSUME NEW K, NEW s, NEW d, Sides(K, s, d), NEW id
  PROVE  Treated(DiffPlain(s, d), s, d, id) /\ DiffPlain(s, d) \in AllOwn(K, s, d)
<1> DEFINE ids  == GroupIds(s \cup d)
           n    == Cardinality(ids)
           seqs == [i \in 1..n |-> PlainOps(s, d, InOrder(ids)[i])]
           c    == DiffPlain(s, d)
<1>1. c = FlattenSeq(seqs)
  BY DEF DiffPlain, ForEachId, PlainOps
<1>2. ids \subseteq Int /\ IsFiniteSet(ids)
  <2>1. s \cup d \subseteq Row
    BY DEF Sides, Matching
  <2>2. \A r \in s \cup d : KeyId[r.k] \in Int
    BY <2>1, RowAssumption DEF Sides, Row, Keys, KeyId
  <2> QED
    BY <2>1, <2>2, GroupIdsFinite DEF Sides, GroupIds
<1> HIDE DEF ids
<1>3. \A i \in 1..n : seqs[i] = PlainOps(s, d, InOrder(ids)[i])
  OBVIOUS
<1>4. \A i \in 1..n : seqs[i] \in Own(K, s, d, InOrder(ids)[i])
  BY <1>3, PlainOwn
<1>5. seqs \in [1..n -> Seq(OpsOver(K))]
  BY <1>4 DEF Own
<1> HIDE DEF seqs, n, c
<1>6. Pieces(seqs, ids, K, s, d)
  BY <1>2, <1>4, <1>5 DEF Pieces, n
<1>7. c \in AllOwn(K, s, d) /\ Len(c) \in Nat
  <2>1. c \in AllOwn(K, s, d)
    BY <1>1, <1>6, PiecesOwn
  <2> QED
    BY <2>1 DEF AllOwn
<1>8. CASE id \notin ids
  <2>1. c \in Away(OpsOver(K), id)
    BY <1>1, <1>6, <1>8, PiecesAway
  <2> QED
    BY <1>7, <1>8, <2>1, AwayReplaces DEF Treated, c, ids
<1>9. CASE id \in ids
  <2>1. PICK i \in 1..n : InOrder(ids)[i] = id /\ c \in Holding(OpsOver(K), seqs[i], id)
    BY <1>1, <1>6, <1>9, PiecesHold DEF n
  <2>2. c \in Holding(OpsOver(K), PlainOps(s, d, id), id)
    BY <1>3, <2>1
  <2> DEFINE kind == Kind(Group(s, id), Group(d, id))
             D == Deletes(Group(d, id))
             I == Inserts(Group(s, id))
  <2>3. /\ kind = "noop" => PlainOps(s, d, id) = <<>>
        /\ kind = "update" => PlainOps(s, d, id) = << GroupOp("update", s, d, id) >>
        /\ kind \notin {"noop", "update"} => PlainOps(s, d, id) = D \o I
    BY DEF PlainOps, GroupOp
  <2>4. CASE kind = "noop"
    <3>1. c \in Away(OpsOver(K), id)
      BY <2>2, <2>3, <2>4, HoldsNone
    <3>2. SameMultiset(Group(s, id), Group(d, id))
      BY <2>4, KindIs
    <3>3. Untouched(c, s, d, id)
      BY <3>1, <3>2 DEF Untouched, Away
    <3> QED
      BY <1>7, <3>3 DEF Treated, c
  <2>5. CASE kind = "update"
    <3>1. UpdatedOnce(c, s, d, id)
      BY <2>2, <2>3, <2>5, UpdatesOnce
    <3> QED
      BY <1>7, <3>1 DEF Treated, c
  <2>6. CASE kind \notin {"noop", "update"}
    <3>1. D \in Seq(OpsOver(K)) /\ I \in Seq(OpsOver(K))
      BY GroupDeletes, GroupInserts DEF AreDeletes, AreInserts, Own
    <3>2. c \in Holding(OpsOver(K), D \o I, id)
      BY <2>2, <2>3, <2>6
    <3> HIDE DEF D, I
    <3>3. \E p, q : Swaps(c, D, I, id, p, q)
      BY <3>1, <3>2, PlainSwaps
    <3>4. Replaced(c, s, d, id)
      BY <1>7, <3>3, SwapsReplace DEF D, I
    <3> QED
      BY <1>7, <3>4 DEF Treated, c
  <2> QED
    BY <2>4, <2>5, <2>6
<1> QED
  BY <1>8, <1>9

\* The two-phase diff treats every group.
LEMMA HotGroups ==
  ASSUME NEW K, NEW s, NEW d, Sides(K, s, d), NEW id
  PROVE  Treated(DiffHot(s, d), s, d, id) /\ DiffHot(s, d) \in AllOwn(K, s, d)
<1> DEFINE ids  == GroupIds(s \cup d)
           n    == Cardinality(ids)
           dels == [i \in 1..n |-> HotDeletes(s, d, InOrder(ids)[i])]
           ins  == [i \in 1..n |-> HotInserts(s, d, InOrder(ids)[i])]
           a    == FlattenSeq(dels)
           b    == FlattenSeq(ins)
           c    == DiffHot(s, d)
           T    == OpsOver(K)
<1>1. c = a \o b
  BY DEF DiffHot, ForEachId, HotDeletes, HotInserts
<1>2. ids \subseteq Int /\ IsFiniteSet(ids)
  <2>1. s \cup d \subseteq Row
    BY DEF Sides, Matching
  <2>2. \A r \in s \cup d : KeyId[r.k] \in Int
    BY <2>1, RowAssumption DEF Sides, Row, Keys, KeyId
  <2> QED
    BY <2>1, <2>2, GroupIdsFinite DEF Sides, GroupIds
<1> HIDE DEF ids
<1>3. \A i \in 1..n : /\ dels[i] = HotDeletes(s, d, InOrder(ids)[i])
                      /\ ins[i] = HotInserts(s, d, InOrder(ids)[i])
  OBVIOUS
<1>4. \A i \in 1..n : /\ dels[i] \in Own(K, s, d, InOrder(ids)[i])
                      /\ ins[i] \in Own(K, s, d, InOrder(ids)[i])
  BY <1>3, HotOwn
<1>5. dels \in [1..n -> Seq(T)] /\ ins \in [1..n -> Seq(T)]
  BY <1>4 DEF Own
<1> HIDE DEF dels, ins, n
<1>6. Pieces(dels, ids, K, s, d) /\ Pieces(ins, ids, K, s, d)
  BY <1>2, <1>4, <1>5 DEF Pieces, n
<1> HIDE DEF c
<1>7. c \in AllOwn(K, s, d) /\ Len(c) \in Nat /\ c \in Seq(T)
  <2>1. a \in AllOwn(K, s, d) /\ b \in AllOwn(K, s, d)
    BY <1>6, PiecesOwn
  <2> HIDE DEF a, b
  <2>2. c \in AllOwn(K, s, d)
    BY <1>1, <2>1, AllOwnConcat
  <2> QED
    BY <2>2 DEF AllOwn
<1>8. CASE id \notin ids
  <2>1. a \in Away(T, id) /\ b \in Away(T, id)
    BY <1>6, <1>8, PiecesAway
  <2> HIDE DEF a, b
  <2>2. c \in Away(T, id)
    BY <1>1, <2>1, AwayConcat
  <2> QED
    BY <1>7, <1>8, <2>2, AwayReplaces DEF Treated, c, ids
<1>9. CASE id \in ids
  <2>1. PICK i \in 1..n : InOrder(ids)[i] = id /\ a \in Holding(T, dels[i], id)
    BY <1>6, <1>9, PiecesHold DEF n
  <2>2. PICK j \in 1..n : InOrder(ids)[j] = id /\ b \in Holding(T, ins[j], id)
    BY <1>6, <1>9, PiecesHold DEF n
  <2>3. dels[i] = HotDeletes(s, d, id) /\ ins[j] = HotInserts(s, d, id)
    BY <1>3, <2>1, <2>2
  <2> HIDE DEF a, b
  <2> DEFINE kind == Kind(Group(s, id), Group(d, id))
             D == Deletes(Group(d, id))
             I == Inserts(Group(s, id))
  <2>4. /\ kind = "noop" /\ ~Rewritten(s, d, id) => dels[i] = <<>>
        /\ kind = "noop" /\ Rewritten(s, d, id) => dels[i] = << GroupOp("rewrite", s, d, id) >>
        /\ kind # "noop" => dels[i] = D
        /\ kind \in {"noop", "delete"} => ins[j] = <<>>
        /\ kind \notin {"noop", "delete"} => ins[j] = I
    BY <2>3 DEF HotDeletes, HotInserts, Writes, GroupOp
  <2>5. kind = "delete" => I = <<>>
    <3>1. ASSUME kind = "delete" PROVE Cardinality(Group(s, id)) = 0
      BY <3>1, KindIs, FS_EmptySet
    <3>2. Cardinality(Group(s, id)) = 0 => Inserts(Group(s, id)) = <<>>
      BY DEF Inserts
    <3> QED
      BY <3>1, <3>2
  <2>6. D \in Seq(T) /\ I \in Seq(T)
    BY GroupDeletes, GroupInserts DEF AreDeletes, AreInserts, Own
  <2>7. CASE kind = "noop"
    <3>1. b \in Away(T, id)
      BY <2>2, <2>4, <2>7, HoldsNone
    <3>2. CASE ~Rewritten(s, d, id)
      <4>1. a \in Away(T, id)
        BY <2>1, <2>4, <2>7, <3>2, HoldsNone
      <4>2. c \in Away(T, id)
        BY <1>1, <3>1, <4>1, AwayConcat
      <4>3. Untouched(c, s, d, id)
        BY <2>7, <4>2, KindIs DEF Untouched, Away
      <4> QED
        BY <1>7, <4>3 DEF Treated, c
    <3>3. CASE Rewritten(s, d, id)
      <4> DEFINE q == << GroupOp("rewrite", s, d, id) >>
      <4>1. a \in Holding(T, q, id) /\ q \in Seq(T)
        <5>1. q \in Seq(T)
          BY GroupOpIs DEF IsGroupOp, Own
        <5> QED
          BY <2>1, <2>4, <2>7, <3>3, <5>1
      <4> HIDE DEF q
      <4>2. c \in Holding(T, q, id)
        BY <1>1, <3>1, <4>1, PartBefore
      <4>3. Replaced(c, s, d, id)
        BY <4>2, RewriteReplaces DEF q
      <4> QED
        BY <1>7, <4>3 DEF Treated, c
    <3> QED
      BY <3>2, <3>3
  <2>8. CASE kind # "noop"
    <3>1. a \in Holding(T, D, id) /\ b \in Holding(T, I, id)
      <4>1. ins[j] = I
        BY <2>4, <2>5, <2>8
      <4> QED
        BY <2>1, <2>2, <2>4, <2>8, <4>1
    <3> HIDE DEF D, I, T
    <3>2. \E p, q : Swaps(c, D, I, id, p, q)
      BY <1>1, <2>6, <3>1, HotSwaps
    <3>3. Replaced(c, s, d, id)
      BY <1>7, <3>2, SwapsReplace DEF D, I
    <3> QED
      BY <1>7, <3>3 DEF Treated, c
  <2> QED
    BY <2>7, <2>8
<1> QED
  BY <1>8, <1>9, <1>7 DEF c

\* The ops of a chunk are ops of its groups, and each group is treated.
LEMMA DiffGroups ==
  ASSUME NEW K, NEW s, NEW d, Sides(K, s, d)
  PROVE  /\ Diff(s, d) \in AllOwn(K, s, d)
         /\ \A id : Treated(Diff(s, d), s, d, id)
<1>1. Diff(s, d) = IF Hot(s, d) THEN DiffHot(s, d) ELSE DiffPlain(s, d)
  BY DEF Diff
<1> QED
  BY <1>1, HotGroups, PlainGroups

-----------------------------------------------------------------------------
(***************************************************************************)
(* A chunk's transaction that commits.  Out are the rows that the pass     *)
(* over the rows outside the source's extremes deletes before.             *)
(***************************************************************************)

\* Which ops address and write what.
LEMMA OpsAre ==
  ASSUME NEW K, NEW s, NEW d, Sides(K, s, d), NEW ops \in AllOwn(K, s, d),
         NEW i \in 1..Len(ops), NEW r
  PROVE  /\ ops[i] \in OpsOver(K) /\ OneKey(ops[i])
         /\ Addresses(ops[i], r.k) => (\E x \in d : x.k = r.k) /\ Touches(ops[i], KeyId[r.k])
         /\ Gives(ops[i], r) => r \in s /\ Touches(ops[i], KeyId[r.k])
         /\ Updates(ops[i], r) => (\E x \in d : x.k = r.k) /\ Touches(ops[i], KeyId[r.k])
                                  /\ Addresses(ops[i], r.k)
<1> DEFINE op == ops[i]
<1>1. op \in OpsOver(K) /\ \E id : IsOf(op, s, d, id)
  BY DEF AllOwn
<1>2. PICK id : IsOf(op, s, d, id)
  BY <1>1
<1> HIDE DEF op
<1>3. Group(d, id) \subseteq d /\ Group(s, id) \subseteq s
  BY DEF Group
<1>4. OneKey(op) /\ (\A k \in op.keys : \E x \in d : x.k = k) /\ ToSet(op.rows) \subseteq s
  BY <1>2, <1>3 DEF IsOf
<1>5. op.kind = "insert" => op.rows[1] \in ToSet(op.rows)
  BY <1>1 DEF OpsOver, ToSet
<1>6. Gives(op, r) => r \in ToSet(op.rows)
  BY <1>5 DEF Gives
<1>7. Updates(op, r) => r.k \in op.keys /\ Addresses(op, r.k)
  BY DEF Updates, Addresses
<1> QED
  BY <1>1, <1>4, <1>6, <1>7 DEF Touches, Addresses, op

\* The committed rows of the chunk.
Committed(now, ops, s, d, Out) ==
  /\ \A r \in now : \/ r \in d \ Out /\ \A i \in 1..Len(ops) : ~Addresses(ops[i], r.k)
                    \/ \E i \in 1..Len(ops) : Gives(ops[i], r) \/ Updates(ops[i], r)
  /\ \A r \in d \ Out : (\A i \in 1..Len(ops) : ~Addresses(ops[i], r.k)) => r \in now
  /\ \A r \in s, j \in 1..Len(ops) : Gives(ops[j], r) /\ ~Later(ops, j, r.k) => r \in now
  /\ \A r \in d \ Out, j \in 1..Len(ops) :
       ops[j].kind = "update" /\ ops[j].keys = {r.k} /\ OnlyOne(ops, j, r.k) =>
         [ops[j].rows[1] EXCEPT !.k = r.k] \in now

\* Rows of one key are outside together, and so are the rows of one group.
Uniform(s, d, Out) ==
  /\ \A r, x \in Row : r.k = x.k => (r \in Out <=> x \in Out)
  /\ \A r, x \in s \cup d : KeyId[r.k] = KeyId[x.k] => (r \in Out <=> x \in Out)

\* A replaced group has the source's rows.
LEMMA GroupReplacedBy ==
  ASSUME NEW K, NEW s, NEW d, Sides(K, s, d), NEW ops \in AllOwn(K, s, d), NEW id,
         NEW Out, Uniform(s, d, Out), NEW now \in SUBSET Row, Committed(now, ops, s, d, Out),
         Replaced(ops, s, d, id)
  PROVE  Group(now \ Out, id) = Group(s \ Out, id)
<1>1. ASSUME NEW r \in now, KeyId[r.k] = id PROVE r \in s
  <2>1. CASE r \in d
    <3>1. r \in Group(d, id)
      BY <1>1, <2>1 DEF Group
    <3>2. \E i \in 1..Len(ops) : Addresses(ops[i], r.k)
      BY <3>1 DEF Replaced
    <3>3. PICK i \in 1..Len(ops) : Gives(ops[i], r) \/ Updates(ops[i], r)
      BY <3>2 DEF Committed
    <3>4. Updates(ops[i], r) => Touches(ops[i], id) /\ ops[i].kind = "update"
      BY <1>1, OpsAre DEF Updates
    <3> QED
      BY <3>3, <3>4, OpsAre DEF Replaced
  <2>2. CASE r \notin d
    <3>1. PICK i \in 1..Len(ops) : Gives(ops[i], r) \/ Updates(ops[i], r)
      BY <2>2 DEF Committed
    <3>2. Updates(ops[i], r) => Touches(ops[i], id) /\ ops[i].kind = "update"
      BY <1>1, OpsAre DEF Updates
    <3> QED
      BY <3>1, <3>2, OpsAre DEF Replaced
  <2> QED
    BY <2>1, <2>2
<1>2. ASSUME NEW r \in s, KeyId[r.k] = id PROVE r \in now
  <2>1. r \in Group(s, id)
    BY <1>2 DEF Group
  <2> QED
    BY <2>1 DEF Replaced, Committed
<1> QED
  BY <1>1, <1>2 DEF Group

\* A group that no op touches has the rows it had.
LEMMA GroupUntouched ==
  ASSUME NEW K, NEW s, NEW d, Sides(K, s, d), NEW ops \in AllOwn(K, s, d), NEW id,
         NEW Out, Uniform(s, d, Out), NEW now \in SUBSET Row, Committed(now, ops, s, d, Out),
         \A i \in 1..Len(ops) : ~Touches(ops[i], id)
  PROVE  Group(now \ Out, id) = Group(d \ Out, id)
<1>1. ASSUME NEW r \in now, KeyId[r.k] = id PROVE r \in d
  BY <1>1, OpsAre DEF Committed
<1>2. ASSUME NEW r \in d \ Out, KeyId[r.k] = id PROVE r \in now
  BY <1>2, OpsAre DEF Committed
<1> QED
  BY <1>1, <1>2 DEF Group

\* Two rows of one canonical form compare as equal.
LEMMA OneOfEach ==
  ASSUME NEW a, NEW b, CanonRow(a) = CanonRow(b)
  PROVE  Same({a}, {b})
<1> SUFFICES ASSUME NEW c PROVE Cardinality(Alike({a}, c)) = Cardinality(Alike({b}, c))
  BY DEF Same
<1>1. CASE CanonRow(a) = c
  <2>1. Alike({a}, c) = {a} /\ Alike({b}, c) = {b}
    BY <1>1, Zenon DEF Alike
  <2> QED
    BY <2>1, FS_Singleton
<1>2. CASE CanonRow(a) # c
  <2>1. Alike({a}, c) = {} /\ Alike({b}, c) = {}
    BY <1>2, Zenon DEF Alike
  <2> QED
    BY <2>1
<1> QED
  BY <1>1, <1>2

\* An updated group compares equal to the source's.
LEMMA GroupUpdatedBy ==
  ASSUME NEW K, NEW s, NEW d, Sides(K, s, d), NEW ops \in AllOwn(K, s, d), NEW id,
         NEW Out, Uniform(s, d, Out), NEW now \in SUBSET Row, Committed(now, ops, s, d, Out),
         UpdatedOnce(ops, s, d, id)
  PROVE  Same(Group(now \ Out, id), Group(s \ Out, id))
<1>1. PICK j \in 1..Len(ops), row \in Group(s, id), r0 \in Group(d, id) :
        /\ Group(s, id) = {row} /\ Group(d, id) = {r0}
        /\ ops[j].kind = "update" /\ ops[j].keys = {r0.k} /\ ops[j].rows[1] = row
        /\ \A i \in 1..Len(ops) : i # j => ~Touches(ops[i], id)
  BY DEF UpdatedOnce
<1> DEFINE n == [row EXCEPT !.k = r0.k]
<1>2. /\ row \in s /\ r0 \in d /\ KeyId[row.k] = id /\ KeyId[r0.k] = id
      /\ row \in Row /\ r0 \in Row
  BY DEF Group, Sides, Matching
<1>3. n \in Row /\ n.k = r0.k /\ n.u = row.u /\ n.p = row.p
  BY <1>2 DEF Row
<1>4. CanonRow(n) = CanonRow(row)
  BY <1>2, <1>3 DEF CanonRow
<1>5. r0.k = r0.k /\ (r0 \in Out <=> n \in Out) /\ (r0 \in Out <=> row \in Out)
  BY <1>2, <1>3 DEF Uniform
<1>6. ASSUME NEW x \in now, KeyId[x.k] = id PROVE x = n
  <2>1. CASE x \in d \ Out /\ \A i \in 1..Len(ops) : ~Addresses(ops[i], x.k)
    <3>1. x = r0
      BY <1>1, <1>6, <2>1 DEF Group
    <3>2. Addresses(ops[j], r0.k)
      BY <1>1 DEF Addresses
    <3> QED
      BY <2>1, <3>1, <3>2
  <2>2. CASE \E i \in 1..Len(ops) : Gives(ops[i], x) \/ Updates(ops[i], x)
    <3>1. PICK i \in 1..Len(ops) : Gives(ops[i], x) \/ Updates(ops[i], x)
      BY <2>2
    <3>2. Touches(ops[i], id)
      BY <1>6, <3>1, OpsAre
    <3>3. i = j
      BY <1>1, <3>2
    <3>4. Updates(ops[j], x)
      BY <1>1, <3>1, <3>3 DEF Gives
    <3>5. x.k = r0.k /\ x = [row EXCEPT !.k = x.k]
      BY <1>1, <3>4 DEF Updates
    <3> QED
      BY <3>5
  <2> QED
    BY <1>6, <2>1, <2>2 DEF Committed
<1>7. r0 \notin Out => n \in now
  <2> HAVE r0 \notin Out
  <2>1. OnlyOne(ops, j, r0.k)
    <3> SUFFICES ASSUME NEW i \in 1..Len(ops), i # j, Addresses(ops[i], r0.k) PROVE FALSE
      BY DEF OnlyOne
    <3>1. Touches(ops[i], id)
      BY <1>2, OpsAre
    <3> QED
      BY <1>1, <3>1
  <2> QED
    BY <1>1, <1>2, <2>1 DEF Committed
<1> HIDE DEF n
<1>8. CASE r0 \in Out
  <2>1. Group(now \ Out, id) = {} /\ Group(s \ Out, id) = {}
    BY <1>1, <1>5, <1>6, <1>8 DEF Group
  <2> QED
    BY <2>1, SameSelf
<1>9. CASE r0 \notin Out
  <2>1. Group(now \ Out, id) = {n}
    BY <1>2, <1>3, <1>5, <1>6, <1>7, <1>9 DEF Group
  <2>2. Group(s \ Out, id) = {row}
    BY <1>1, <1>5, <1>9 DEF Group
  <2>3. Same({n}, {row})
    BY <1>4, OneOfEach
  <2> QED
    BY <2>1, <2>2, <2>3
<1> QED
  BY <1>8, <1>9

\* A group the diff finds equal still is without the rows outside.
LEMMA GroupKept ==
  ASSUME NEW K, NEW s, NEW d, Sides(K, s, d), NEW id, NEW Out, Uniform(s, d, Out),
         SameMultiset(Group(s, id), Group(d, id))
  PROVE  Same(Group(d \ Out, id), Group(s \ Out, id))
<1>1. IsFiniteSet(Group(s, id)) /\ IsFiniteSet(Group(d, id))
  BY GroupFacts DEF Sides
<1>2. Same(Group(s, id), Group(d, id))
  BY <1>1, SameIs
<1>3. Same(Group(d, id), Group(s, id))
  BY <1>2 DEF Same
<1>4. CASE \E x \in s \cup d : KeyId[x.k] = id /\ x \in Out
  <2>1. Group(d \ Out, id) = {} /\ Group(s \ Out, id) = {}
    BY <1>4 DEF Uniform, Group
  <2> QED
    BY <2>1, SameSelf
<1>5. CASE ~\E x \in s \cup d : KeyId[x.k] = id /\ x \in Out
  <2>1. Group(d \ Out, id) = Group(d, id) /\ Group(s \ Out, id) = Group(s, id)
    BY <1>5 DEF Group
  <2> QED
    BY <1>3, <2>1
<1> QED
  BY <1>4, <1>5

\* Tables that agree group by group are equal.
LEMMA SameByGroup ==
  ASSUME NEW a, NEW b, \A id : Same(Group(a, id), Group(b, id))
  PROVE  Same(a, b)
<1> SUFFICES ASSUME NEW c PROVE Cardinality(Alike(a, c)) = Cardinality(Alike(b, c))
  BY DEF Same
<1>1. Alike(a, c) = Alike(Group(a, c[1]), c) /\ Alike(b, c) = Alike(Group(b, c[1]), c)
  BY DEF Alike, Group, CanonRow
<1> QED
  BY <1>1 DEF Same

\* A committed chunk holds the rows of the source the plan read.
LEMMA CommittedSame ==
  ASSUME NEW K, NEW s, NEW d, Sides(K, s, d), NEW Out, Uniform(s, d, Out),
         NEW now \in SUBSET Row, Committed(now, Diff(s, d), s, d, Out)
  PROVE  Same(now \ Out, s \ Out)
<1> DEFINE ops == Diff(s, d)
<1>1. ops \in AllOwn(K, s, d) /\ \A id : Treated(ops, s, d, id)
  BY DiffGroups
<1> HIDE DEF ops
<1>2. Committed(now, ops, s, d, Out)
  BY DEF ops
<1>3. ASSUME NEW id PROVE Same(Group(now \ Out, id), Group(s \ Out, id))
  <2>1. CASE Untouched(ops, s, d, id)
    <3>1. Group(now \ Out, id) = Group(d \ Out, id)
      BY <1>1, <1>2, <2>1, GroupUntouched DEF Untouched
    <3>2. Same(Group(d \ Out, id), Group(s \ Out, id))
      BY <2>1, GroupKept DEF Untouched
    <3> QED
      BY <3>1, <3>2
  <2>2. CASE Replaced(ops, s, d, id)
    BY <1>1, <1>2, <2>2, GroupReplacedBy, SameSelf
  <2>3. CASE UpdatedOnce(ops, s, d, id)
    BY <1>1, <1>2, <2>3, GroupUpdatedBy
  <2> QED
    BY <1>1, <2>1, <2>2, <2>3 DEF Treated
<1> QED
  BY <1>3, SameByGroup

OfChunk(ch) == InChunk(Matching(Row), ch)

\* What is known of the table that a chunk's transaction starts from.
Ready(K, stay, rows, ch, s, d, Out) ==
  /\ Sides(K, s, d) /\ Apart(K, stay) /\ TableOK(rows, stay)
  /\ s \subseteq OfChunk(ch) /\ d \subseteq OfChunk(ch)
  /\ InChunk(Matching(rows), ch) = d \ Out

\* What a chunk's ops leave of the table the plan read.
LEMMA ChunkResult ==
  ASSUME NEW K, NEW stay, NEW rows, NEW ch, NEW s, NEW d, NEW Out,
         Ready(K, stay, rows, ch, s, d, Out), ~RunOps(rows, Diff(s, d)).dup
  PROVE  /\ Result(rows, Diff(s, d), RunOps(rows, Diff(s, d)).rows)
         /\ RunOps(rows, Diff(s, d)).rows \in SUBSET Row
<1>1. Sides(K, s, d) /\ Apart(K, stay) /\ TableOK(rows, stay)
  BY DEF Ready
<1>2. Diff(s, d) \in AllOwn(K, s, d)
  BY <1>1, DiffGroups
<1> DEFINE ops == Diff(s, d)
<1>3. ops \in Seq(OpsOver(K)) /\ \A i \in 1..Len(ops) : \E id : IsOf(ops[i], s, d, id)
  BY <1>2 DEF AllOwn
<1>4. \A i \in 1..Len(ops) : OneKey(ops[i])
  BY <1>3 DEF IsOf
<1> HIDE DEF ops
<1>5. ~RunOps(rows, ops).dup
  BY DEF ops
<1>6. Result(rows, ops, RunOps(rows, ops).rows)
  BY <1>1, <1>3, <1>4, <1>5, RunOpsResult
<1>7. TableOK(RunOps(rows, ops).rows, stay)
  BY <1>1, <1>3, RunOpsOK
<1>8. RunOps(rows, ops).rows \in SUBSET Row
  BY <1>7 DEF TableOK
<1> QED
  BY <1>6, <1>8 DEF ops

\* A chunk's transaction commits what Committed says, and nothing outside
\* the chunk.
LEMMA ChunkCommitted ==
  ASSUME NEW K, NEW stay, NEW rows, NEW ch, NEW s, NEW d, NEW Out,
         Ready(K, stay, rows, ch, s, d, Out), NEW ops \in AllOwn(K, s, d),
         NEW new \in SUBSET Row, Result(rows, ops, new)
  PROVE  /\ Committed(InChunk(Matching(new), ch), ops, s, d, Out)
         /\ \A r \in Row : ~Selects(ch, <<r.k>>) => (r \in new <=> r \in rows)
<1>1. /\ Sides(K, s, d) /\ InChunk(Matching(rows), ch) = d \ Out /\ rows \subseteq Row
      /\ setting \in Settings
  BY DEF Ready, TableOK, Sides
<1>2. \A r \in s \cup d : r \in Row /\ r.p \in setting.matched /\ Selects(ch, <<r.k>>)
  BY DEF Ready, OfChunk, InChunk, Matching
<1>3. \A r \in d \ Out : r \in rows
  BY <1>1 DEF InChunk, Matching
<1> DEFINE now == InChunk(Matching(new), ch)
<1>4. \A r : r \in now <=> r \in new /\ r.p \in setting.matched /\ Selects(ch, <<r.k>>)
  BY DEF InChunk, Matching
<1>5. \A r \in rows : r.p \in setting.matched /\ Selects(ch, <<r.k>>) => r \in d \ Out
  BY <1>1 DEF InChunk, Matching
<1> HIDE DEF now
<1>6. ASSUME NEW r \in now
      PROVE  \/ r \in d \ Out /\ \A i \in 1..Len(ops) : ~Addresses(ops[i], r.k)
             \/ \E i \in 1..Len(ops) : Gives(ops[i], r) \/ Updates(ops[i], r)
  BY <1>4, <1>5 DEF Result, Explained
<1>7. ASSUME NEW r \in d \ Out, \A i \in 1..Len(ops) : ~Addresses(ops[i], r.k) PROVE r \in now
  <2>1. ~Later(ops, 0, r.k)
    BY <1>7 DEF Later
  <2> QED
    BY <1>2, <1>3, <1>4, <2>1 DEF Result
<1>8. ASSUME NEW r \in s, NEW j \in 1..Len(ops), Gives(ops[j], r), ~Later(ops, j, r.k) PROVE r \in now
  BY <1>2, <1>4, <1>8 DEF Result
<1>9. ASSUME NEW r \in d \ Out, NEW j \in 1..Len(ops), ops[j].kind = "update",
             ops[j].keys = {r.k}, OnlyOne(ops, j, r.k)
      PROVE  [ops[j].rows[1] EXCEPT !.k = r.k] \in now
  <2> DEFINE n == [ops[j].rows[1] EXCEPT !.k = r.k]
  <2>1. n \in new
    BY <1>3, <1>9 DEF Result
  <2>2. ops[j].rows \in Seq(Matching(Row)) /\ ops[j].rows # <<>>
    BY <1>9 DEF AllOwn, OpsOver
  <2>3. ops[j].rows[1] \in Matching(Row)
    BY <2>2
  <2>4. n.p = ops[j].rows[1].p /\ n.k = r.k
    BY <2>3 DEF Matching, Row
  <2>5. n.p \in setting.matched /\ Selects(ch, <<n.k>>)
    BY <1>2, <2>3, <2>4 DEF Matching
  <2> QED
    BY <1>4, <2>1, <2>5
<1>10. Committed(now, ops, s, d, Out)
  BY <1>6, <1>7, <1>8, <1>9 DEF Committed
<1>11. ASSUME NEW r \in Row, ~Selects(ch, <<r.k>>) PROVE r \in new <=> r \in rows
  <2>1. ~\E x \in d : x.k = r.k
    BY <1>2, <1>11
  <2>2. r \notin s
    BY <1>2, <1>11
  <2>3. \A i \in 1..Len(ops) : ~Addresses(ops[i], r.k) /\ ~Gives(ops[i], r) /\ ~Updates(ops[i], r)
    BY <1>1, <2>1, <2>2, OpsAre
  <2>4. ~Later(ops, 0, r.k)
    BY <2>3 DEF Later
  <2>5. r \in new => r \in rows
    BY <2>3 DEF Result, Explained
  <2>6. r \in rows => r \in new
    BY <2>4 DEF Result
  <2> QED
    BY <2>5, <2>6
<1> QED
  BY <1>10, <1>11 DEF now

\* One chunk's transaction that commits: the chunk's rows are then the
\* source's as the plan read them, and no row of another chunk has changed.
Became(rows, ch, s, d, Out, new) ==
  /\ new \in SUBSET Row
  /\ Uniform(s, d, Out) => Same(InChunk(Matching(new), ch) \ Out, s \ Out)
  /\ \A r \in Row : ~Selects(ch, <<r.k>>) => (r \in new <=> r \in rows)

\* Diff and RunOps together: the ops of a chunk, in one transaction that is not
\* rejected, make its rows compare equal to the source's, less those outside
\* that the pass before took, and leave every row of other chunks alone.
THEOREM ChunkSame ==
  ASSUME NEW K, NEW stay, NEW rows, NEW ch, NEW s, NEW d, NEW Out,
         Ready(K, stay, rows, ch, s, d, Out), ~RunOps(rows, Diff(s, d)).dup
  PROVE  Became(rows, ch, s, d, Out, RunOps(rows, Diff(s, d)).rows)
<1> DEFINE new == RunOps(rows, Diff(s, d)).rows
<1>1. new \in SUBSET Row /\ Result(rows, Diff(s, d), new)
  BY ChunkResult
<1> HIDE DEF new
<1>2. Sides(K, s, d)
  BY DEF Ready
<1>3. Diff(s, d) \in AllOwn(K, s, d)
  BY <1>2, DiffGroups
<1>4. /\ Committed(InChunk(Matching(new), ch), Diff(s, d), s, d, Out)
      /\ \A r \in Row : ~Selects(ch, <<r.k>>) => (r \in new <=> r \in rows)
  BY <1>1, <1>3, ChunkCommitted
<1>5. InChunk(Matching(new), ch) \in SUBSET Row
  BY <1>1 DEF InChunk, Matching
<1>6. Uniform(s, d, Out) => Same(InChunk(Matching(new), ch) \ Out, s \ Out)
  BY <1>2, <1>4, <1>5, CommittedSame
<1> QED
  BY <1>1, <1>4, <1>6 DEF Became, new

-----------------------------------------------------------------------------
(***************************************************************************)
(* Equal chunk by chunk is equal.                                          *)
(***************************************************************************)
\* The comparisons of one-column keys.
LEMMA OneColumn ==
  ASSUME NEW x \in Int, NEW y \in Int
  PROVE  /\ LessThan3(<<x>>, <<y>>) = True3 <=> x < y
         /\ GreaterThan3(<<x>>, <<y>>) = True3 <=> y < x
<1> DEFINE a == <<x>>
           b == <<y>>
<1>1. a \in KeysOf(1) /\ b \in KeysOf(1) /\ 1 \in Nat \ {0} /\ 1 <= 2 /\ FALSE \in BOOLEAN
  BY DEF KeysOf, Values
<1>2. a[1] = x /\ b[1] = y
  OBVIOUS
<1> HIDE DEF a, b
<1>3. (KeyLess(a, b) <=> ColumnLess(x, y)) /\ (KeyLess(b, a) <=> ColumnLess(y, x))
  BY <1>1, <1>2, SingleColumn
<1>4. (ColumnLess(x, y) <=> x < y) /\ (ColumnLess(y, x) <=> y < x)
  BY NullAssumption DEF ColumnLess
<1>5. LessThan3(a, b) = True3 <=> KeyLess(a, b)
  BY <1>1, LessThanTrue
<1>6. RowAbove(a, b, FALSE) = True3 <=> KeyLess(b, a)
  BY <1>1, RowAboveTrue
<1> QED
  BY <1>3, <1>4, <1>5, <1>6 DEF GreaterThan3, a, b

\* The out-of-range predicate of one-column keys.
LEMMA OutOfRangeIs ==
  ASSUME NEW x \in Int, NEW y \in Int, NEW z \in Int
  PROVE  OutOfRange(<<x>>, <<y>>, <<z>>) <=> x < y \/ z < x
<1>1. ~AllNull(<<y>>)
  BY NullAssumption DEF AllNull
<1> QED
  BY <1>1, OneColumn DEF OutOfRange

OutsideKey(k, sp) == sp # <<>> /\ OutOfRange(<<k>>, <<sp[1]>>, <<sp[2]>>)

\* A key is outside the extremes exactly if it is not between them.
LEMMA OutsideIs ==
  ASSUME setting \in Settings, NEW rows \in SUBSET Row, rows # {}, NEW k \in Keys
  PROVE  OutsideKey(k, Extremes(rows)) <=> k \notin Between(rows)
<1>1. /\ Extremes(rows)[1] \in Keys /\ Extremes(rows)[2] \in Keys
      /\ Extremes(rows) = <<Extremes(rows)[1], Extremes(rows)[2]>>
  BY ExtremesAre
<1> DEFINE l == Extremes(rows)[1]
           h == Extremes(rows)[2]
<1>2. k \in Int /\ l \in Int /\ h \in Int /\ k # NULL /\ l # NULL /\ h # NULL
  BY <1>1, SettingFacts
<1>3. OutOfRange(<<k>>, <<l>>, <<h>>) <=> k < l \/ k > h
  BY <1>2, OutOfRangeIs
<1>4. Extremes(rows) # <<>>
  <2> HIDE DEF l, h
  <2>1. <<l, h>> # <<>>
    OBVIOUS
  <2> QED
    BY <1>1, <2>1 DEF l, h
<1> QED
  BY <1>2, <1>3, <1>4 DEF OutsideKey, Between

\* Tables that agree on every chunk of a tiling are equal.
LEMMA SameByChunk ==
  ASSUME NEW a, NEW b, IsFiniteSet(a), IsFiniteSet(b), NEW q, NEW T, NEW S, Tiles(q, T, S),
         S \subseteq Int, \A r \in a \cup b : r.k \in S,
         \A i \in 1..Len(q) : Same(InChunk(a, q[i]), InChunk(b, q[i]))
  PROVE  Same(a, b)
<1> SUFFICES ASSUME NEW c PROVE Cardinality(Alike(a, c)) = Cardinality(Alike(b, c))
  BY DEF Same
<1> DEFINE A == Alike(a, c)
           B == Alike(b, c)
           at(r) == CHOOSE i \in 1..Len(q) : Selects(q[i], <<r.k>>)
           F == [r \in a \cup b |-> at(r)]
<1>1. A \subseteq a /\ B \subseteq b
  BY DEF Alike
<1>2. IsFiniteSet(A) /\ IsFiniteSet(B)
  BY <1>1, FS_Subset
<1>3. \A r \in a \cup b : F[r] \in 1..Len(q) /\ Selects(q[F[r]], <<r.k>>)
  BY DEF Tiles
<1>4. \A r \in a \cup b, i \in 1..Len(q) : F[r] = i <=> Selects(q[i], <<r.k>>)
  BY <1>3 DEF Tiles
<1> HIDE DEF F
<1>5. ASSUME NEW x PROVE Cardinality(Labelled(A, F, x)) = Cardinality(Labelled(B, F, x))
  <2>1. CASE x \in 1..Len(q)
    <3>1. Labelled(A, F, x) = Alike(InChunk(a, q[x]), c)
      BY <1>1, <1>4, <2>1 DEF Labelled, Alike, InChunk
    <3>2. Labelled(B, F, x) = Alike(InChunk(b, q[x]), c)
      BY <1>1, <1>4, <2>1 DEF Labelled, Alike, InChunk
    <3> QED
      BY <2>1, <3>1, <3>2 DEF Same
  <2>2. CASE x \notin 1..Len(q)
    <3>1. Labelled(A, F, x) = {} /\ Labelled(B, F, x) = {}
      BY <1>1, <1>3, <2>2 DEF Labelled
    <3> QED
      BY <3>1
  <2> QED
    BY <2>1, <2>2
<1> HIDE DEF A, B
<1>6. Cardinality(A) = Cardinality(B)
  BY <1>2, <1>5, Glue
<1> QED
  BY <1>6 DEF A, B

-----------------------------------------------------------------------------
(***************************************************************************)
(* The setting never changes: what the operators compute before and after  *)
(* a step is the same.                                                     *)
(***************************************************************************)
\* The groups and the comparison of the rows.
LEMMA SameGroups ==
  ASSUME setting' = setting
  PROVE  /\ \A s, id : Group(s, id)' = Group(s, id)
         /\ \A s : GroupIds(s)' = GroupIds(s)
         /\ \A r : CanonRow(r)' = CanonRow(r)
         /\ \A s, d : SameMultiset(s, d)' <=> SameMultiset(s, d)
         /\ \A s, d : Kind(s, d)' = Kind(s, d)
<1>1. KeyId' = KeyId /\ Canon' = Canon /\ KeyUnique' = KeyUnique
  BY DEF KeyId, Canon, KeyUnique
<1>2. ASSUME NEW s, NEW id PROVE Group(s, id)' = Group(s, id)
  BY <1>1 DEF Group
<1>3. ASSUME NEW s PROVE GroupIds(s)' = GroupIds(s)
  BY <1>1 DEF GroupIds
<1>4. \A r : CanonRow(r)' = CanonRow(r)
  BY <1>1 DEF CanonRow
<1>5. ASSUME NEW s, NEW d PROVE SameMultiset(s, d)' <=> SameMultiset(s, d)
  BY <1>4 DEF SameMultiset
<1>6. ASSUME NEW s, NEW d PROVE Kind(s, d)' = Kind(s, d)
  BY <1>1, <1>5 DEF Kind
<1> QED
  BY <1>2, <1>3, <1>4, <1>5, <1>6

\* The tuples of the unique indexes.
LEMMA SameTuples ==
  ASSUME setting' = setting
  PROVE  /\ Constraints' = Constraints
         /\ \A s, d, id : Writes(s, d, id)' <=> Writes(s, d, id)
         /\ \A s, d, id : Rewritten(s, d, id)' <=> Rewritten(s, d, id)
         /\ \A s, d : Hot(s, d)' <=> Hot(s, d)
<1>1. KeyId' = KeyId /\ KeyUnique' = KeyUnique
  BY DEF KeyId, KeyUnique
<1>2. Constraints' = Constraints
  BY <1>1 DEF Constraints
<1>3. ASSUME NEW s, NEW d, NEW id PROVE Writes(s, d, id)' <=> Writes(s, d, id)
  BY SameGroups DEF Writes
<1>4. ASSUME NEW s, NEW d, NEW id PROVE Rewritten(s, d, id)' <=> Rewritten(s, d, id)
  BY <1>1, <1>2, <1>3, SameGroups DEF Rewritten
<1>5. ASSUME NEW s, NEW d PROVE Hot(s, d)' <=> Hot(s, d)
  BY <1>1, <1>2, <1>3 DEF Hot
<1> QED
  BY <1>2, <1>3, <1>4, <1>5

PlainSeq(s, d) ==
  [i \in 1..Cardinality(GroupIds(s \cup d)) |-> PlainOps(s, d, InOrder(GroupIds(s \cup d))[i])]
DeletesSeq(s, d) ==
  [i \in 1..Cardinality(GroupIds(s \cup d)) |-> HotDeletes(s, d, InOrder(GroupIds(s \cup d))[i])]
InsertsSeq(s, d) ==
  [i \in 1..Cardinality(GroupIds(s \cup d)) |-> HotInserts(s, d, InOrder(GroupIds(s \cup d))[i])]

\* The ops of a chunk.
LEMMA SameDiff ==
  ASSUME setting' = setting
  PROVE  \A s, d : Diff(s, d)' = Diff(s, d)
<1> TAKE s, d
<1>0. \A id : /\ Group(s, id)' = Group(s, id) /\ Group(d, id)' = Group(d, id)
              /\ Kind(Group(s, id), Group(d, id))' = Kind(Group(s, id), Group(d, id))
  BY SameGroups
<1>1. ASSUME NEW id PROVE PlainOps(s, d, id)' = PlainOps(s, d, id)
  BY <1>0 DEF PlainOps
<1>2. ASSUME NEW id PROVE HotDeletes(s, d, id)' = HotDeletes(s, d, id)
  BY <1>0, SameTuples DEF HotDeletes
<1>3. ASSUME NEW id PROVE HotInserts(s, d, id)' = HotInserts(s, d, id)
  BY <1>0, SameTuples DEF HotInserts
<1>4. GroupIds(s \cup d)' = GroupIds(s \cup d)
  BY SameGroups
<1>5. PlainSeq(s, d)' = PlainSeq(s, d)
  BY <1>1, <1>4 DEF PlainSeq
<1>6. DeletesSeq(s, d)' = DeletesSeq(s, d) /\ InsertsSeq(s, d)' = InsertsSeq(s, d)
  BY <1>2, <1>3, <1>4 DEF DeletesSeq, InsertsSeq
<1>7. /\ DiffPlain(s, d) = FlattenSeq(PlainSeq(s, d))
      /\ DiffHot(s, d) = FlattenSeq(DeletesSeq(s, d)) \o FlattenSeq(InsertsSeq(s, d))
  BY DEF DiffPlain, DiffHot, ForEachId, PlainOps, HotDeletes, HotInserts, PlainSeq, DeletesSeq,
     InsertsSeq
<1>8. (/\ DiffPlain(s, d) = FlattenSeq(PlainSeq(s, d))
       /\ DiffHot(s, d) = FlattenSeq(DeletesSeq(s, d)) \o FlattenSeq(InsertsSeq(s, d)))'
  BY DEF DiffPlain, DiffHot, ForEachId, PlainOps, HotDeletes, HotInserts, PlainSeq, DeletesSeq,
     InsertsSeq
<1>9. DiffPlain(s, d)' = DiffPlain(s, d) /\ DiffHot(s, d)' = DiffHot(s, d)
  BY <1>5, <1>6, <1>7, <1>8
<1>10. Hot(s, d)' <=> Hot(s, d)
  BY SameTuples
<1> QED
  BY <1>9, <1>10 DEF Diff
=============================================================================
