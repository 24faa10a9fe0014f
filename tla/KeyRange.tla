------------------------------ MODULE KeyRange ------------------------------
(***************************************************************************)
(* The key ranges of internal/chunk: the WHERE predicates a chunk renders, *)
(* the strict "outside the source's range" predicates of the row-level     *)
(* sync, and the integer splitter.  A key is a tuple of column values, one *)
(* per key column; a column value is an integer or NULL.                   *)
(*                                                                         *)
(* A predicate is evaluated the way the server evaluates it: in three      *)
(* truth values, and only TRUE selects a row.  FALSE < UNKNOWN < TRUE, so  *)
(* AND is the minimum of its operands and OR the maximum.                  *)
(***************************************************************************)
EXTENDS Integers, Sequences, FiniteSets

CONSTANTS
  NULL,    \* the SQL NULL
  Half     \* half the range of the planner's integers (2^63 in the code)

ASSUME NullAssumption == NULL \notin Int
ASSUME HalfAssumption == Half \in Nat \ {0}

MaxInt == Half - 1
MinInt == -Half

-----------------------------------------------------------------------------
(* Three-valued logic (what the server does with a rendered predicate).    *)

False3   == 0
Unknown3 == 1
True3    == 2

And3(p, q) == IF p < q THEN p ELSE q
Or3(p, q)  == IF p > q THEN p ELSE q
Truth(b)   == IF b THEN True3 ELSE False3

IsNull(v)    == Truth(v = NULL)
IsNotNull(v) == Truth(v # NULL)

\* col < ?, col <= ?, ... : a comparison with NULL is UNKNOWN.
Less3(v, w) == IF v = NULL \/ w = NULL THEN Unknown3 ELSE Truth(v < w)
Leq3(v, w)  == IF v = NULL \/ w = NULL THEN Unknown3 ELSE Truth(v <= w)
Eq3(v, w)   == IF v = NULL \/ w = NULL THEN Unknown3 ELSE Truth(v = w)

\* The server's ORDER BY: column by column, NULL before every value.
ColumnLess(v, w) == v # w /\ (v = NULL \/ (w # NULL /\ v < w))
KeyLess(k, l) ==
  \E i \in DOMAIN k : ColumnLess(k[i], l[i]) /\ \A j \in 1..(i - 1) : k[j] = l[j]
KeyLeq(k, l) == k = l \/ KeyLess(k, l)

-----------------------------------------------------------------------------
(* A chunk is [id, lo, loIncl, hi, prefix].  lo = hi = <<>> is the         *)
(* unbounded chunk of a keyless table; prefix > 0 marks bounds on the lead *)
(* columns only (LoPrefix = HiPrefix in everything the planner emits).     *)

Unbounded == <<>>

\* A bound's component is met: a NULL one by NULL.
Same3(k, bound) ==
  [i \in DOMAIN bound |-> IF bound[i] = NULL THEN IsNull(k[i]) ELSE Eq3(k[i], bound[i])]

\* One column's term around the text of the next one, "strict OR (equal AND
\* s)".  That text brings no parentheses of its own, and AND binds tighter
\* than OR: equal guards only the first alternative of s, and the rest of s
\* holds whatever the columns before have.
Nested(null, lower, strict, guarded, rest) ==
  IF ~null      THEN [first |-> strict, rest |-> Or3(guarded, rest)]
  ELSE IF lower THEN [first |-> Or3(guarded, rest), rest |-> strict]
                ELSE [first |-> guarded, rest |-> rest]

\* The terms of a row comparison, one inside the other; the last column has a
\* term of its own.
RowTerms(k, bound, lower, strict, last) ==
  LET n     == Len(bound)
      equal == Same3(k, bound)
      term[i \in 1..n] ==
        IF i = n
        THEN [first |-> last, rest |-> False3]
        ELSE Nested(bound[i] = NULL, lower, strict[i],
                    And3(equal[i], term[i + 1].first), term[i + 1].rest)
  IN  Or3(term[1].first, term[1].rest)

\* k1 > v1 OR (k1 = v1 AND ...), the last column with the bound's own
\* operator; every value is above a NULL component.
RowAbove(k, lo, incl) ==
  LET n == Len(lo)
      strict == [i \in 1..n |-> IF lo[i] = NULL THEN IsNotNull(k[i]) ELSE Less3(lo[i], k[i])]
      last   == IF ~incl THEN strict[n] ELSE IF lo[n] = NULL THEN True3 ELSE Leq3(lo[n], k[n])
  IN  RowTerms(k, lo, TRUE, strict, last)

\* k1 < w1 OR (k1 = w1 AND ...) with <= on the last column; nothing is
\* below a NULL component.
RowBelow(k, hi) ==
  LET n == Len(hi)
      strict == [i \in 1..n |-> IF hi[i] = NULL THEN False3 ELSE Less3(k[i], hi[i])]
      last   == IF hi[n] = NULL THEN IsNull(k[n]) ELSE Leq3(k[n], hi[n])
  IN  RowTerms(k, hi, FALSE, strict, last)

\* A single-column chunk whose lower bound is NULL: the NULL rows are below
\* every value, so the bound needs IS [NOT] NULL terms.
NullLoPred(ch, k) ==
  LET v == k[1]
      w == ch.hi[1]
  IN  IF w # NULL
      THEN IF ch.loIncl THEN Or3(IsNull(v), Leq3(v, w))
                        ELSE And3(IsNotNull(v), Leq3(v, w))
      ELSE IF ch.loIncl THEN True3 ELSE IsNotNull(v)

LoPred(ch, k) ==
  IF ch.prefix > 0 \/ Len(k) = 1
  THEN IF ch.loIncl THEN Leq3(ch.lo[1], k[1]) ELSE Less3(ch.lo[1], k[1])
  ELSE RowAbove(k, ch.lo, ch.loIncl)

\* Mutant of HiPred: an exclusive upper bound.
HiPredExclusive(ch, k) ==
  IF ch.prefix > 0 \/ Len(k) = 1 THEN Less3(k[1], ch.hi[1]) ELSE RowBelow(k, ch.hi)

HiPred(ch, k) ==
  IF ch.prefix > 0 \/ Len(k) = 1
  THEN IF ch.hi[1] = NULL THEN True3 ELSE Leq3(k[1], ch.hi[1])
  ELSE RowBelow(k, ch.hi)

\* The rows a scan of chunk ch returns.
Selects(ch, k) ==
  \/ ch.lo = Unbounded
  \/ True3 = IF Len(k) = 1 /\ ch.lo[1] = NULL
             THEN NullLoPred(ch, k)
             ELSE And3(LoPred(ch, k), HiPred(ch, k))

-----------------------------------------------------------------------------
(* LessThan / GreaterThan: the strict comparisons of the out-of-range pass *)
(* and of its keyset cursor.                                               *)

LessThan3(k, bound) ==
  LET n == Len(bound)
      strict == [i \in 1..n |-> IF bound[i] = NULL THEN False3
                                ELSE Or3(IsNull(k[i]), Less3(k[i], bound[i]))]
  IN  RowTerms(k, bound, FALSE, strict, strict[n])

GreaterThan3(k, bound) == RowAbove(k, bound, FALSE)

AllNull(k) == \A i \in DOMAIN k : k[i] = NULL

\* Mutant of OutOfRange: only the lead column is compared.
OutOfRangeLead(k, min, max) == Less3(k[1], min[1]) = True3 \/ Less3(max[1], k[1]) = True3

\* "key strictly outside [min, max]": the all-NULL minimum has no lower tail.
OutOfRange(k, min, max) ==
  \/ ~AllNull(min) /\ LessThan3(k, min) = True3
  \/ GreaterThan3(k, max) = True3

-----------------------------------------------------------------------------
(* The integer splitter, in unsigned 64-bit arithmetic.                    *)

Unsigned(x) == x % (2 * Half)
Signed(u)   == IF u > MaxInt THEN u - 2 * Half ELSE u

Ceil(a, b) == (a + b - 1) \div b

SpanSafe(lo, hi) ==
  /\ ~(lo = MinInt /\ hi = MaxInt)
  /\ ~(lo < 0 /\ hi > MaxInt + lo)

\* The offset of the i-th range from lo, and the ranges the loop emits
\* before the first offset past the end.
IntBoundaries(lo, hi, n, prefix) ==
  IF hi = lo
  THEN << [id |-> 0, lo |-> <<lo>>, loIncl |-> TRUE, hi |-> <<hi>>, prefix |-> prefix] >>
  ELSE LET ulo     == Unsigned(lo)
           diff    == Unsigned(Unsigned(hi) - ulo)
           step    == Unsigned(Unsigned(diff + 1) + n - 1) \div n
           off(i)  == Unsigned(i * step)
           last(i) == LET e == Unsigned(off(i) + step - 1) IN IF e > diff THEN diff ELSE e
           emitted == {i \in 0..(n - 1) : \A j \in 0..i : off(j) <= diff}
       IN  [i \in 1..Cardinality(emitted) |->
              [id     |-> i - 1,
               lo     |-> << Signed(Unsigned(ulo + off(i - 1) - (IF i = 1 THEN 0 ELSE 1))) >>,
               loIncl |-> i = 1,
               hi     |-> << Signed(Unsigned(ulo + last(i - 1))) >>,
               prefix |-> prefix]]
=============================================================================
