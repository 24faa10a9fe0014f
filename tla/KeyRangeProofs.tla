--------------------------- MODULE KeyRangeProofs ---------------------------
(***************************************************************************)
(* KeyRange for any values: the order of the keys is a strict total order. *)
(* Of a key of any number of columns the rendered predicates select all    *)
(* they are meant to (but for the upper bound of a composite key, which    *)
(* misses NULL); of at most two columns they select nothing else, of three *)
(* or more they do.  The ranges of the integer splitter are disjoint and   *)
(* complete in the planner's modular arithmetic.                           *)
(***************************************************************************)
EXTENDS KeyRange, FiniteSetTheorems, WellFoundedInduction, TLAPS

Values     == Int \cup {NULL}
KeysOf(n)  == {k \in Seq(Values) : Len(k) = n}
Booleans3  == {False3, Unknown3, True3}

-----------------------------------------------------------------------------
(***************************************************************************)
(* Induction over the natural numbers: a set of them has a least element.  *)
(***************************************************************************)
LessNat == {p \in Nat \X Nat : p[1] < p[2]}

LEMMA LeastNat ==
  ASSUME NEW T \in SUBSET Nat, T # {}
  PROVE  \E x \in T : \A y \in T : x <= y
<1>1. IsWellFoundedOn(LessNat, Nat)
  BY NatLessThanWellFounded, Zenon DEF OpToRel, LessNat
<1>2. \E x \in T : \A y \in T : ~(<<y, x>> \in LessNat)
  BY <1>1, WFMin
<1>3. \A x, y \in T : ~(<<y, x>> \in LessNat) => x <= y
  BY DEF LessNat
<1> QED
  BY <1>2, <1>3

\* A set that has 0 and with every number below n the next one has all of
\* them up to n.
LEMMA UpTo ==
  ASSUME NEW n \in Nat, NEW S, 0 \in S, \A i \in 0..(n - 1) : i \in S => i + 1 \in S
  PROVE  0..n \subseteq S
<1> DEFINE T == {i \in 0..n : i \notin S}
<1> SUFFICES ASSUME T # {} PROVE FALSE
  OBVIOUS
<1> HIDE DEF T
<1>1. T \in SUBSET Nat
  BY DEF T
<1>2. PICK x \in T : \A y \in T : x <= y
  BY <1>1, LeastNat
<1>3. x - 1 \in 0..(n - 1) /\ x - 1 \in S
  BY <1>2 DEF T
<1> QED
  BY <1>2, <1>3 DEF T

-----------------------------------------------------------------------------
(***************************************************************************)
(* The order of the keys.                                                  *)
(***************************************************************************)
LEMMA KeyMember ==
  ASSUME NEW n \in Nat, NEW k \in KeysOf(n)
  PROVE  /\ Len(k) = n /\ DOMAIN k = 1..n /\ k = [i \in 1..n |-> k[i]]
         /\ \A i \in 1..n : k[i] \in Values
  BY DEF KeysOf

LEMMA ColumnOrder ==
  ASSUME NEW v \in Values, NEW w \in Values, NEW x \in Values
  PROVE  /\ v = w \/ ColumnLess(v, w) \/ ColumnLess(w, v)
         /\ ~(ColumnLess(v, w) /\ ColumnLess(w, v)) /\ ~ColumnLess(v, v)
         /\ ColumnLess(v, w) /\ ColumnLess(w, x) => ColumnLess(v, x)
  BY NullAssumption DEF Values, ColumnLess

\* Of two different keys one is less: where they first differ decides.
LEMMA KeyTotal ==
  ASSUME NEW n \in Nat, NEW k \in KeysOf(n), NEW l \in KeysOf(n), k # l
  PROVE  KeyLess(k, l) \/ KeyLess(l, k)
<1> DEFINE T == {i \in 1..n : k[i] # l[i]}
<1>1. T # {} /\ T \in SUBSET Nat
  BY KeyMember
<1> HIDE DEF T
<1>2. PICK i \in T : \A j \in T : i <= j
  BY <1>1, LeastNat
<1>3. i \in 1..n /\ k[i] # l[i] /\ \A j \in 1..(i - 1) : k[j] = l[j]
  BY <1>2 DEF T
<1>4. ColumnLess(k[i], l[i]) \/ ColumnLess(l[i], k[i])
  BY <1>3, ColumnOrder, KeyMember
<1> QED
  BY <1>3, <1>4, KeyMember DEF KeyLess

LEMMA KeyAsymmetric ==
  ASSUME NEW n \in Nat, NEW k \in KeysOf(n), NEW l \in KeysOf(n), KeyLess(k, l)
  PROVE  ~KeyLess(l, k) /\ k # l
<1>1. PICK i \in 1..n : ColumnLess(k[i], l[i]) /\ \A m \in 1..(i - 1) : k[m] = l[m]
  BY KeyMember DEF KeyLess
<1>2. k # l
  BY <1>1, KeyMember, ColumnOrder
<1>3. ASSUME NEW j \in 1..n, ColumnLess(l[j], k[j]), \A m \in 1..(j - 1) : l[m] = k[m]
      PROVE  FALSE
  <2>1. k[i] \in Values /\ l[i] \in Values /\ k[j] \in Values /\ l[j] \in Values
    BY KeyMember
  <2>2. i = j \/ i \in 1..(j - 1) \/ j \in 1..(i - 1)
    OBVIOUS
  <2> QED
    BY <1>1, <1>3, <2>1, <2>2, ColumnOrder
<1> QED
  BY <1>2, <1>3, KeyMember DEF KeyLess

LEMMA KeyTransitive ==
  ASSUME NEW n \in Nat, NEW k \in KeysOf(n), NEW l \in KeysOf(n), NEW m \in KeysOf(n),
         KeyLess(k, l), KeyLess(l, m)
  PROVE  KeyLess(k, m)
<1>1. PICK i \in 1..n : ColumnLess(k[i], l[i]) /\ \A a \in 1..(i - 1) : k[a] = l[a]
  BY KeyMember DEF KeyLess
<1>2. PICK j \in 1..n : ColumnLess(l[j], m[j]) /\ \A a \in 1..(j - 1) : l[a] = m[a]
  BY KeyMember DEF KeyLess
<1>3. \A a \in 1..n : k[a] \in Values /\ l[a] \in Values /\ m[a] \in Values
  BY KeyMember
<1>4. PICK h \in 1..n : h = IF i < j THEN i ELSE j
  OBVIOUS
<1>5. ColumnLess(k[h], m[h])
  <2>1. CASE i < j
    BY <1>1, <1>2, <1>4, <2>1
  <2>2. CASE j < i
    BY <1>1, <1>2, <1>4, <2>2
  <2>3. CASE i = j
    BY <1>1, <1>2, <1>3, <1>4, <2>3, ColumnOrder
  <2> QED
    BY <2>1, <2>2, <2>3
<1>6. \A a \in 1..(h - 1) : k[a] = m[a]
  BY <1>1, <1>2, <1>4
<1> QED
  BY <1>5, <1>6, KeyMember DEF KeyLess

\* The same of KeyLeq, as the other proofs use it.
LEMMA KeyOrder ==
  ASSUME NEW n \in Nat, NEW k \in KeysOf(n), NEW l \in KeysOf(n), NEW m \in KeysOf(n)
  PROVE  /\ KeyLeq(k, k)
         /\ KeyLess(k, l) => KeyLeq(k, l) /\ ~KeyLeq(l, k)
         /\ ~KeyLeq(k, l) => KeyLess(l, k)
         /\ KeyLeq(k, l) /\ k # l => KeyLess(k, l)
         /\ KeyLeq(k, l) /\ KeyLeq(l, m) => KeyLeq(k, m)
         /\ KeyLeq(k, l) /\ KeyLess(l, m) => KeyLess(k, m)
         /\ KeyLess(k, l) /\ KeyLeq(l, m) => KeyLess(k, m)
         /\ KeyLeq(k, l) /\ KeyLeq(l, k) => k = l
  BY KeyTotal, KeyAsymmetric, KeyTransitive DEF KeyLeq

-----------------------------------------------------------------------------
(***************************************************************************)
(* The rendered predicates.                                                *)
(***************************************************************************)
LEMMA Logic3 ==
  ASSUME NEW p \in Booleans3, NEW q \in Booleans3
  PROVE  /\ And3(p, q) \in Booleans3 /\ (And3(p, q) = True3 <=> p = True3 /\ q = True3)
         /\ Or3(p, q) \in Booleans3 /\ (Or3(p, q) = True3 <=> p = True3 \/ q = True3)
  BY DEF Booleans3, And3, Or3, False3, Unknown3, True3

LEMMA Comparisons3 ==
  ASSUME NEW v \in Values, NEW w \in Values
  PROVE  /\ Less3(v, w) \in Booleans3 /\ (Less3(v, w) = True3 <=> v # NULL /\ w # NULL /\ v < w)
         /\ Leq3(v, w) \in Booleans3 /\ (Leq3(v, w) = True3 <=> v # NULL /\ w # NULL /\ v <= w)
         /\ Eq3(v, w) \in Booleans3 /\ (Eq3(v, w) = True3 <=> v # NULL /\ v = w)
         /\ IsNull(v) \in Booleans3 /\ (IsNull(v) = True3 <=> v = NULL)
         /\ IsNotNull(v) \in Booleans3 /\ (IsNotNull(v) = True3 <=> v # NULL)
  BY DEF Less3, Leq3, Eq3, IsNull, IsNotNull, Truth, Booleans3, False3, Unknown3, True3

LEMMA Same3True ==
  ASSUME NEW n \in Nat, NEW k \in KeysOf(n), NEW bound \in KeysOf(n)
  PROVE  /\ Same3(k, bound) \in [1..n -> Booleans3]
         /\ \A i \in 1..n : Same3(k, bound)[i] = True3 <=> k[i] = bound[i]
<1>1. \A i \in 1..n : k[i] \in Values /\ bound[i] \in Values
  BY KeyMember
<1>2. Same3(k, bound) =
        [i \in 1..n |-> IF bound[i] = NULL THEN IsNull(k[i]) ELSE Eq3(k[i], bound[i])]
  BY KeyMember DEF Same3
<1>3. \A i \in 1..n :
        LET t == IF bound[i] = NULL THEN IsNull(k[i]) ELSE Eq3(k[i], bound[i])
        IN  t \in Booleans3 /\ (t = True3 <=> k[i] = bound[i])
  BY <1>1, Comparisons3
<1> QED
  BY <1>2, <1>3

\* One shape for every row comparison.  Decided: the columns agree up to one
\* whose strict term holds, or all but the last agree and its term holds.  A
\* comparison is true where that is so, whatever the number of columns, and
\* of at most two columns nowhere else.
Decided(n, k, bound, strict, last) ==
  \/ \E i \in 1..(n - 1) : strict[i] = True3 /\ \A j \in 1..(i - 1) : k[j] = bound[j]
  \/ last = True3 /\ \A j \in 1..(n - 1) : k[j] = bound[j]

LEMMA RowTermsTrue ==
  ASSUME NEW n \in Nat \ {0}, NEW k \in KeysOf(n), NEW bound \in KeysOf(n), NEW lower \in BOOLEAN,
         NEW strict \in [1..n -> Booleans3], NEW last \in Booleans3,
         \A i \in 1..n : ~lower /\ bound[i] = NULL => strict[i] = False3
  PROVE  /\ RowTerms(k, bound, lower, strict, last) \in Booleans3
         /\ Decided(n, k, bound, strict, last) => RowTerms(k, bound, lower, strict, last) = True3
         /\ n <= 2 /\ RowTerms(k, bound, lower, strict, last) = True3
              => Decided(n, k, bound, strict, last)
<1> DEFINE equal == Same3(k, bound)
           Inner(i, s) ==
             IF bound[i] # NULL
             THEN [first |-> strict[i], rest |-> Or3(And3(equal[i], s.first), s.rest)]
             ELSE IF lower THEN [first |-> Or3(And3(equal[i], s.first), s.rest), rest |-> strict[i]]
                           ELSE [first |-> And3(equal[i], s.first), rest |-> s.rest]
           Step(g, i) == IF i = n THEN [first |-> last, rest |-> False3] ELSE Inner(i, g[i + 1])
           Body(g)    == [i \in 1..n |-> Step(g, i)]
           term       == CHOOSE g : g = Body(g)
           Pair       == [first : Booleans3, rest : Booleans3]
           Whole3(t)  == Or3(t.first, t.rest)
           From(m)    == \/ \E i \in m..(n - 1) : strict[i] = True3 /\ \A j \in m..(i - 1) : equal[j] = True3
                         \/ last = True3 /\ \A j \in m..(n - 1) : equal[j] = True3
<1>1. Len(bound) = n
  BY KeyMember
<1>2. RowTerms(k, bound, lower, strict, last) = Or3(term[1].first, term[1].rest)
  BY <1>1 DEF RowTerms, Nested
\* The recursive definition has a solution: one from the last column on can
\* be extended by the column before.
<1>3. \E g : g = Body(g)
  <2> DEFINE Solves(g, m) == g = [i \in m..n |-> Step(g, i)]
             S == {d \in 0..(n - 1) : \E g : Solves(g, n - d)}
  <2> HIDE DEF Inner
  <2>1. 0 \in S
    <3>1. Solves([i \in n..n |-> [first |-> last, rest |-> False3]], n)
      OBVIOUS
    <3>2. n - 0 = n /\ 0 \in 0..(n - 1)
      OBVIOUS
    <3>3. \E g : Solves(g, n - 0)
      BY <3>1, <3>2
    <3> QED
      BY <3>2, <3>3
  <2>2. \A d \in 0..((n - 1) - 1) : d \in S => d + 1 \in S
    <3> SUFFICES ASSUME NEW d \in 0..((n - 1) - 1), d \in S PROVE d + 1 \in S
      OBVIOUS
    <3>0. d + 1 \in 0..(n - 1)
      OBVIOUS
    <3>1. PICK g : Solves(g, n - d)
      OBVIOUS
    <3> DEFINE m == n - (d + 1)
               h == [i \in m..n |-> IF i = m THEN Step(g, i) ELSE g[i]]
    <3>2. m \in 1..n /\ n - d = m + 1 /\ m < n
      OBVIOUS
    <3>4. \A i \in m..n : h[i] = Step(h, i)
      <4> SUFFICES ASSUME NEW i \in m..n PROVE h[i] = Step(h, i)
        OBVIOUS
      <4>1. CASE i = m
        <5>1. h[m + 1] = g[m + 1]
          BY <3>2
        <5> QED
          BY <3>2, <4>1, <5>1
      <4>2. CASE i # m
        <5>1. h[i] = g[i] /\ g[i] = Step(g, i)
          <6>1. i \in (n - d)..n
            BY <3>2, <4>2
          <6>2. g[i] = Step(g, i)
            BY <3>1, <6>1
          <6> QED
            BY <4>2, <6>2
        <5>2. i # n => h[i + 1] = g[i + 1]
          BY <3>2, <4>2
        <5> QED
          BY <5>1, <5>2
      <4> QED
        BY <4>1, <4>2
    <3>5. Solves(h, m)
      BY <3>4
    <3> QED
      BY <3>0, <3>5
  <2> HIDE DEF S
  <2>3. n - 1 \in S
    BY <2>1, <2>2, UpTo
  <2>4. PICK g : Solves(g, 1)
    <3>1. n - (n - 1) = 1
      OBVIOUS
    <3>2. \E g : Solves(g, n - (n - 1))
      BY <2>3 DEF S
    <3> QED
      BY <3>1, <3>2
  <2>5. g = Body(g)
    BY <2>4
  <2> QED
    BY <2>5
<1>4. term = Body(term)
  BY <1>3
<1> HIDE DEF term
<1>5. \A i \in 1..n : term[i] = Step(term, i)
  BY <1>4
<1>6. equal \in [1..n -> Booleans3] /\ \A i \in 1..n : equal[i] = True3 <=> k[i] = bound[i]
  BY Same3True
<1>7. Decided(n, k, bound, strict, last) <=> From(1)
  BY <1>6 DEF Decided
<1> HIDE DEF equal
<1>8. False3 \in Booleans3 /\ False3 # True3
  BY DEF Booleans3, False3, True3
<1>9. term[n] = [first |-> last, rest |-> False3]
  <2> HIDE DEF Inner
  <2>1. n \in 1..n
    OBVIOUS
  <2> QED
    BY <1>5, <2>1
<1>10. \A m \in 1..(n - 1) : term[m + 1] \in Pair =>
         /\ term[m] \in Pair
         /\ strict[m] = True3 \/ (equal[m] = True3 /\ Whole3(term[m + 1]) = True3) => Whole3(term[m]) = True3
         /\ term[m + 1].rest = False3 /\ Whole3(term[m]) = True3
              => strict[m] = True3 \/ (equal[m] = True3 /\ Whole3(term[m + 1]) = True3)
  <2> SUFFICES ASSUME NEW m \in 1..(n - 1), term[m + 1] \in Pair
               PROVE  /\ term[m] \in Pair
                      /\ strict[m] = True3 \/ (equal[m] = True3 /\ Whole3(term[m + 1]) = True3)
                           => Whole3(term[m]) = True3
                      /\ term[m + 1].rest = False3 /\ Whole3(term[m]) = True3
                           => strict[m] = True3 \/ (equal[m] = True3 /\ Whole3(term[m + 1]) = True3)
    OBVIOUS
  <2> DEFINE f == term[m + 1].first
             r == term[m + 1].rest
             e == equal[m]
             s == strict[m]
             both == And3(e, f)
  <2>1. f \in Booleans3 /\ r \in Booleans3 /\ e \in Booleans3 /\ s \in Booleans3 /\ m # n /\ m \in 1..n
    BY <1>6
  <2>2. term[m] = IF bound[m] # NULL THEN [first |-> s, rest |-> Or3(both, r)]
                  ELSE IF lower THEN [first |-> Or3(both, r), rest |-> s]
                                ELSE [first |-> both, rest |-> r]
    BY <1>5, <2>1
  <2>3. ~lower /\ bound[m] = NULL => s = False3
    BY <2>1
  <2> HIDE DEF f, r, e, s
  <2>4. both \in Booleans3 /\ (both = True3 <=> e = True3 /\ f = True3)
    BY <2>1, Logic3
  <2> HIDE DEF both
  <2>5. Or3(both, r) \in Booleans3 /\ (Or3(both, r) = True3 <=> both = True3 \/ r = True3)
    BY <2>1, <2>4, Logic3
  <2>6. Or3(f, r) = True3 <=> f = True3 \/ r = True3
    BY <2>1, Logic3
  <2>7. /\ term[m] \in Pair
        /\ Whole3(term[m]) = True3 <=> s = True3 \/ both = True3 \/ r = True3
    <3>1. CASE bound[m] # NULL
      <4>1. term[m] = [first |-> s, rest |-> Or3(both, r)]
        BY <2>2, <3>1
      <4> QED
        BY <2>1, <2>5, <4>1, Logic3
    <3>2. CASE bound[m] = NULL /\ lower
      <4>1. term[m] = [first |-> Or3(both, r), rest |-> s]
        BY <2>2, <3>2
      <4> QED
        BY <2>1, <2>5, <4>1, Logic3
    <3>3. CASE bound[m] = NULL /\ ~lower
      <4>1. term[m] = [first |-> both, rest |-> r]
        BY <2>2, <3>3
      <4> QED
        BY <1>8, <2>1, <2>3, <2>4, <2>5, <3>3, <4>1
    <3> QED
      BY <3>1, <3>2, <3>3
  <2> QED
    BY <1>8, <2>4, <2>6, <2>7 DEF f, r, e, s
<1>11. term[1] \in Pair /\ (From(1) => Whole3(term[1]) = True3)
  <2> DEFINE S == {d \in 0..(n - 1) : term[n - d] \in Pair /\ (From(n - d) => Whole3(term[n - d]) = True3)}
  <2>1. 0 \in S
    <3>1. term[n] \in Pair /\ (Whole3(term[n]) = True3 <=> last = True3)
      BY <1>8, <1>9, Logic3
    <3>2. From(n) => last = True3
      OBVIOUS
    <3>3. n - 0 = n /\ 0 \in 0..(n - 1)
      OBVIOUS
    <3> QED
      BY <3>1, <3>2, <3>3
  <2>2. \A d \in 0..((n - 1) - 1) : d \in S => d + 1 \in S
    <3> SUFFICES ASSUME NEW d \in 0..((n - 1) - 1), d \in S PROVE d + 1 \in S
      OBVIOUS
    <3> DEFINE m == n - (d + 1)
    <3>1. m \in 1..(n - 1) /\ n - d = m + 1 /\ d + 1 \in 0..(n - 1)
      OBVIOUS
    <3>3. term[m + 1] \in Pair /\ (From(m + 1) => Whole3(term[m + 1]) = True3)
      BY <3>1
    <3>4. From(m) => strict[m] = True3 \/ (equal[m] = True3 /\ From(m + 1))
      BY <3>1
    <3>5. term[m] \in Pair /\ (From(m) => Whole3(term[m]) = True3)
      BY <1>10, <3>1, <3>3, <3>4
    <3> QED
      BY <3>1, <3>5
  <2> HIDE DEF S
  <2>3. n - 1 \in S
    BY <2>1, <2>2, UpTo
  <2> QED
    BY <2>3 DEF S
<1>12. n <= 2 /\ Whole3(term[1]) = True3 => From(1)
  <2>1. CASE n = 1
    BY <1>8, <1>9, <2>1, Logic3
  <2>2. CASE n = 2
    <3>1. 1 \in 1..(n - 1) /\ 1 + 1 = n /\ term[n] \in Pair /\ term[n].rest = False3
      BY <1>8, <1>9, <2>2
    <3>2. Whole3(term[n]) = True3 <=> last = True3
      BY <1>8, <1>9, Logic3
    <3>3. Whole3(term[1]) = True3 => strict[1] = True3 \/ (equal[1] = True3 /\ last = True3)
      BY <1>10, <3>1, <3>2
    <3>4. strict[1] = True3 \/ (equal[1] = True3 /\ last = True3) => From(1)
      <4>1. 1..(n - 1) = {1} /\ 1..(1 - 1) = {}
        BY <2>2
      <4> QED
        BY <4>1
    <3> QED
      BY <3>3, <3>4
  <2> QED
    BY <2>1, <2>2
<1> QED
  BY <1>2, <1>7, <1>11, <1>12, Logic3

\* Two keys that agree on all but the last column compare as it does.
LEMMA LastColumn ==
  ASSUME NEW n \in Nat \ {0}, NEW k \in KeysOf(n), NEW l \in KeysOf(n)
  PROVE  /\ KeyLess(k, l) <=>
              \/ \E i \in 1..(n - 1) : ColumnLess(k[i], l[i]) /\ \A j \in 1..(i - 1) : k[j] = l[j]
              \/ ColumnLess(k[n], l[n]) /\ \A j \in 1..(n - 1) : k[j] = l[j]
         /\ k = l <=> k[n] = l[n] /\ \A j \in 1..(n - 1) : k[j] = l[j]
<1>1. DOMAIN k = 1..n /\ k = [i \in 1..n |-> k[i]] /\ l = [i \in 1..n |-> l[i]]
  BY KeyMember
<1>2. \A i \in 1..n : i \in 1..(n - 1) \/ i = n
  OBVIOUS
<1>3. 1..(n - 1) \subseteq 1..n /\ n \in 1..n
  OBVIOUS
<1> QED
  BY <1>1, <1>2, <1>3 DEF KeyLess

\* A lower bound selects the keys above it, NULL components included, and
\* with at most two columns no other.
LEMMA RowAboveTrue ==
  ASSUME NEW n \in Nat \ {0}, NEW k \in KeysOf(n), NEW low \in KeysOf(n), NEW incl \in BOOLEAN
  PROVE  /\ RowAbove(k, low, incl) \in Booleans3
         /\ KeyLess(low, k) \/ (incl /\ k = low) => RowAbove(k, low, incl) = True3
         /\ n <= 2 /\ RowAbove(k, low, incl) = True3 => KeyLess(low, k) \/ (incl /\ k = low)
<1> DEFINE strict == [i \in 1..n |-> IF low[i] = NULL THEN IsNotNull(k[i]) ELSE Less3(low[i], k[i])]
           last   == IF ~incl THEN strict[n] ELSE IF low[n] = NULL THEN True3 ELSE Leq3(low[n], k[n])
<1>1. Len(low) = n /\ \A i \in 1..n : k[i] \in Values /\ low[i] \in Values
  BY KeyMember
<1>2. RowAbove(k, low, incl) = RowTerms(k, low, TRUE, strict, last)
  BY <1>1 DEF RowAbove
<1>3. \A i \in 1..n : strict[i] \in Booleans3 /\ (strict[i] = True3 <=> ColumnLess(low[i], k[i]))
  <2> SUFFICES ASSUME NEW i \in 1..n
               PROVE  strict[i] \in Booleans3 /\ (strict[i] = True3 <=> ColumnLess(low[i], k[i]))
    OBVIOUS
  <2>1. CASE low[i] = NULL
    <3>1. strict[i] = IsNotNull(k[i])
      BY <2>1
    <3>2. IsNotNull(k[i]) \in Booleans3 /\ (IsNotNull(k[i]) = True3 <=> k[i] # NULL)
      BY <1>1, Comparisons3
    <3> QED
      BY <2>1, <3>1, <3>2 DEF ColumnLess
  <2>2. CASE low[i] # NULL
    <3>1. strict[i] = Less3(low[i], k[i])
      BY <2>2
    <3>2. /\ Less3(low[i], k[i]) \in Booleans3
          /\ Less3(low[i], k[i]) = True3 <=> low[i] # NULL /\ k[i] # NULL /\ low[i] < k[i]
      BY <1>1, Comparisons3
    <3> HIDE DEF strict
    <3> QED
      BY <1>1, <2>2, <3>1, <3>2 DEF ColumnLess, Values
  <2> QED
    BY <2>1, <2>2
<1>4. strict \in [1..n -> Booleans3]
  BY <1>3
<1>5. last \in Booleans3 /\ (last = True3 <=> ColumnLess(low[n], k[n]) \/ (incl /\ k[n] = low[n]))
  <2>1. CASE ~incl
    BY <1>3, <2>1
  <2>2. CASE incl /\ low[n] = NULL
    BY <1>1, <2>2 DEF ColumnLess, Booleans3
  <2>3. CASE incl /\ low[n] # NULL
    <3>1. last = Leq3(low[n], k[n]) /\ low[n] \in Int /\ (k[n] = NULL \/ k[n] \in Int)
      BY <1>1, <2>3 DEF Values
    <3>2. /\ Leq3(low[n], k[n]) \in Booleans3
          /\ Leq3(low[n], k[n]) = True3 <=> low[n] # NULL /\ k[n] # NULL /\ low[n] <= k[n]
      BY <1>1, Comparisons3
    <3> HIDE DEF last
    <3> QED
      BY <2>3, <3>1, <3>2 DEF ColumnLess
  <2> QED
    BY <2>1, <2>2, <2>3
<1> HIDE DEF strict, last
<1>6. /\ RowTerms(k, low, TRUE, strict, last) \in Booleans3
      /\ Decided(n, k, low, strict, last) => RowTerms(k, low, TRUE, strict, last) = True3
      /\ n <= 2 /\ RowTerms(k, low, TRUE, strict, last) = True3 => Decided(n, k, low, strict, last)
  BY <1>4, <1>5, RowTermsTrue
<1>7. /\ KeyLess(low, k) <=>
              \/ \E i \in 1..(n - 1) : ColumnLess(low[i], k[i]) /\ \A j \in 1..(i - 1) : low[j] = k[j]
              \/ ColumnLess(low[n], k[n]) /\ \A j \in 1..(n - 1) : low[j] = k[j]
      /\ k = low <=> k[n] = low[n] /\ \A j \in 1..(n - 1) : k[j] = low[j]
  BY LastColumn
<1>8. Decided(n, k, low, strict, last) <=> KeyLess(low, k) \/ (incl /\ k = low)
  BY <1>3, <1>5, <1>7 DEF Decided
<1> QED
  BY <1>2, <1>6, <1>8

\* An upper bound selects all keys up to it but those with a NULL, and with
\* at most two columns no other.
LEMMA RowBelowTrue ==
  ASSUME NEW n \in Nat \ {0}, NEW k \in KeysOf(n), NEW high \in KeysOf(n)
  PROVE  /\ RowBelow(k, high) \in Booleans3
         /\ n <= 2 /\ RowBelow(k, high) = True3 => KeyLeq(k, high)
         /\ KeyLeq(k, high) /\ (\A i \in 1..n : k[i] # NULL) => RowBelow(k, high) = True3
<1> DEFINE strict == [i \in 1..n |-> IF high[i] = NULL THEN False3 ELSE Less3(k[i], high[i])]
           last   == IF high[n] = NULL THEN IsNull(k[n]) ELSE Leq3(k[n], high[n])
<1>1. Len(high) = n /\ \A i \in 1..n : k[i] \in Values /\ high[i] \in Values
  BY KeyMember
<1>2. RowBelow(k, high) = RowTerms(k, high, FALSE, strict, last)
  BY <1>1 DEF RowBelow
<1>3. \A i \in 1..n : /\ strict[i] \in Booleans3
                      /\ strict[i] = True3 => ColumnLess(k[i], high[i])
                      /\ ColumnLess(k[i], high[i]) /\ k[i] # NULL => strict[i] = True3
  <2> SUFFICES ASSUME NEW i \in 1..n
               PROVE  /\ strict[i] \in Booleans3
                      /\ strict[i] = True3 => ColumnLess(k[i], high[i])
                      /\ ColumnLess(k[i], high[i]) /\ k[i] # NULL => strict[i] = True3
    OBVIOUS
  <2>1. CASE high[i] = NULL
    BY <1>1, <2>1 DEF ColumnLess, Booleans3, False3, True3
  <2>2. CASE high[i] # NULL
    <3>1. strict[i] = Less3(k[i], high[i])
      BY <2>2
    <3>2. /\ Less3(k[i], high[i]) \in Booleans3
          /\ Less3(k[i], high[i]) = True3 <=> k[i] # NULL /\ high[i] # NULL /\ k[i] < high[i]
      BY <1>1, Comparisons3
    <3> HIDE DEF strict
    <3> QED
      BY <1>1, <2>2, <3>1, <3>2 DEF ColumnLess, Values
  <2> QED
    BY <2>1, <2>2
<1>4. strict \in [1..n -> Booleans3] /\ \A i \in 1..n : high[i] = NULL => strict[i] = False3
  BY <1>3
<1>5. /\ last \in Booleans3
      /\ last = True3 => k[n] = high[n] \/ ColumnLess(k[n], high[n])
      /\ (k[n] = high[n] \/ ColumnLess(k[n], high[n])) /\ k[n] # NULL => last = True3
  <2>1. CASE high[n] = NULL
    BY <1>1, <2>1, Comparisons3 DEF ColumnLess
  <2>2. CASE high[n] # NULL
    <3>1. last = Leq3(k[n], high[n]) /\ high[n] \in Int /\ (k[n] = NULL \/ k[n] \in Int)
      BY <1>1, <2>2 DEF Values
    <3>2. /\ Leq3(k[n], high[n]) \in Booleans3
          /\ Leq3(k[n], high[n]) = True3 <=> high[n] # NULL /\ k[n] # NULL /\ k[n] <= high[n]
      BY <1>1, Comparisons3
    <3> HIDE DEF last
    <3> QED
      BY <2>2, <3>1, <3>2 DEF ColumnLess
  <2> QED
    BY <2>1, <2>2
<1> HIDE DEF strict, last
<1>6. /\ RowTerms(k, high, FALSE, strict, last) \in Booleans3
      /\ Decided(n, k, high, strict, last) => RowTerms(k, high, FALSE, strict, last) = True3
      /\ n <= 2 /\ RowTerms(k, high, FALSE, strict, last) = True3 => Decided(n, k, high, strict, last)
  BY <1>4, <1>5, RowTermsTrue
<1>7. /\ KeyLess(k, high) <=>
              \/ \E i \in 1..(n - 1) : ColumnLess(k[i], high[i]) /\ \A j \in 1..(i - 1) : k[j] = high[j]
              \/ ColumnLess(k[n], high[n]) /\ \A j \in 1..(n - 1) : k[j] = high[j]
      /\ k = high <=> k[n] = high[n] /\ \A j \in 1..(n - 1) : k[j] = high[j]
  BY LastColumn
<1>8. Decided(n, k, high, strict, last) => KeyLeq(k, high)
  BY <1>3, <1>5, <1>7 DEF Decided, KeyLeq
<1>9. KeyLeq(k, high) /\ (\A i \in 1..n : k[i] # NULL) => Decided(n, k, high, strict, last)
  BY <1>3, <1>5, <1>7 DEF Decided, KeyLeq
<1> QED
  BY <1>2, <1>6, <1>8, <1>9

LEMMA LessThanTrue ==
  ASSUME NEW n \in Nat \ {0}, NEW k \in KeysOf(n), NEW bound \in KeysOf(n)
  PROVE  /\ KeyLess(k, bound) => LessThan3(k, bound) = True3
         /\ n <= 2 /\ LessThan3(k, bound) = True3 => KeyLess(k, bound)
<1> DEFINE strict == [i \in 1..n |-> IF bound[i] = NULL THEN False3
                                     ELSE Or3(IsNull(k[i]), Less3(k[i], bound[i]))]
<1>1. Len(bound) = n /\ \A i \in 1..n : k[i] \in Values /\ bound[i] \in Values
  BY KeyMember
<1>2. LessThan3(k, bound) = RowTerms(k, bound, FALSE, strict, strict[n])
  BY <1>1 DEF LessThan3
<1>3. \A i \in 1..n : strict[i] \in Booleans3 /\ (strict[i] = True3 <=> ColumnLess(k[i], bound[i]))
  <2> SUFFICES ASSUME NEW i \in 1..n
               PROVE  strict[i] \in Booleans3 /\ (strict[i] = True3 <=> ColumnLess(k[i], bound[i]))
    OBVIOUS
  <2>1. CASE bound[i] = NULL
    BY <1>1, <2>1 DEF ColumnLess, Booleans3, False3, True3
  <2>2. CASE bound[i] # NULL
    <3>1. strict[i] = Or3(IsNull(k[i]), Less3(k[i], bound[i]))
      BY <2>2
    <3>2. strict[i] \in Booleans3 /\ (strict[i] = True3 <=>
             k[i] = NULL \/ (k[i] # NULL /\ bound[i] # NULL /\ k[i] < bound[i]))
      BY <1>1, <3>1, Comparisons3, Logic3
    <3> HIDE DEF strict
    <3> QED
      BY <1>1, <2>2, <3>2 DEF ColumnLess, Values
  <2> QED
    BY <2>1, <2>2
<1>4. /\ strict \in [1..n -> Booleans3] /\ strict[n] \in Booleans3
      /\ \A i \in 1..n : bound[i] = NULL => strict[i] = False3
  BY <1>3
<1> HIDE DEF strict
<1>6. /\ Decided(n, k, bound, strict, strict[n]) => RowTerms(k, bound, FALSE, strict, strict[n]) = True3
      /\ n <= 2 /\ RowTerms(k, bound, FALSE, strict, strict[n]) = True3
           => Decided(n, k, bound, strict, strict[n])
  BY <1>4, RowTermsTrue
<1>7. KeyLess(k, bound) <=>
              \/ \E i \in 1..(n - 1) : ColumnLess(k[i], bound[i]) /\ \A j \in 1..(i - 1) : k[j] = bound[j]
              \/ ColumnLess(k[n], bound[n]) /\ \A j \in 1..(n - 1) : k[j] = bound[j]
  BY LastColumn
<1>8. Decided(n, k, bound, strict, strict[n]) <=> KeyLess(k, bound)
  BY <1>3, <1>7 DEF Decided
<1> QED
  BY <1>2, <1>6, <1>8

\* oorPredicate, the rows to delete, selects every key outside the bounds,
\* also where every column of the lower one is NULL and the code leaves its
\* term out; of a key of at most two columns it selects no other.
THEOREM OutOfRangeSelects ==
  ASSUME NEW n \in Nat \ {0}, NEW k \in KeysOf(n), NEW low \in KeysOf(n), NEW high \in KeysOf(n)
  PROVE  /\ ~(KeyLeq(low, k) /\ KeyLeq(k, high)) => OutOfRange(k, low, high)
         /\ n <= 2 /\ OutOfRange(k, low, high) => ~(KeyLeq(low, k) /\ KeyLeq(k, high))
<1>1. /\ KeyLess(k, low) => LessThan3(k, low) = True3
      /\ n <= 2 /\ LessThan3(k, low) = True3 => KeyLess(k, low)
  BY LessThanTrue
<1>2. /\ KeyLess(high, k) => GreaterThan3(k, high) = True3
      /\ n <= 2 /\ GreaterThan3(k, high) = True3 => KeyLess(high, k)
  BY RowAboveTrue DEF GreaterThan3
<1>3. AllNull(low) => ~KeyLess(k, low)
  BY KeyMember DEF AllNull, KeyLess, ColumnLess
<1>4. (KeyLess(k, low) <=> ~KeyLeq(low, k)) /\ (KeyLess(high, k) <=> ~KeyLeq(k, high))
  BY KeyOrder
<1> QED
  BY <1>1, <1>2, <1>3, <1>4 DEF OutOfRange

-----------------------------------------------------------------------------
(***************************************************************************)
(* The rows a chunk selects, its bounds being whole keys.                  *)
(***************************************************************************)
Above(k, ch) == KeyLess(ch.lo, k) \/ (ch.loIncl /\ k = ch.lo)

\* A NULL upper bound of a single column is left out of the predicate.
OpenAbove(ch) == Len(ch.hi) = 1 /\ ch.hi[1] = NULL

LEMMA SingleColumn ==
  ASSUME NEW k \in KeysOf(1), NEW l \in KeysOf(1)
  PROVE  /\ KeyLess(k, l) <=> ColumnLess(k[1], l[1])
         /\ k = l <=> k[1] = l[1]
         /\ KeyLeq(k, l) <=> k[1] = l[1] \/ ColumnLess(k[1], l[1])
<1>1. 1 \in Nat \ {0} /\ 1..(1 - 1) = {}
  OBVIOUS
<1>2. /\ KeyLess(k, l) <=> ColumnLess(k[1], l[1])
      /\ k = l <=> k[1] = l[1]
  BY <1>1, LastColumn
<1> QED
  BY <1>2 DEF KeyLeq

\* Chunk.Pred of one column selects the keys between its bounds; a NULL upper
\* bound lets every key above the lower one through.
THEOREM SelectsSingle ==
  ASSUME NEW k \in KeysOf(1), NEW ch, ch.lo \in KeysOf(1), ch.hi \in KeysOf(1),
         ch.loIncl \in BOOLEAN
  PROVE  Selects(ch, k) <=> Above(k, ch) /\ (KeyLeq(k, ch.hi) \/ OpenAbove(ch))
<1> DEFINE v == k[1]
           low == ch.lo[1]
           high == ch.hi[1]
<1>1. /\ ch.lo # <<>> /\ Len(k) = 1 /\ Len(ch.hi) = 1
      /\ v \in Values /\ low \in Values /\ high \in Values
  BY KeyMember DEF KeysOf
<1>2. /\ Above(k, ch) <=> ColumnLess(low, v) \/ (ch.loIncl /\ v = low)
      /\ KeyLeq(k, ch.hi) \/ OpenAbove(ch) <=> v = high \/ ColumnLess(v, high) \/ high = NULL
  BY <1>1, SingleColumn DEF Above, OpenAbove
<1>3. Selects(ch, k) <=> True3 = IF low = NULL THEN NullLoPred(ch, k)
                                               ELSE And3(LoPred(ch, k), HiPred(ch, k))
  BY <1>1 DEF Selects, Unbounded
<1>4. CASE low = NULL
  <2>1. CASE high = NULL
    <3>1. NullLoPred(ch, k) = IF ch.loIncl THEN True3 ELSE IsNotNull(v)
      BY <2>1 DEF NullLoPred
    <3> QED
      BY <1>1, <1>2, <1>3, <1>4, <2>1, <3>1, Comparisons3 DEF ColumnLess
  <2>2. CASE high # NULL
    <3>1. NullLoPred(ch, k) = IF ch.loIncl THEN Or3(IsNull(v), Leq3(v, high))
                                           ELSE And3(IsNotNull(v), Leq3(v, high))
      BY <2>2 DEF NullLoPred
    <3>2. /\ IsNull(v) \in Booleans3 /\ (IsNull(v) = True3 <=> v = NULL)
          /\ IsNotNull(v) \in Booleans3 /\ (IsNotNull(v) = True3 <=> v # NULL)
          /\ Leq3(v, high) \in Booleans3
          /\ Leq3(v, high) = True3 <=> v # NULL /\ high # NULL /\ v <= high
      BY <1>1, Comparisons3
    <3>3. /\ Or3(IsNull(v), Leq3(v, high)) = True3 <=> v = NULL \/ v <= high
          /\ And3(IsNotNull(v), Leq3(v, high)) = True3 <=> v # NULL /\ v <= high
      BY <2>2, <3>2, Logic3
    <3>4. v # NULL => (v <= high <=> v = high \/ ColumnLess(v, high))
      BY <1>1, <2>2 DEF ColumnLess, Values
    <3>5. v = NULL => ColumnLess(v, high)
      BY <2>2 DEF ColumnLess
    <3>6. ColumnLess(low, v) <=> v # NULL
      BY <1>4 DEF ColumnLess
    <3> QED
      BY <1>2, <1>3, <1>4, <2>2, <3>1, <3>3, <3>4, <3>5, <3>6
  <2> QED
    BY <2>1, <2>2
<1>5. CASE low # NULL
  <2>1. LoPred(ch, k) = IF ch.loIncl THEN Leq3(low, v) ELSE Less3(low, v)
    BY <1>1 DEF LoPred
  <2>2. HiPred(ch, k) = IF high = NULL THEN True3 ELSE Leq3(v, high)
    BY <1>1 DEF HiPred
  <2>3. /\ Leq3(low, v) \in Booleans3 /\ (Leq3(low, v) = True3 <=> low # NULL /\ v # NULL /\ low <= v)
        /\ Less3(low, v) \in Booleans3 /\ (Less3(low, v) = True3 <=> low # NULL /\ v # NULL /\ low < v)
        /\ Leq3(v, high) \in Booleans3 /\ (Leq3(v, high) = True3 <=> v # NULL /\ high # NULL /\ v <= high)
    BY <1>1, Comparisons3
  <2>4. LoPred(ch, k) \in Booleans3 /\
        (LoPred(ch, k) = True3 <=> v # NULL /\ (low < v \/ (ch.loIncl /\ low = v)))
    BY <1>1, <1>5, <2>1, <2>3 DEF Values
  <2>5. HiPred(ch, k) \in Booleans3 /\
        (HiPred(ch, k) = True3 <=> high = NULL \/ (v # NULL /\ v <= high))
    BY <2>2, <2>3 DEF Booleans3
  <2>6. Selects(ch, k) <=> LoPred(ch, k) = True3 /\ HiPred(ch, k) = True3
    BY <1>3, <1>5, <2>4, <2>5, Logic3
  <2>7. ColumnLess(low, v) \/ (ch.loIncl /\ v = low) <=> v # NULL /\ (low < v \/ (ch.loIncl /\ low = v))
    BY <1>1, <1>5 DEF ColumnLess, Values
  <2>8. v # NULL => (v = high \/ ColumnLess(v, high) \/ high = NULL <=>
                       high = NULL \/ (v # NULL /\ v <= high))
    BY <1>1 DEF ColumnLess, Values
  <2> QED
    BY <1>2, <2>4, <2>5, <2>6, <2>7, <2>8
<1> QED
  BY <1>4, <1>5

\* Chunk.Pred of several columns selects every key between its bounds that
\* has no NULL (one after the lead column is missed by rowCompare's upper
\* bound), and of two columns it selects no other.
THEOREM SelectsComposite ==
  ASSUME NEW n \in Nat \ {0, 1}, NEW k \in KeysOf(n), NEW ch, ch.lo \in KeysOf(n), ch.hi \in KeysOf(n),
         ch.loIncl \in BOOLEAN, ch.prefix = 0
  PROVE  /\ Above(k, ch) /\ KeyLeq(k, ch.hi) /\ (\A i \in 1..n : k[i] # NULL) => Selects(ch, k)
         /\ n = 2 /\ Selects(ch, k) => Above(k, ch) /\ KeyLeq(k, ch.hi)
<1>1. ch.lo # <<>> /\ Len(k) # 1
  BY DEF KeysOf
<1>2. Selects(ch, k) <=> And3(RowAbove(k, ch.lo, ch.loIncl), RowBelow(k, ch.hi)) = True3
  BY <1>1 DEF Selects, Unbounded, LoPred, HiPred
<1>3. n \in Nat \ {0} /\ (n = 2 => n <= 2)
  OBVIOUS
<1>4. /\ RowAbove(k, ch.lo, ch.loIncl) \in Booleans3
      /\ KeyLess(ch.lo, k) \/ (ch.loIncl /\ k = ch.lo) => RowAbove(k, ch.lo, ch.loIncl) = True3
      /\ n = 2 /\ RowAbove(k, ch.lo, ch.loIncl) = True3 => KeyLess(ch.lo, k) \/ (ch.loIncl /\ k = ch.lo)
  BY <1>3, RowAboveTrue
<1>5. /\ RowBelow(k, ch.hi) \in Booleans3
      /\ n = 2 /\ RowBelow(k, ch.hi) = True3 => KeyLeq(k, ch.hi)
      /\ KeyLeq(k, ch.hi) /\ (\A i \in 1..n : k[i] # NULL) => RowBelow(k, ch.hi) = True3
  BY <1>3, RowBelowTrue
<1> QED
  BY <1>2, <1>4, <1>5, Logic3 DEF Above

-----------------------------------------------------------------------------
(***************************************************************************)
(* The integer splitter.  Its offsets are computed modulo 2 * Half; none   *)
(* of them wraps unless the step does, and then the lower extreme is above *)
(* the upper one (rows moved between the two queries).                     *)
(***************************************************************************)
LEMMA Modulo ==
  ASSUME NEW M \in Nat \ {0}, NEW x \in Int
  PROVE  /\ 0 <= x /\ x < M => x % M = x
         /\ M <= x /\ x < 2 * M => x % M = x - M
         /\ -M <= x /\ x < 0 => x % M = x + M
<1>1. ASSUME 0 <= x, x < M PROVE x % M = x
  BY <1>1
<1>2. ASSUME M <= x, x < 2 * M PROVE x % M = x - M
  BY <1>2
<1>3. ASSUME -M <= x, x < 0 PROVE x % M = x + M
  BY <1>3
<1> QED
  BY <1>1, <1>2, <1>3

LEMMA Quotient ==
  ASSUME NEW a \in Nat, NEW b \in Nat \ {0}
  PROVE  /\ a \div b \in Nat /\ a < b => a \div b = 0
         /\ (a \div b) * b <= a /\ a < (a \div b) * b + b
  OBVIOUS

LEMMA Multiples ==
  ASSUME NEW n \in Nat, NEW step \in Nat
  PROVE  /\ \A i \in Nat : i * step \in Nat /\ (i + 1) * step = i * step + step
         /\ \A i \in 0..n : i * step <= n * step
  OBVIOUS

\* The value at an offset from low, wrapped to a signed one.
At(low, d) == IF low + d <= MaxInt THEN low + d ELSE low + d - 2 * Half

LEMMA UnsignedIs ==
  ASSUME NEW x \in Int
  PROVE  /\ 0 <= x /\ x < 2 * Half => Unsigned(x) = x
         /\ 2 * Half <= x /\ x < 4 * Half => Unsigned(x) = x - 2 * Half
         /\ -(2 * Half) <= x /\ x < 0 => Unsigned(x) = x + 2 * Half
<1> DEFINE W == 2 * Half
<1>1. W \in Nat \ {0} /\ 4 * Half = 2 * W
  BY HalfAssumption
<1>2. Unsigned(x) = x % W
  BY DEF Unsigned
<1>3. W = 2 * Half
  OBVIOUS
<1> HIDE DEF W
<1>4. /\ 0 <= x /\ x < W => x % W = x
      /\ W <= x /\ x < 2 * W => x % W = x - W
      /\ -W <= x /\ x < 0 => x % W = x + W
  BY <1>1, Modulo
<1> QED
  BY <1>1, <1>2, <1>3, <1>4

LEMMA UnsignedRange ==
  ASSUME NEW x \in Int
  PROVE  Unsigned(x) \in 0..(2 * Half - 1)
<1>1. 2 * Half \in Nat \ {0}
  BY HalfAssumption
<1> DEFINE W == 2 * Half
<1>2. W \in Nat \ {0} /\ Unsigned(x) = x % W
  BY <1>1 DEF Unsigned
<1> HIDE DEF W
<1>3. x % W \in 0..(W - 1)
  BY <1>2
<1> QED
  BY <1>2, <1>3 DEF W

LEMMA AtOffset ==
  ASSUME NEW low \in MinInt..MaxInt, NEW d \in 0..(2 * Half - 1)
  PROVE  /\ Signed(Unsigned(Unsigned(low) + d)) = At(low, d)
         /\ At(low, d) \in MinInt..MaxInt
<1>1. Half \in Nat \ {0} /\ MaxInt = Half - 1 /\ MinInt = -Half
  BY HalfAssumption DEF MaxInt, MinInt
<1>2. PICK u \in Int : u = Unsigned(low) /\ u = IF low < 0 THEN low + 2 * Half ELSE low
  BY <1>1, UnsignedIs
<1>3. Unsigned(u + d) = IF u + d < 2 * Half THEN u + d ELSE u + d - 2 * Half
  <2>1. u + d \in Int /\ 0 <= u + d /\ u + d < 4 * Half
    BY <1>1, <1>2
  <2> QED
    BY <1>1, <2>1, UnsignedIs
<1> QED
  BY <1>1, <1>2, <1>3 DEF At, Signed

\* Range i of step offsets, the last one cut at the distance diff of the
\* extremes.
RangeEnd(step, diff, i) == IF step = 0 \/ i * step - 1 > diff THEN diff ELSE i * step - 1
RangeLow(low, step, i) ==
  IF i = 1 THEN low ELSE IF step = 0 THEN low - 1 ELSE At(low, (i - 1) * step - 1)
RangeHigh(low, step, diff, i) == At(low, RangeEnd(step, diff, i))
Ranges(low, m, step, diff, prefix) ==
  [i \in 1..m |-> [id |-> i - 1, lo |-> << RangeLow(low, step, i) >>, loIncl |-> i = 1,
                   hi |-> << RangeHigh(low, step, diff, i) >>, prefix |-> prefix]]

\* The ranges cover the distance, and there are none past it.
Shape(low, high, n, m, step, diff) ==
  /\ diff = IF low < high THEN high - low ELSE high - low + 2 * Half
  /\ step = 0 => high < low
  /\ step > 0 => n * step > diff /\ \A i \in 1..n : i <= m <=> (i - 1) * step <= diff

\* What the splitter emits for two different extremes: m of these ranges.
LEMMA IntBoundariesShape ==
  ASSUME NEW low \in MinInt..MaxInt, NEW high \in MinInt..MaxInt, low # high,
         NEW n \in 2..Half, NEW prefix, SpanSafe(low, high)
  PROVE  \E m \in 1..n, step \in Nat, diff \in 1..(2 * Half - 1) :
           /\ IntBoundaries(low, high, n, prefix) = Ranges(low, m, step, diff, prefix)
           /\ Shape(low, high, n, m, step, diff)
<1> DEFINE W == 2 * Half
<1>1. /\ Half \in Nat \ {0} /\ MaxInt = Half - 1 /\ MinInt = -Half
      /\ low \in Int /\ high \in Int /\ n \in Nat \ {0}
  BY HalfAssumption DEF MaxInt, MinInt
<1>2. PICK ulo \in 0..(W - 1) : ulo = Unsigned(low) /\ ulo = IF low < 0 THEN low + W ELSE low
  BY <1>1, UnsignedIs
<1>3. PICK uhi \in 0..(W - 1) : uhi = Unsigned(high) /\ uhi = IF high < 0 THEN high + W ELSE high
  BY <1>1, UnsignedIs
<1>4. PICK diff \in 1..(W - 1) : /\ diff = Unsigned(uhi - ulo)
                                 /\ diff = IF low < high THEN high - low ELSE high - low + W
  <2>1. Unsigned(uhi - ulo) = IF uhi < ulo THEN uhi - ulo + W ELSE uhi - ulo
    <3>1. uhi - ulo \in Int /\ -W <= uhi - ulo /\ uhi - ulo < W
      BY <1>1
    <3> QED
      BY <3>1, UnsignedIs
  <2> QED
    BY <1>1, <1>2, <1>3, <2>1
<1>5. low < high => diff < Half
  BY <1>1, <1>4 DEF SpanSafe
<1>6. PICK x \in Nat : x = Unsigned(Unsigned(diff + 1) + n - 1) /\ (x = diff + n \/ (x < n /\ high < low))
  <2>1. CASE diff + 1 = W
    <3>1. Unsigned(diff + 1) = 0
      BY <1>1, <2>1, UnsignedIs
    <3>2. n - 1 \in Int /\ Unsigned(n - 1) = n - 1
      BY <1>1, UnsignedIs
    <3> QED
      BY <1>1, <1>5, <2>1, <3>1, <3>2
  <2>2. CASE diff + 1 < W
    <3>1. Unsigned(diff + 1) = diff + 1
      BY <1>1, <2>2, UnsignedIs
    <3>2. diff + n \in Int /\ Unsigned(diff + n) = IF diff + n < W THEN diff + n ELSE diff + n - W
      BY <1>1, UnsignedIs
    <3> QED
      BY <1>1, <1>5, <3>1, <3>2
  <2> QED
    BY <1>1, <2>1, <2>2
<1>7. PICK step \in Nat : /\ step = Unsigned(Unsigned(diff + 1) + n - 1) \div n
                          /\ step * n <= x /\ x < step * n + n
                          /\ x < n => step = 0
  <2>1. /\ x \div n \in Nat /\ (x < n => x \div n = 0)
        /\ (x \div n) * n <= x /\ x < (x \div n) * n + n
    BY <1>1, Quotient
  <2>2. x = Unsigned(Unsigned(diff + 1) + n - 1)
    BY <1>6
  <2> QED
    BY <2>1, <2>2
<1> DEFINE off(i)  == Unsigned(i * step)
           last(i) == LET e == Unsigned(off(i) + step - 1) IN IF e > diff THEN diff ELSE e
           emitted == {i \in 0..(n - 1) : \A j \in 0..i : off(j) <= diff}
           split   == [i \in 1..Cardinality(emitted) |->
                        [id     |-> i - 1,
                         lo     |-> << Signed(Unsigned(ulo + off(i - 1) - (IF i = 1 THEN 0 ELSE 1))) >>,
                         loIncl |-> i = 1,
                         hi     |-> << Signed(Unsigned(ulo + last(i - 1))) >>,
                         prefix |-> prefix]]
<1>8. IntBoundaries(low, high, n, prefix) = split
  BY <1>2, <1>3, <1>4, <1>7 DEF IntBoundaries
<1>9. ASSUME NEW i \in 0..(n - 1)
      PROVE  /\ step = 0 => off(i) = 0 /\ last(i) = diff
             /\ step > 0 => /\ off(i) = i * step
                            /\ last(i) = IF (i + 1) * step - 1 > diff THEN diff ELSE (i + 1) * step - 1
             /\ last(i) \in 0..diff
  <2>1. CASE step = 0
    <3>1. i * step = 0 /\ Unsigned(0) = 0 /\ Unsigned(-1) = W - 1
      BY <1>1, <2>1, UnsignedIs
    <3>2. off(i) = 0
      BY <3>1
    <3>3. Unsigned(off(i) + step - 1) = W - 1
      BY <2>1, <3>1, <3>2
    <3>4. last(i) = diff
      BY <1>1, <3>3
    <3> HIDE DEF off, last
    <3> QED
      BY <1>4, <2>1, <3>2, <3>4
  <2>2. CASE step > 0
    <3>1. x = diff + n /\ step * n <= diff + n /\ diff + n < W
      <4>1. x = diff + n
        BY <1>6, <1>7, <2>2
      <4>2. x < W
        BY <1>1, <1>6, <4>1, UnsignedRange
      <4> QED
        BY <1>7, <4>1, <4>2
    <3>2. i * step \in Nat /\ (i + 1) * step = i * step + step /\ (i + 1) * step <= n * step
      BY <1>1, Multiples
    <3>3. n * step = step * n
      BY <1>1
    <3>4. Unsigned(i * step) = i * step /\ Unsigned(i * step + step - 1) = i * step + step - 1
      <4>1. /\ i * step \in Int /\ 0 <= i * step /\ i * step < W
            /\ i * step + step - 1 \in Int /\ 0 <= i * step + step - 1 /\ i * step + step - 1 < W
        BY <1>1, <2>2, <3>1, <3>2, <3>3
      <4> QED
        BY <4>1, UnsignedIs
    <3> QED
      BY <1>4, <2>2, <3>2, <3>4
  <2> QED
    BY <2>1, <2>2
<1>10. PICK m \in 1..n :
        /\ emitted = 0..(m - 1)
        /\ step = 0 => high < low
        /\ step > 0 => n * step > diff /\ \A i \in 1..n : i <= m <=> (i - 1) * step <= diff
  <2>1. CASE step = 0
    <3>1. high < low
      BY <1>6, <1>7, <2>1
    <3>2. emitted = 0..(n - 1)
      BY <1>9, <2>1
    <3> QED
      BY <2>1, <3>1, <3>2
  <2>2. CASE step > 0
    <3>1. n * step > diff
      BY <1>1, <1>6, <1>7, <2>2
    <3> DEFINE T == {j \in 1..n : j = n \/ j * step > diff}
    <3>2. T # {} /\ T \in SUBSET Nat
      <4>1. n \in T
        BY <1>1
      <4>2. T \subseteq 1..n
        OBVIOUS
      <4> HIDE DEF T
      <4> QED
        BY <4>1, <4>2
    <3> HIDE DEF T
    <3>3. PICK m \in T : \A j \in T : m <= j
      BY <3>2, LeastNat
    <3>4. m \in 1..n /\ (m = n \/ m * step > diff)
      BY <3>3 DEF T
    <3>5. ASSUME NEW i \in 1..n PROVE i <= m <=> (i - 1) * step <= diff
      <4>1. CASE i = 1
        BY <3>4, <4>1
      <4>2. CASE i > 1 /\ i <= m
        <5>1. i - 1 \in 1..n /\ i - 1 \notin T
          BY <3>3, <3>4, <4>2
        <5> QED
          BY <4>2, <5>1 DEF T
      <4>3. CASE i > m
        <5>1. m * step > diff /\ i - 1 \in Nat /\ m \in 0..(i - 1)
          BY <3>4, <4>3
        <5>2. m * step <= (i - 1) * step
          BY <5>1, Multiples
        <5>3. m * step \in Int /\ (i - 1) * step \in Int
          BY <3>4, <5>1
        <5> QED
          BY <4>3, <5>1, <5>2, <5>3
      <4> QED
        BY <3>4, <4>1, <4>2, <4>3
    <3>6. \A i \in 0..(n - 1) : off(i) <= diff <=> i <= m - 1
      <4> SUFFICES ASSUME NEW i \in 0..(n - 1) PROVE off(i) <= diff <=> i <= m - 1
        OBVIOUS
      <4>1. i + 1 \in 1..n /\ (i + 1) - 1 = i
        OBVIOUS
      <4>2. i + 1 <= m <=> i * step <= diff
        BY <3>5, <4>1
      <4>3. off(i) = i * step
        BY <1>9, <2>2
      <4> QED
        BY <3>4, <4>2, <4>3
    <3> HIDE DEF off
    <3>7. emitted = 0..(m - 1)
      BY <3>4, <3>6
    <3> QED
      BY <2>2, <3>1, <3>4, <3>5, <3>7
  <2> QED
    BY <2>1, <2>2
<1>11. Cardinality(emitted) = m
  <2>1. m - 1 \in Int /\ ~(0 > m - 1)
    OBVIOUS
  <2>2. Cardinality(0..(m - 1)) = (m - 1) - 0 + 1
    BY <2>1, FS_Interval
  <2> HIDE DEF emitted
  <2> QED
    BY <1>10, <2>2
<1>12. ASSUME NEW i \in 1..m
       PROVE  /\ Signed(Unsigned(ulo + off(i - 1) - (IF i = 1 THEN 0 ELSE 1))) =
                   IF i = 1 THEN low ELSE IF step = 0 THEN low - 1 ELSE At(low, (i - 1) * step - 1)
              /\ Signed(Unsigned(ulo + last(i - 1))) =
                   At(low, IF step = 0 \/ i * step - 1 > diff THEN diff ELSE i * step - 1)
  <2>1. i - 1 \in 0..(n - 1) /\ (i - 1) + 1 = i /\ i \in 1..n
    OBVIOUS
  <2>2. /\ step = 0 => off(i - 1) = 0 /\ last(i - 1) = diff
        /\ step > 0 => /\ off(i - 1) = (i - 1) * step
                       /\ last(i - 1) = IF i * step - 1 > diff THEN diff ELSE i * step - 1
        /\ last(i - 1) \in 0..diff
    BY <1>9, <2>1
  <2> HIDE DEF last, off
  <2>3. Signed(Unsigned(ulo + last(i - 1))) = At(low, last(i - 1))
    <3>1. last(i - 1) \in 0..(2 * Half - 1)
      BY <1>1, <1>4, <2>2
    <3> QED
      BY <1>2, <3>1, AtOffset
  <2>4. last(i - 1) = IF step = 0 \/ i * step - 1 > diff THEN diff ELSE i * step - 1
    BY <2>2
  <2>5. CASE i = 1
    <3>1. off(i - 1) = 0
      BY <2>2, <2>5
    <3>2. Signed(Unsigned(ulo + 0)) = At(low, 0) /\ At(low, 0) = low
      <4>1. 0 \in 0..(2 * Half - 1)
        BY <1>1
      <4>2. Signed(Unsigned(ulo + 0)) = At(low, 0)
        BY <1>2, <4>1, AtOffset
      <4>3. At(low, 0) = low
        BY <1>1 DEF At
      <4> QED
        BY <4>2, <4>3
    <3>3. ulo + off(i - 1) - (IF i = 1 THEN 0 ELSE 1) = ulo + 0
      BY <2>5, <3>1
    <3> QED
      BY <2>3, <2>4, <2>5, <3>2, <3>3
  <2>6. CASE i # 1 /\ step = 0
    <3>1. low > MinInt
      BY <1>1, <1>10, <2>6
    <3>2. Signed(Unsigned(ulo - 1)) = low - 1
      <4>1. CASE ulo = 0
        <5>1. Unsigned(-1) = W - 1
          BY <1>1, UnsignedIs
        <5> QED
          BY <1>1, <1>2, <4>1, <5>1 DEF Signed
      <4>2. CASE ulo > 0
        <5>1. Unsigned(ulo - 1) = ulo - 1
          BY <1>1, <4>2, UnsignedIs
        <5> QED
          BY <1>1, <1>2, <3>1, <4>2, <5>1 DEF Signed
      <4> QED
        BY <4>1, <4>2
    <3>3. ulo + off(i - 1) - (IF i = 1 THEN 0 ELSE 1) = ulo - 1
      BY <2>2, <2>6
    <3> QED
      BY <2>3, <2>4, <2>6, <3>2, <3>3
  <2>7. CASE i # 1 /\ step > 0
    <3>1. (i - 1) * step \in Nat /\ step <= (i - 1) * step /\ (i - 1) * step <= diff
      <4>1. (i - 1) * step <= diff
        BY <1>10, <2>1, <2>7
      <4>2. 1 \in 0..(i - 1) /\ i - 1 \in Nat
        BY <2>1, <2>7
      <4>3. 1 * step <= (i - 1) * step
        BY <4>2, Multiples
      <4>4. (i - 1) * step \in Nat
        BY <4>2
      <4> QED
        BY <4>1, <4>3, <4>4
    <3> DEFINE d == (i - 1) * step - 1
    <3>2. d \in 0..(2 * Half - 1)
      BY <1>1, <1>4, <2>7, <3>1
    <3>3. ulo + off(i - 1) - (IF i = 1 THEN 0 ELSE 1) = ulo + d
      BY <2>2, <2>7, <3>1
    <3> HIDE DEF d
    <3>4. Signed(Unsigned(ulo + d)) = At(low, d)
      BY <1>2, <3>2, AtOffset
    <3> QED
      BY <2>3, <2>4, <2>7, <3>3, <3>4 DEF d
  <2> QED
    BY <2>5, <2>6, <2>7, <2>1
<1>13. split = Ranges(low, m, step, diff, prefix)
  <2> HIDE DEF emitted, off, last
  <2> QED
    BY <1>11, <1>12 DEF Ranges, RangeLow, RangeHigh, RangeEnd
<1> HIDE DEF split
<1>14. Shape(low, high, n, m, step, diff)
  BY <1>4, <1>10 DEF Shape
<1> QED
  BY <1>8, <1>13, <1>14

\* The bounds of the ranges.
BoundsOf(low, step, diff, i) ==
  /\ i * step \in Nat /\ (i - 1) * step \in Nat /\ i * step = (i - 1) * step + step
  /\ RangeEnd(step, diff, i) \in 0..(2 * Half - 1) /\ RangeEnd(step, diff, i) <= diff
  /\ step > 0 => /\ (i - 1) * step <= RangeEnd(step, diff, i)
                 /\ RangeEnd(step, diff, i) < i * step
                 /\ i # 1 => (i - 1) * step - 1 \in 0..(2 * Half - 1)
  /\ RangeHigh(low, step, diff, i) \in MinInt..MaxInt
  /\ RangeLow(low, step, i) \in Int /\ RangeLow(low, step, i) >= MinInt - 1
RangeChunk(ch, low, step, diff, prefix, i) ==
  /\ ch.id = i - 1 /\ ch.prefix = prefix
  /\ (ch.loIncl <=> i = 1) /\ ch.loIncl \in BOOLEAN
  /\ ch.lo = << RangeLow(low, step, i) >> /\ ch.hi = << RangeHigh(low, step, diff, i) >>

LEMMA RangeBounds ==
  ASSUME NEW low \in MinInt..MaxInt, NEW high, NEW n \in Nat, NEW m \in 1..n, NEW step \in Nat,
         NEW diff \in 1..(2 * Half - 1), NEW prefix, NEW i \in 1..m,
         Shape(low, high, n, m, step, diff)
  PROVE  /\ BoundsOf(low, step, diff, i)
         /\ RangeChunk(Ranges(low, m, step, diff, prefix)[i], low, step, diff, prefix, i)
<1>1. Half \in Nat \ {0} /\ MaxInt = Half - 1 /\ MinInt = -Half /\ low \in Int
  BY HalfAssumption DEF MaxInt, MinInt
<1>2. i \in Nat /\ i - 1 \in Nat /\ (i - 1) + 1 = i /\ i \in 1..n /\ (i # 1 => 1 \in 0..(i - 1))
  OBVIOUS
<1>3. i * step \in Nat /\ (i - 1) * step \in Nat /\ i * step = (i - 1) * step + step
  BY <1>2, Multiples
<1>4. i # 1 => step <= (i - 1) * step
  <2>1. i # 1 => 1 * step <= (i - 1) * step
    BY <1>2, Multiples
  <2> QED
    BY <2>1
<1>5. step > 0 => (i - 1) * step <= diff
  BY <1>2 DEF Shape
<1> DEFINE t == i * step
           s == (i - 1) * step
<1>6. t \in Nat /\ s \in Nat /\ t = s + step /\ (i # 1 => step <= s) /\ (step > 0 => s <= diff)
  BY <1>3, <1>4, <1>5
<1>7. RangeEnd(step, diff, i) = IF step = 0 \/ t - 1 > diff THEN diff ELSE t - 1
  BY DEF RangeEnd
<1> HIDE DEF t, s
<1>8. /\ RangeEnd(step, diff, i) \in 0..(2 * Half - 1) /\ RangeEnd(step, diff, i) <= diff
      /\ step > 0 => /\ s <= RangeEnd(step, diff, i) /\ RangeEnd(step, diff, i) < t
                     /\ i # 1 => s - 1 \in 0..(2 * Half - 1)
  BY <1>1, <1>6, <1>7
<1>9. RangeHigh(low, step, diff, i) \in MinInt..MaxInt
  BY <1>8, AtOffset DEF RangeHigh
<1>10. RangeLow(low, step, i) \in Int /\ RangeLow(low, step, i) >= MinInt - 1
  <2>1. CASE i = 1 \/ step = 0
    BY <1>1, <2>1 DEF RangeLow
  <2>2. CASE i # 1 /\ step > 0
    <3>1. At(low, s - 1) \in MinInt..MaxInt
      BY <1>8, <2>2, AtOffset
    <3>2. RangeLow(low, step, i) = At(low, s - 1)
      BY <2>2 DEF RangeLow, s
    <3> QED
      BY <1>1, <3>1, <3>2
  <2> QED
    BY <2>1, <2>2
<1>11. RangeChunk(Ranges(low, m, step, diff, prefix)[i], low, step, diff, prefix, i)
  BY DEF Ranges, RangeChunk
<1> QED
  BY <1>3, <1>8, <1>9, <1>10, <1>11 DEF BoundsOf, s, t

\* At most n ranges of integers, numbered from 0; the first has its lower
\* bound.
IntRanges(C, n, prefix) ==
  \E m \in 1..n :
    /\ DOMAIN C = 1..m /\ Len(C) = m /\ C = [i \in 1..m |-> C[i]]
    /\ \A i \in 1..m :
         /\ C[i].id = i - 1 /\ C[i].prefix = prefix /\ (C[i].loIncl <=> i = 1)
         /\ C[i].loIncl \in BOOLEAN
         /\ \E a \in Int, b \in MinInt..MaxInt : C[i].lo = <<a>> /\ C[i].hi = <<b>>

LEMMA IntBoundariesType ==
  ASSUME NEW low \in MinInt..MaxInt, NEW high \in MinInt..MaxInt,
         NEW n \in 2..Half, NEW prefix, SpanSafe(low, high),
         NEW C, C = IntBoundaries(low, high, n, prefix)
  PROVE  IntRanges(C, n, prefix)
<1> SUFFICES \E m \in 1..n :
           /\ DOMAIN C = 1..m /\ Len(C) = m /\ C = [i \in 1..m |-> C[i]]
           /\ \A i \in 1..m :
                /\ C[i].id = i - 1 /\ C[i].prefix = prefix /\ (C[i].loIncl <=> i = 1)
                /\ C[i].loIncl \in BOOLEAN
                /\ \E a \in Int, b \in MinInt..MaxInt : C[i].lo = <<a>> /\ C[i].hi = <<b>>
  BY DEF IntRanges
<1>1. /\ Half \in Nat \ {0} /\ MaxInt = Half - 1 /\ MinInt = -Half
      /\ low \in Int /\ high \in Int /\ n \in Nat \ {0}
  BY HalfAssumption DEF MaxInt, MinInt
<1>2. CASE low = high
  <2>1. C = << [id |-> 0, lo |-> <<low>>, loIncl |-> TRUE, hi |-> <<high>>, prefix |-> prefix] >>
    BY <1>2 DEF IntBoundaries
  <2>2. 1 \in 1..n
    BY <1>1
  <2>3. DOMAIN C = 1..1 /\ Len(C) = 1 /\ C = [i \in 1..1 |-> C[i]]
    BY <2>1
  <2>4. /\ C[1].id = 0 /\ C[1].prefix = prefix /\ C[1].loIncl = TRUE
        /\ C[1].lo = <<low>> /\ C[1].hi = <<high>>
    BY <2>1
  <2> QED
    <3>1. /\ C[1].id = 1 - 1 /\ C[1].prefix = prefix /\ (C[1].loIncl <=> 1 = 1)
          /\ C[1].loIncl \in BOOLEAN
          /\ \E a \in Int, b \in MinInt..MaxInt : C[1].lo = <<a>> /\ C[1].hi = <<b>>
      <4>1. low \in Int /\ high \in MinInt..MaxInt /\ 1 - 1 = 0
        BY <1>1
      <4> QED
        BY <2>4, <4>1, Zenon
    <3>2. \A i \in 1..1 :
            /\ C[i].id = i - 1 /\ C[i].prefix = prefix /\ (C[i].loIncl <=> i = 1)
            /\ C[i].loIncl \in BOOLEAN
            /\ \E a \in Int, b \in MinInt..MaxInt : C[i].lo = <<a>> /\ C[i].hi = <<b>>
      <4>1. \A i \in 1..1 : i = 1
        OBVIOUS
      <4> QED
        BY <3>1, <4>1, Zenon
    <3> QED
      BY <2>2, <2>3, <3>2
<1>3. CASE low # high
  <2>0. PICK m \in 1..n, step \in Nat, diff \in 1..(2 * Half - 1) :
           /\ IntBoundaries(low, high, n, prefix) = Ranges(low, m, step, diff, prefix)
           /\ Shape(low, high, n, m, step, diff)
    BY <1>3, IntBoundariesShape
  <2>1. /\ diff = IF low < high THEN high - low ELSE high - low + 2 * Half
        /\ step = 0 => high < low
        /\ step > 0 => n * step > diff
        /\ step > 0 => \A i \in 1..n : i <= m <=> (i - 1) * step <= diff
    BY <2>0 DEF Shape
  <2>2. C = Ranges(low, m, step, diff, prefix)
    BY <2>0
  <2>3. DOMAIN C = 1..m /\ C = [i \in 1..m |-> C[i]]
    BY <2>2 DEF Ranges
  <2>4. Len(C) = m
    BY <2>3
  <2>5. ASSUME NEW i \in 1..m
        PROVE  /\ C[i].id = i - 1 /\ C[i].prefix = prefix /\ (C[i].loIncl <=> i = 1)
               /\ C[i].loIncl \in BOOLEAN
               /\ \E a \in Int, b \in MinInt..MaxInt : C[i].lo = <<a>> /\ C[i].hi = <<b>>
    <3>1. n \in Nat
      BY <1>1
    <3>2. /\ BoundsOf(low, step, diff, i)
          /\ RangeChunk(Ranges(low, m, step, diff, prefix)[i], low, step, diff, prefix, i)
      BY <2>0, <3>1, RangeBounds
    <3> QED
      BY <2>2, <3>2 DEF BoundsOf, RangeChunk
  <2> QED
    BY <2>3, <2>4, <2>5
<1> QED
  BY <1>2, <1>3

\* A chunk bounded on the lead column.
LEMMA SelectsLead ==
  ASSUME NEW cols \in Nat \ {0}, NEW k \in KeysOf(cols), NEW a \in Int, NEW b \in Int, NEW ch,
         ch.lo = <<a>>, ch.hi = <<b>>, ch.prefix = IF cols > 1 THEN 1 ELSE 0
  PROVE  Selects(ch, k) <=>
           k[1] # NULL /\ (a < k[1] \/ (ch.loIncl /\ a = k[1])) /\ k[1] <= b
<1>1. /\ ch.lo # <<>> /\ ch.lo[1] = a /\ ch.hi[1] = b
      /\ a # NULL /\ b # NULL /\ a \in Values /\ b \in Values
  BY NullAssumption DEF Values
<1>2. k[1] \in Values /\ Len(k) = cols
  BY KeyMember
<1>3. ch.prefix > 0 \/ Len(k) = 1
  BY <1>2
<1>4. Selects(ch, k) <=> And3(LoPred(ch, k), HiPred(ch, k)) = True3
  BY <1>1 DEF Selects, Unbounded
<1>5. LoPred(ch, k) = IF ch.loIncl THEN Leq3(a, k[1]) ELSE Less3(a, k[1])
  BY <1>1, <1>3 DEF LoPred
<1>6. HiPred(ch, k) = Leq3(k[1], b)
  BY <1>1, <1>3 DEF HiPred
<1>7. /\ Leq3(a, k[1]) \in Booleans3 /\ (Leq3(a, k[1]) = True3 <=> a # NULL /\ k[1] # NULL /\ a <= k[1])
      /\ Less3(a, k[1]) \in Booleans3 /\ (Less3(a, k[1]) = True3 <=> a # NULL /\ k[1] # NULL /\ a < k[1])
      /\ Leq3(k[1], b) \in Booleans3 /\ (Leq3(k[1], b) = True3 <=> k[1] # NULL /\ b # NULL /\ k[1] <= b)
  <2> DEFINE v == k[1]
  <2>1. v \in Values /\ a \in Values /\ b \in Values
    BY <1>1, <1>2
  <2> HIDE DEF v
  <2>2. Leq3(a, v) \in Booleans3 /\ (Leq3(a, v) = True3 <=> a # NULL /\ v # NULL /\ a <= v)
    BY <2>1, Comparisons3
  <2>3. Less3(a, v) \in Booleans3 /\ (Less3(a, v) = True3 <=> a # NULL /\ v # NULL /\ a < v)
    BY <2>1, Comparisons3
  <2>4. Leq3(v, b) \in Booleans3 /\ (Leq3(v, b) = True3 <=> v # NULL /\ b # NULL /\ v <= b)
    BY <2>1, Comparisons3
  <2> QED
    BY <2>2, <2>3, <2>4 DEF v
<1>8. Selects(ch, k) <=> /\ k[1] # NULL /\ k[1] <= b
                         /\ IF ch.loIncl THEN a <= k[1] ELSE a < k[1]
  BY <1>1, <1>4, <1>5, <1>6, <1>7, Logic3
<1>9. k[1] # NULL => (a <= k[1] <=> a < k[1] \/ a = k[1])
  BY <1>2 DEF Values
<1> QED
  BY <1>8, <1>9

\* A value between the values at two offsets is at an offset between them.
LEMMA OffsetWithin ==
  ASSUME NEW low \in MinInt..MaxInt, NEW v \in MinInt..MaxInt, NEW a \in 0..(2 * Half - 1),
         NEW b \in a..(2 * Half - 1),
         (a = 0 /\ low <= v) \/ (a > 0 /\ At(low, a - 1) < v), v <= At(low, b)
  PROVE  (IF v < low THEN v - low + 2 * Half ELSE v - low) \in a..b
<1>1. Half \in Nat \ {0} /\ MaxInt = Half - 1 /\ MinInt = -Half
  BY HalfAssumption DEF MaxInt, MinInt
<1>2. low \in Int /\ v \in Int /\ a \in Int /\ b \in Int
  BY <1>1
<1>3. At(low, b) = IF low + b <= MaxInt THEN low + b ELSE low + b - 2 * Half
  BY DEF At
<1>4. At(low, a - 1) = IF low + (a - 1) <= MaxInt THEN low + (a - 1) ELSE low + (a - 1) - 2 * Half
  BY DEF At
<1>5. CASE v < low
  BY <1>1, <1>2, <1>3, <1>4, <1>5
<1>6. CASE v >= low
  BY <1>1, <1>2, <1>3, <1>4, <1>6
<1> QED
  BY <1>2, <1>5, <1>6

\* No key is in two of intBoundaries' ranges, whatever the extremes.
THEOREM IntRangesDisjoint ==
  ASSUME NEW low \in MinInt..MaxInt, NEW high \in MinInt..MaxInt, NEW n \in 2..Half,
         SpanSafe(low, high), NEW cols \in Nat \ {0}, NEW k \in KeysOf(cols),
         NEW prefix, prefix = IF cols > 1 THEN 1 ELSE 0,
         NEW C, C = IntBoundaries(low, high, n, prefix),
         NEW p \in DOMAIN C, NEW q \in DOMAIN C, Selects(C[p], k), Selects(C[q], k)
  PROVE  p = q
<1>1. /\ Half \in Nat \ {0} /\ MaxInt = Half - 1 /\ MinInt = -Half
      /\ low \in Int /\ high \in Int /\ n \in Nat \ {0}
  BY HalfAssumption DEF MaxInt, MinInt
<1>2. CASE low = high
  <2>1. DOMAIN C = {1}
    BY <1>2 DEF IntBoundaries
  <2> QED
    BY <2>1
<1>3. CASE low # high
  <2>0. PICK m \in 1..n, step \in Nat, diff \in 1..(2 * Half - 1) :
           /\ IntBoundaries(low, high, n, prefix) = Ranges(low, m, step, diff, prefix)
           /\ Shape(low, high, n, m, step, diff)
    BY <1>3, IntBoundariesShape
  <2>1. /\ diff = IF low < high THEN high - low ELSE high - low + 2 * Half
        /\ step = 0 => high < low
        /\ step > 0 => n * step > diff
        /\ step > 0 => \A i \in 1..n : i <= m <=> (i - 1) * step <= diff
    BY <2>0 DEF Shape
  <2>2. C = Ranges(low, m, step, diff, prefix) /\ p \in 1..m /\ q \in 1..m
    BY <2>0 DEF Ranges
  <2> DEFINE end(i) == RangeEnd(step, diff, i)
  <2>3. ASSUME NEW i \in 1..m
        PROVE  /\ i * step \in Nat /\ (i - 1) * step \in Nat
               /\ end(i) \in 0..(2 * Half - 1)
               /\ step > 0 => /\ (i - 1) * step <= end(i) /\ end(i) < i * step
                              /\ i # 1 => (i - 1) * step - 1 \in 0..(2 * Half - 1)
               /\ RangeHigh(low, step, diff, i) \in MinInt..MaxInt
               /\ RangeLow(low, step, i) \in Int /\ RangeLow(low, step, i) >= MinInt - 1
               /\ C[i].prefix = prefix /\ (C[i].loIncl <=> i = 1)
               /\ C[i].lo = << RangeLow(low, step, i) >> /\ C[i].hi = << RangeHigh(low, step, diff, i) >>
    <3>1. n \in Nat
      BY <1>1
    <3>2. /\ BoundsOf(low, step, diff, i)
          /\ RangeChunk(C[i], low, step, diff, prefix, i)
      BY <2>0, <2>2, <3>1, RangeBounds
    <3> QED
      BY <3>2 DEF BoundsOf, RangeChunk
  <2>4. ASSUME NEW i \in 1..m, Selects(C[i], k)
        PROVE  /\ k[1] \in MinInt..MaxInt /\ k[1] <= At(low, end(i))
               /\ IF i = 1 THEN low <= k[1] ELSE RangeLow(low, step, i) < k[1]
    <3> DEFINE a == RangeLow(low, step, i)
               b == RangeHigh(low, step, diff, i)
    <3>1. a \in Int /\ b \in Int /\ b <= MaxInt /\ a >= MinInt - 1 /\ b = At(low, end(i))
      BY <1>1, <2>3 DEF RangeHigh
    <3>2. C[i].lo = <<a>> /\ C[i].hi = <<b>> /\ C[i].prefix = IF cols > 1 THEN 1 ELSE 0
      BY <2>3
    <3>3. (C[i].loIncl <=> i = 1) /\ (i = 1 => a = low)
      BY <2>3 DEF RangeLow
    <3> HIDE DEF a, b
    <3>4. k[1] # NULL /\ (a < k[1] \/ (C[i].loIncl /\ a = k[1])) /\ k[1] <= b
      BY <2>4, <3>1, <3>2, SelectsLead
    <3>5. k[1] \in Int
      BY <3>4, KeyMember DEF Values
    <3>6. k[1] \in MinInt..MaxInt /\ k[1] <= b /\ IF i = 1 THEN low <= k[1] ELSE a < k[1]
      BY <1>1, <3>1, <3>3, <3>4, <3>5
    <3> QED
      BY <3>1, <3>6 DEF a
  <2>5. CASE step = 0
    <3>1. At(low, end(p)) = high
      BY <1>1, <2>1, <2>5 DEF At, RangeEnd
    <3>2. k[1] \in Int /\ k[1] <= high
      BY <1>1, <2>2, <2>4, <3>1
    <3>3. k[1] >= low
      <4>1. RangeLow(low, step, p) = IF p = 1 THEN low ELSE low - 1
        BY <2>5 DEF RangeLow
      <4> QED
        BY <1>1, <2>2, <2>4, <3>2, <4>1
    <3> QED
      BY <1>1, <2>1, <2>5, <3>2, <3>3
  <2>6. CASE step > 0
    <3> DEFINE d == IF k[1] < low THEN k[1] - low + 2 * Half ELSE k[1] - low
    <3>1. ASSUME NEW i \in 1..m, Selects(C[i], k)
          PROVE  (i - 1) * step <= d /\ d < i * step /\ d \in Int
      <4> DEFINE s == (i - 1) * step
                 e == end(i)
                 u == i * step
      <4>0. s \in Nat /\ e \in 0..(2 * Half - 1) /\ u \in Nat /\ s <= e /\ e < u
        BY <2>3, <2>6
      <4> HIDE DEF s, e, u
      <4>1. s \in 0..(2 * Half - 1) /\ e \in s..(2 * Half - 1) /\ e < u /\ u \in Int
        BY <1>1, <4>0
      <4> USE DEF s, e, u
      <4>2. (s = 0 /\ low <= k[1]) \/ (s > 0 /\ At(low, s - 1) < k[1])
        <5>1. CASE i = 1
          BY <2>4, <3>1, <5>1
        <5>2. CASE i # 1
          <6>1. s - 1 \in 0..(2 * Half - 1) /\ s > 0
            BY <1>1, <2>3, <2>6, <4>1, <5>2
          <6>2. RangeLow(low, step, i) = At(low, s - 1)
            BY <2>6, <5>2 DEF RangeLow
          <6> QED
            BY <2>4, <3>1, <5>2, <6>1, <6>2
        <5> QED
          BY <5>1, <5>2
      <4>3. k[1] \in MinInt..MaxInt /\ k[1] <= At(low, e)
        BY <2>4, <3>1
      <4> HIDE DEF s, e
      <4>4. d \in s..e
        BY <4>1, <4>2, <4>3, OffsetWithin
      <4> QED
        BY <4>1, <4>4 DEF s
    <3> HIDE DEF d
    <3>2. ASSUME NEW i \in 1..m, NEW j \in 1..m, i < j, Selects(C[i], k), Selects(C[j], k)
          PROVE  FALSE
      <4>1. i \in 0..(j - 1) /\ j - 1 \in Nat
        BY <3>2
      <4>2. i * step <= (j - 1) * step
        BY <4>1, Multiples
      <4> QED
        BY <2>3, <3>1, <3>2, <4>2
    <3> QED
      BY <2>2, <3>2
  <2> QED
    BY <2>5, <2>6
<1> QED
  BY <1>2, <1>3

\* While the lower extreme is not above the upper one no offset of
\* intBoundaries wraps, so every value between them is in a range.
THEOREM IntRangesCover ==
  ASSUME NEW low \in MinInt..MaxInt, NEW high \in low..MaxInt, NEW n \in 2..Half,
         SpanSafe(low, high), NEW cols \in Nat \ {0}, NEW k \in KeysOf(cols),
         NEW prefix, prefix = IF cols > 1 THEN 1 ELSE 0,
         NEW C, C = IntBoundaries(low, high, n, prefix),
         k[1] \in low..high
  PROVE  \E p \in DOMAIN C : Selects(C[p], k)
<1>1. /\ Half \in Nat \ {0} /\ MaxInt = Half - 1 /\ MinInt = -Half
      /\ low \in Int /\ high \in MinInt..MaxInt /\ n \in Nat \ {0} /\ k[1] \in Int /\ k[1] # NULL
  BY HalfAssumption, NullAssumption DEF MaxInt, MinInt
<1>2. CASE low = high
  <2>1. C = << [id |-> 0, lo |-> <<low>>, loIncl |-> TRUE, hi |-> <<high>>, prefix |-> prefix] >>
    BY <1>2 DEF IntBoundaries
  <2>2. C[1].lo = <<low>> /\ C[1].hi = <<high>> /\ C[1].loIncl /\ C[1].prefix = prefix
    BY <2>1
  <2>3. Selects(C[1], k) <=>
          k[1] # NULL /\ (low < k[1] \/ (C[1].loIncl /\ low = k[1])) /\ k[1] <= high
    BY <1>1, <2>2, SelectsLead
  <2>4. 1 \in DOMAIN C
    BY <2>1
  <2> QED
    BY <1>1, <1>2, <2>2, <2>3, <2>4
<1>3. CASE low # high
  <2>0. PICK m \in 1..n, step \in Nat, diff \in 1..(2 * Half - 1) :
           /\ IntBoundaries(low, high, n, prefix) = Ranges(low, m, step, diff, prefix)
           /\ Shape(low, high, n, m, step, diff)
    BY <1>1, <1>3, IntBoundariesShape
  <2>1. /\ diff = high - low /\ step \in Nat \ {0} /\ n * step > diff
        /\ \A i \in 1..n : i <= m <=> (i - 1) * step <= diff
    BY <1>1, <1>3, <2>0 DEF Shape
  <2> DEFINE d == k[1] - low
             q == d \div step
  <2>2. q \in Nat /\ q * step <= d /\ d < q * step + step /\ d \in 0..diff
    <3>1. d \in Nat /\ d \in 0..diff
      BY <1>1, <2>1
    <3> HIDE DEF d
    <3> QED
      BY <2>1, <3>1, Quotient
  <2> HIDE DEF q
  <2>3. q + 1 \in 1..m
    <3>1. q < n
      <4> SUFFICES ASSUME q >= n PROVE FALSE
        BY <1>1, <2>2
      <4>1. n \in 0..q
        BY <1>1, <2>2
      <4>2. n * step <= q * step
        BY <2>1, <2>2, <4>1, Multiples
      <4>3. n * step \in Int /\ q * step \in Int
        BY <1>1, <2>2
      <4> QED
        BY <2>1, <2>2, <4>2, <4>3
    <3>2. q + 1 \in 1..n /\ (q + 1) - 1 = q /\ q * step <= diff
      <4>1. q * step \in Int
        BY <2>2
      <4> QED
        BY <1>1, <2>2, <3>1, <4>1
    <3> QED
      BY <2>1, <2>2, <3>2
  <2> DEFINE p == q + 1
             a == RangeLow(low, step, p)
             b == RangeHigh(low, step, diff, p)
  <2>4. /\ BoundsOf(low, step, diff, p)
        /\ RangeChunk(C[p], low, step, diff, prefix, p)
    BY <1>1, <2>0, <2>3, RangeBounds
  <2>5. p \in DOMAIN C
    BY <2>0, <2>3 DEF Ranges
  <2>6. p \in Nat \ {0} /\ p - 1 = q /\ p * step = q * step + step /\ q * step \in Nat
    BY <2>2, Multiples
  <2> HIDE DEF p
  <2>7. a \in Int /\ b \in Int /\ C[p].lo = <<a>> /\ C[p].hi = <<b>>
        /\ C[p].prefix = prefix /\ (C[p].loIncl <=> p = 1)
    BY <1>1, <2>4 DEF BoundsOf, RangeChunk
  <2>8. IF p = 1 THEN a = low ELSE a < k[1]
    <3>1. CASE p = 1
      BY <3>1 DEF RangeLow
    <3>2. CASE p # 1
      <4>1. a = At(low, q * step - 1)
        BY <2>1, <2>6, <3>2 DEF RangeLow
      <4> QED
        BY <1>1, <2>1, <2>2, <2>6, <3>2, <4>1 DEF At
    <3> QED
      BY <3>1, <3>2
  <2>9. k[1] <= b
    <3>1. b = At(low, RangeEnd(step, diff, p))
      BY DEF RangeHigh
    <3>2. RangeEnd(step, diff, p) = IF p * step - 1 > diff THEN diff ELSE p * step - 1
      BY <2>1 DEF RangeEnd
    <3>3. d <= RangeEnd(step, diff, p) /\ RangeEnd(step, diff, p) \in 0..diff
      BY <2>1, <2>2, <2>6, <3>2
    <3> QED
      BY <1>1, <2>1, <3>1, <3>3 DEF At
  <2> HIDE DEF a, b
  <2>10. Selects(C[p], k) <=>
           k[1] # NULL /\ (a < k[1] \/ (C[p].loIncl /\ a = k[1])) /\ k[1] <= b
    BY <2>7, SelectsLead
  <2> QED
    BY <1>1, <2>5, <2>7, <2>8, <2>9, <2>10
<1> QED
  BY <1>2, <1>3

\* Each range starts where the one before it ends, and ends above it.
AdjacentRanges(C, i) ==
  /\ C[i + 1].lo = C[i].hi /\ ~C[i + 1].loIncl
  /\ \E a, b \in Int : C[i].hi = <<a>> /\ C[i + 1].hi = <<b>> /\ a < b

LEMMA IntRangesAdjacent ==
  ASSUME NEW low \in MinInt..MaxInt, NEW high \in low..MaxInt, NEW n \in 2..Half,
         SpanSafe(low, high), NEW prefix, NEW C, C = IntBoundaries(low, high, n, prefix),
         NEW i \in 1..(Len(C) - 1)
  PROVE  AdjacentRanges(C, i)
<1> SUFFICES /\ C[i + 1].lo = C[i].hi /\ ~C[i + 1].loIncl
             /\ \E a, b \in Int : C[i].hi = <<a>> /\ C[i + 1].hi = <<b>> /\ a < b
  BY DEF AdjacentRanges
<1>1. /\ Half \in Nat \ {0} /\ MaxInt = Half - 1 /\ MinInt = -Half
      /\ low \in Int /\ high \in MinInt..MaxInt /\ n \in Nat \ {0}
  BY HalfAssumption DEF MaxInt, MinInt
<1>2. CASE low = high
  <2>1. Len(C) = 1
    BY <1>2 DEF IntBoundaries
  <2> QED
    BY <2>1
<1>3. CASE low # high
  <2>0. PICK m \in 1..n, step \in Nat, diff \in 1..(2 * Half - 1) :
           /\ IntBoundaries(low, high, n, prefix) = Ranges(low, m, step, diff, prefix)
           /\ Shape(low, high, n, m, step, diff)
    BY <1>1, <1>3, IntBoundariesShape
  <2>1. /\ diff = high - low /\ step \in Nat \ {0}
        /\ \A j \in 1..n : j <= m <=> (j - 1) * step <= diff
    <3>1. low < high /\ ~(high < low)
      BY <1>1, <1>3
    <3>2. diff = high - low /\ step \in Nat \ {0}
      BY <2>0, <3>1 DEF Shape
    <3>3. step > 0
      BY <3>2
    <3>4. \A j \in 1..n : j <= m <=> (j - 1) * step <= diff
      BY <2>0, <3>3, Zenon DEF Shape
    <3> QED
      BY <3>2, <3>4
  <2>2. i \in 1..m /\ i + 1 \in 1..m /\ (i + 1) - 1 = i /\ i + 1 # 1
    <3>1. Len(C) = m
      BY <2>0 DEF Ranges
    <3> QED
      BY <3>1
  <2>3. /\ BoundsOf(low, step, diff, i) /\ RangeChunk(C[i], low, step, diff, prefix, i)
        /\ BoundsOf(low, step, diff, i + 1) /\ RangeChunk(C[i + 1], low, step, diff, prefix, i + 1)
    BY <1>1, <2>0, <2>2, RangeBounds
  <2> DEFINE s == i * step
             t == (i + 1) * step
  <2>4. s \in Nat /\ t \in Nat /\ t = s + step /\ s <= diff
    <3>1. s <= diff
      BY <1>1, <2>1, <2>2
    <3>2. i \in Nat
      BY <2>2
    <3> QED
      BY <3>1, <3>2, Multiples
  <2>5. s - 1 >= 0
    <3>1. (i - 1) * step \in Nat /\ s = (i - 1) * step + step
      BY <2>3 DEF BoundsOf
    <3> QED
      BY <2>1, <3>1
  <2>6. RangeEnd(step, diff, i) = s - 1
    BY <2>1, <2>4 DEF RangeEnd
  <2>7. RangeEnd(step, diff, i + 1) = IF t - 1 > diff THEN diff ELSE t - 1
    BY <2>1 DEF RangeEnd
  <2>8. RangeLow(low, step, i + 1) = At(low, s - 1)
    BY <2>1, <2>2 DEF RangeLow
  <2> HIDE DEF s, t
  <2> DEFINE a == RangeHigh(low, step, diff, i)
             b == RangeHigh(low, step, diff, i + 1)
  <2>9. a = low + s - 1 /\ a = At(low, s - 1)
    BY <1>1, <2>1, <2>4, <2>5, <2>6 DEF RangeHigh, At
  <2>10. b \in Int /\ a \in Int /\ a < b
    BY <1>1, <2>1, <2>4, <2>5, <2>7, <2>9 DEF RangeHigh, At
  <2>11. /\ C[i + 1].lo = << RangeLow(low, step, i + 1) >> /\ C[i + 1].hi = <<b>>
         /\ C[i].hi = <<a>> /\ ~C[i + 1].loIncl
    BY <2>2, <2>3 DEF RangeChunk
  <2> HIDE DEF a, b
  <2> QED
    BY <2>8, <2>9, <2>10, <2>11
<1> QED
  BY <1>2, <1>3
=============================================================================
