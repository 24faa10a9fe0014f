-------------------------- MODULE DatabaseSyncProofs --------------------------
(***************************************************************************)
(* DatabaseSync for every set of tables, databases, structures and         *)
(* settings, and every number of failures and of changes by other          *)
(* sessions: its type invariant; that the run drops only tables the source *)
(* was seen without; and, of a run nobody disturbs, that its repairs are   *)
(* accepted and can be resumed, that it takes nothing it did not show, and *)
(* that exit code 0 means that the databases are mirrored.                 *)
(*                                                                         *)
(* The first half is about the operators of StructSync: what ALTER TABLE   *)
(* makes of a structure, and that the statements of a plan, executed in    *)
(* turn, leave nothing to do.  The second half is about the state.         *)
(***************************************************************************)
EXTENDS DatabaseSync, FiniteSetTheorems, WellFoundedInduction, TLAPS

(***************************************************************************)
(* Induction over the natural numbers: a set of them has a least element.  *)
(***************************************************************************)
LessNat == {p \in Nat \X Nat : p[1] < p[2]}

LEMMA LeastNat ==
  ASSUME NEW T \in SUBSET Nat, T # {}
  PROVE  \E x \in T : \A y \in T : x <= y
<1>1. IsWellFoundedOn(LessNat, Nat)
  BY NatLessThanWellFounded, Zenon DEF OpToRel, LessNat
<1>2. \E x \in T : \A y \in T : ~(<<y, x>> \in LessNat)
  BY <1>1, WFMin
<1>3. \A x, y \in T : ~(<<y, x>> \in LessNat) => x <= y
  BY DEF LessNat
<1> QED
  BY <1>2, <1>3

\* A set that has 0 and with every number below n the next one has all of
\* them up to n.
LEMMA UpTo ==
  ASSUME NEW n \in Nat, NEW S, 0 \in S, \A i \in 0..(n - 1) : i \in S => i + 1 \in S
  PROVE  0..n \subseteq S
<1> DEFINE T == {i \in 0..n : i \notin S}
<1> SUFFICES ASSUME T # {} PROVE FALSE
  OBVIOUS
<1> HIDE DEF T
<1>1. T \in SUBSET Nat
  BY DEF T
<1>2. PICK x \in T : \A y \in T : x <= y
  BY <1>1, LeastNat
<1>3. x - 1 \in 0..(n - 1) /\ x - 1 \in S
  BY <1>2 DEF T
<1> QED
  BY <1>2, <1>3 DEF T

-----------------------------------------------------------------------------
(***************************************************************************)
(* A part of a sequence: f are the positions it comes from.                *)
(***************************************************************************)
Increasing(f, m, P) ==
  /\ m \in Nat /\ f \in [1..m -> P]
  /\ \A i, j \in 1..m : i < j => f[i] < f[j]
  /\ \A p \in P : \E j \in 1..m : f[j] = p

LEMMA PositionsIncrease ==
  ASSUME NEW n \in Nat, NEW P \in SUBSET (1..n)
  PROVE  LET f == [j \in 1..Cardinality(P) |-> CHOOSE i \in P : Cardinality({h \in P : h < i}) = j - 1]
         IN  Increasing(f, Cardinality(P), P)
<1> DEFINE m        == Cardinality(P)
           below(x) == {y \in P : y < x}
           rank     == [x \in P |-> Cardinality(below(x)) + 1]
           f        == [j \in 1..m |-> CHOOSE i \in P : Cardinality(below(i)) = j - 1]
<1>0. P \subseteq Int /\ IsFiniteSet(P)
  <2>1. IsFiniteSet(1..n)
    BY FS_Interval
  <2>2. IsFiniteSet(P)
    BY <2>1, FS_Subset
  <2> QED
    BY <2>2
<1>1. m \in Nat
  BY <1>0, FS_CardinalityType
<1>2. \A x \in P : IsFiniteSet(below(x)) /\ Cardinality(below(x)) \in 0..(m - 1)
  <2> TAKE x \in P
  <2>1. below(x) \subseteq P /\ x \notin below(x)
    BY <1>0
  <2>2. IsFiniteSet(below(x)) /\ Cardinality(below(x)) <= m /\ Cardinality(below(x)) # m
    BY <1>0, <2>1, FS_Subset
  <2>3. Cardinality(below(x)) \in Nat
    BY <2>2, FS_CardinalityType
  <2> QED
    BY <1>1, <2>2, <2>3
<1>3. \A x, y \in P : x < y => Cardinality(below(x)) < Cardinality(below(y))
  <2> SUFFICES ASSUME NEW x \in P, NEW y \in P, x < y
               PROVE  Cardinality(below(x)) < Cardinality(below(y))
    OBVIOUS
  <2>1. below(x) \subseteq below(y) /\ x \in below(y) /\ x \notin below(x)
    <3>1. \A z \in P : z < x => z < y
      BY <1>0
    <3>2. ~(x < x)
      BY <1>0
    <3> QED
      BY <3>1, <3>2
  <2>2. Cardinality(below(x)) <= Cardinality(below(y))
        /\ Cardinality(below(x)) # Cardinality(below(y))
    BY <1>2, <2>1, FS_Subset
  <2> QED
    BY <1>2, <2>2
<1> HIDE DEF below
<1>4. rank \in [P -> 1..m]
  BY <1>1, <1>2
<1>5. \A x, y \in P : rank[x] = rank[y] => x = y
  <2> SUFFICES ASSUME NEW x \in P, NEW y \in P, rank[x] = rank[y] PROVE x = y
    OBVIOUS
  <2>1. Cardinality(below(x)) = Cardinality(below(y))
    BY <1>2
  <2>2. ~(x < y) /\ ~(y < x)
    BY <1>2, <1>3, <2>1
  <2> QED
    BY <1>0, <2>2
<1> HIDE DEF rank, m
<1>6. rank \in Injection(P, 1..m)
  BY <1>4, <1>5 DEF Injection, IsInjective
<1>7. IsFiniteSet(1..m) /\ Cardinality(1..m) = m
  BY <1>1, FS_Interval
<1>8. rank \in Surjection(P, 1..m)
  BY <1>6, <1>7, FS_Injection DEF m
<1>9. \A j \in 1..m : \E x \in P : rank[x] = j
  BY <1>8 DEF Surjection
<1>10. \A j \in 1..m : \E x \in P : Cardinality(below(x)) = j - 1
  <2> TAKE j \in 1..m
  <2>1. PICK x \in P : rank[x] = j
    BY <1>9
  <2>2. Cardinality(below(x)) = j - 1
    BY <1>2, <2>1 DEF rank
  <2> QED
    BY <2>2
<1>11. \A j \in 1..m : f[j] \in P /\ Cardinality(below(f[j])) = j - 1
  BY <1>10
<1>12. f \in [1..m -> P]
  BY <1>11
<1> HIDE DEF f
<1>13. \A i, j \in 1..m : i < j => f[i] < f[j]
  <2> SUFFICES ASSUME NEW i \in 1..m, NEW j \in 1..m, i < j PROVE f[i] < f[j]
    OBVIOUS
  <2>1. Cardinality(below(f[i])) = i - 1 /\ Cardinality(below(f[j])) = j - 1
    BY <1>11
  <2>2. f[i] # f[j] /\ ~(f[j] < f[i])
    <3>1. f[i] # f[j]
      BY <1>1, <2>1
    <3>2. f[j] < f[i] => j - 1 < i - 1
      BY <1>3, <1>11, <2>1
    <3> QED
      BY <1>1, <3>1, <3>2
  <2>3. f[i] \in Int /\ f[j] \in Int
    BY <1>0, <1>11
  <2> QED
    BY <2>2, <2>3
<1>14. \A p \in P : \E j \in 1..m : f[j] = p
  <2> TAKE p \in P
  <2> DEFINE j == Cardinality(below(p)) + 1
  <2>1. j \in 1..m
    BY <1>1, <1>2
  <2>2. Cardinality(below(f[j])) = Cardinality(below(p)) /\ f[j] \in P
    BY <1>2, <1>11, <2>1
  <2>3. f[j] = p
    BY <1>5, <2>2 DEF rank
  <2> QED
    BY <2>1, <2>3
<1>15. Increasing(f, m, P)
  BY <1>1, <1>12, <1>13, <1>14 DEF Increasing
<1> QED
  BY <1>15, Zenon DEF f, m, below

IsPart(q, s, P, f) ==
  Increasing(f, Cardinality(P), P) /\ q = [j \in 1..Cardinality(P) |-> s[f[j]]]

LEMMA AtPositionsIs ==
  ASSUME NEW s, NEW n \in Nat, NEW P \in SUBSET (1..n)
  PROVE  \E f : IsPart(AtPositions(s, P), s, P, f)
<1> DEFINE f == [j \in 1..Cardinality(P) |-> CHOOSE i \in P : Cardinality({h \in P : h < i}) = j - 1]
<1>1. Increasing(f, Cardinality(P), P)
  BY PositionsIncrease
<1>2. AtPositions(s, P) = [j \in 1..Cardinality(P) |-> s[f[j]]]
  BY DEF AtPositions
<1> HIDE DEF f
<1>3. IsPart(AtPositions(s, P), s, P, f)
  BY <1>1, <1>2 DEF IsPart
<1> QED
  BY <1>3

\* The part of a sequence: its length, its elements, and their order.
LEMMA PartIs ==
  ASSUME NEW S, NEW s \in Seq(S), NEW P \in SUBSET DOMAIN s
  PROVE  /\ AtPositions(s, P) \in Seq(S)
         /\ ToSet(AtPositions(s, P)) = {s[i] : i \in P}
         /\ \E f : /\ Increasing(f, Len(AtPositions(s, P)), P)
                   /\ \A j \in 1..Len(AtPositions(s, P)) : AtPositions(s, P)[j] = s[f[j]]
<1>1. Len(s) \in Nat /\ DOMAIN s = 1..Len(s) /\ P \in SUBSET (1..Len(s))
  OBVIOUS
<1>0. PICK f : IsPart(AtPositions(s, P), s, P, f)
  BY <1>1, AtPositionsIs
<1>2. /\ Increasing(f, Cardinality(P), P)
      /\ AtPositions(s, P) = [j \in 1..Cardinality(P) |-> s[f[j]]]
  BY <1>0 DEF IsPart
<1>3. Cardinality(P) \in Nat /\ f \in [1..Cardinality(P) -> P] /\ \A p \in P : \E j \in 1..Cardinality(P) : f[j] = p
  BY <1>2 DEF Increasing
<1> DEFINE q == AtPositions(s, P)
           m == Cardinality(P)
<1>4. \A j \in 1..m : f[j] \in P /\ s[f[j]] \in S
  BY <1>1, <1>3
<1>5. q \in Seq(S) /\ Len(q) = m
  BY <1>2, <1>3, <1>4
<1>6. ToSet(q) = {s[i] : i \in P}
  <2>1. ToSet(q) = {q[j] : j \in 1..m}
    BY <1>2 DEF ToSet
  <2>2. \A j \in 1..m : q[j] = s[f[j]]
    BY <1>2
  <2> QED
    BY <1>3, <1>4, <2>1, <2>2
<1>7. \A j \in 1..m : q[j] = s[f[j]]
  BY <1>2
<1> QED
  BY <1>2, <1>5, <1>6, <1>7

\* The whole sequence is its own part.
LEMMA WholeIs ==
  ASSUME NEW S, NEW s \in Seq(S)
  PROVE  AtPositions(s, DOMAIN s) = s
<1> DEFINE n == Len(s)
<1>1. n \in Nat /\ DOMAIN s = 1..n /\ s = [j \in 1..n |-> s[j]]
  OBVIOUS
<1>2. Cardinality(1..n) = n
  BY <1>1, FS_Interval
<1>0. PICK f : IsPart(AtPositions(s, 1..n), s, 1..n, f)
  <2>1. 1..n \in SUBSET (1..n)
    OBVIOUS
  <2> QED
    BY <1>1, <2>1, AtPositionsIs
<1>3. Increasing(f, n, 1..n) /\ AtPositions(s, 1..n) = [j \in 1..n |-> s[f[j]]]
  BY <1>0, <1>2 DEF IsPart
<1>4. f \in [1..n -> 1..n] /\ (\A i, j \in 1..n : i < j => f[i] < f[j])
  BY <1>3 DEF Increasing
<1> DEFINE Low == {i \in 0..n : i = 0 \/ i <= f[i]}
<1>5. 0 \in Low
  BY <1>1
<1>6. \A i \in 0..(n - 1) : i \in Low => i + 1 \in Low
  <2> SUFFICES ASSUME NEW i \in 0..(n - 1), i \in Low PROVE i + 1 <= f[i + 1]
    BY <1>1
  <2>1. i + 1 \in 1..n /\ f[i + 1] \in 1..n
    BY <1>1, <1>4
  <2>2. CASE i = 0
    BY <2>1, <2>2
  <2>3. CASE i # 0
    <3>1. i \in 1..n /\ i <= f[i] /\ f[i] < f[i + 1] /\ f[i] \in 1..n
      BY <1>1, <1>4, <2>1, <2>3
    <3> QED
      BY <1>1, <2>1, <3>1
  <2> QED
    BY <2>2, <2>3
<1> HIDE DEF Low
<1>7. 0..n \subseteq Low
  BY <1>1, <1>5, <1>6, UpTo
<1>8. \A i \in 1..n : i <= f[i]
  BY <1>1, <1>7 DEF Low
<1> DEFINE High == {k \in 0..n : k = n \/ f[n - k] <= n - k}
<1>9. 0 \in High
  BY <1>1, <1>4
<1>10. \A i \in 0..(n - 1) : i \in High => i + 1 \in High
  <2> SUFFICES ASSUME NEW i \in 0..(n - 1), f[n - i] <= n - i, i + 1 # n
               PROVE  f[n - (i + 1)] <= n - (i + 1)
    BY <1>1
  <2>1. n - i \in 1..n /\ n - (i + 1) \in 1..n /\ n - (i + 1) < n - i
    BY <1>1
  <2>2. f[n - (i + 1)] < f[n - i] /\ f[n - (i + 1)] \in 1..n /\ f[n - i] \in 1..n
    BY <1>4, <2>1
  <2> QED
    BY <1>1, <2>2
<1> HIDE DEF High
<1>11. 0..n \subseteq High
  BY <1>1, <1>9, <1>10, UpTo
<1>12. \A j \in 1..n : f[j] <= j
  <2> TAKE j \in 1..n
  <2>1. n - j \in 0..n /\ n - (n - j) = j /\ n - j # n
    BY <1>1
  <2> QED
    BY <1>11, <2>1 DEF High
<1>13. \A j \in 1..n : f[j] = j
  BY <1>4, <1>8, <1>12
<1> QED
  BY <1>1, <1>3, <1>13

LEMMA MaxOf ==
  ASSUME NEW m \in Nat, NEW s \in SUBSET (1..m), s # {}
  PROVE  Max(s) \in s /\ \A y \in s : y <= Max(s)
<1> DEFINE T == {x \in 0..m : \A y \in s : y <= x}
<1>1. T \in SUBSET Nat /\ m \in T
  OBVIOUS
<1>2. PICK x \in T : \A y \in T : x <= y
  BY <1>1, LeastNat
<1>3. x \in s
  <2> SUFFICES ASSUME x \notin s PROVE FALSE
    OBVIOUS
  <2>1. x \in 0..m /\ \A y \in s : y \in 1..m /\ y <= x /\ y # x
    BY <1>2
  <2>0. \A y \in 1..m : y <= x /\ y # x => y <= x - 1 /\ x - 1 \in 0..m
    BY <2>1
  <2>2. x - 1 \in 0..m /\ \A y \in s : y <= x - 1
    BY <2>0, <2>1
  <2>3. x - 1 \in T
    BY <2>2
  <2> QED
    BY <1>2, <2>1, <2>3
<1>4. \E x_1 \in s : \A y \in s : x_1 >= y
  BY <1>2, <1>3
<1> QED
  BY <1>4 DEF Max

IsFold(base, seq, h, m) ==
  h = [s \in SUBSET (1..m) |-> IF s = {} THEN base
                               ELSE PutAfter(h[s \ {Max(s)}], seq[Max(s)])]

LEMMA FoldExists ==
  ASSUME NEW base, NEW seq, NEW n \in Nat
  PROVE  \E h : IsFold(base, seq, h, n)
<1> DEFINE Built == {m \in 0..n : \E h : IsFold(base, seq, h, m)}
<1>1. 0 \in Built
  <2> DEFINE h == [s \in SUBSET (1..0) |-> base]
  <2>1. \A s \in SUBSET (1..0) : s = {}
    OBVIOUS
  <2>2. IsFold(base, seq, h, 0)
    BY <2>1 DEF IsFold
  <2> QED
    BY <2>2
<1>2. \A m \in 0..(n - 1) : m \in Built => m + 1 \in Built
  <2> SUFFICES ASSUME NEW m \in 0..(n - 1), NEW h, IsFold(base, seq, h, m)
               PROVE  \E g : IsFold(base, seq, g, m + 1)
    OBVIOUS
  <2> HIDE DEF Built
  <2> DEFINE new(s) == PutAfter(h[s \ {m + 1}], seq[m + 1])
             g      == [s \in SUBSET (1..(m + 1)) |-> IF m + 1 \in s THEN new(s) ELSE h[s]]
  <2>1. \A s \in SUBSET (1..m) :
           h[s] = IF s = {} THEN base ELSE PutAfter(h[s \ {Max(s)}], seq[Max(s)])
    BY DEF IsFold
  <2>2. g = [s \in SUBSET (1..(m + 1)) |-> g[s]]
    OBVIOUS
  <2>3. \A s \in SUBSET (1..(m + 1)) : g[s] = IF m + 1 \in s THEN new(s) ELSE h[s]
    OBVIOUS
  <2> HIDE DEF g
  <2>4. ASSUME NEW s \in SUBSET (1..(m + 1))
        PROVE  g[s] = IF s = {} THEN base ELSE PutAfter(g[s \ {Max(s)}], seq[Max(s)])
    <3>1. CASE m + 1 \in s
      <4>1. Max(s) \in s /\ m + 1 <= Max(s)
        BY <3>1, MaxOf, m + 1 \in Nat
      <4>2. Max(s) = m + 1
        <5>1. Max(s) \in 1..(m + 1)
          BY <4>1
        <5>2. \A x \in 1..(m + 1) : m + 1 <= x => x = m + 1
          OBVIOUS
        <5> QED
          BY <4>1, <5>1, <5>2
      <4>3. s \ {m + 1} \in SUBSET (1..(m + 1)) /\ m + 1 \notin s \ {m + 1}
        OBVIOUS
      <4>4. g[s \ {m + 1}] = h[s \ {m + 1}]
        BY <2>3, <4>3
      <4> QED
        BY <2>3, <3>1, <4>2, <4>4
    <3>2. CASE m + 1 \notin s
      <4>1. s \in SUBSET (1..m)
        BY <3>2
      <4>2. s # {} => /\ s \ {Max(s)} \in SUBSET (1..(m + 1))
                      /\ m + 1 \notin s \ {Max(s)}
        BY <3>2
      <4>3. s # {} => g[s \ {Max(s)}] = h[s \ {Max(s)}]
        BY <2>3, <4>2
      <4>4. g[s] = h[s]
        BY <2>3, <3>2
      <4> QED
        BY <2>1, <4>1, <4>3, <4>4
    <3> QED
      BY <3>1, <3>2
  <2>5. IsFold(base, seq, g, m + 1)
    BY <2>2, <2>4 DEF IsFold
  <2> QED
    BY <2>5
<1> HIDE DEF Built
<1>3. 0..n \subseteq Built
  BY <1>1, <1>2, UpTo
<1> QED
  BY <1>3 DEF Built

LEMMA FoldSteps ==
  ASSUME NEW base, NEW seq, NEW n \in Nat, NEW h, IsFold(base, seq, h, n)
  PROVE  \E g : /\ g[0] = base /\ g[n] = h[1..n]
                /\ \A i \in 1..n : g[i] = PutAfter(g[i - 1], seq[i])
<1> DEFINE g == [i \in 0..n |-> h[1..i]]
<1>1. \A s \in SUBSET (1..n) :
         h[s] = IF s = {} THEN base ELSE PutAfter(h[s \ {Max(s)}], seq[Max(s)])
  BY DEF IsFold
<1>2. g[0] = base
  <2>1. 1..0 = {} /\ 1..0 \in SUBSET (1..n) /\ 0 \in 0..n
    OBVIOUS
  <2> QED
    BY <1>1, <2>1
<1>3. ASSUME NEW i \in 1..n PROVE g[i] = PutAfter(g[i - 1], seq[i])
  <2>1. 1..i \in SUBSET (1..n) /\ i \in 1..i /\ i - 1 \in 0..n /\ i \in 0..n /\ i \in Nat
    OBVIOUS
  <2>2. Max(1..i) \in 1..i /\ i <= Max(1..i)
    BY <2>1, MaxOf
  <2>3. Max(1..i) = i
    BY <2>2
  <2>4. (1..i) \ {i} = 1..(i - 1)
    OBVIOUS
  <2>5. h[1..i] = PutAfter(h[1..(i - 1)], seq[i])
    BY <1>1, <2>1, <2>3, <2>4
  <2>6. g[i] = h[1..i] /\ g[i - 1] = h[1..(i - 1)]
    BY <2>1
  <2> QED
    BY <2>5, <2>6
<1>4. g[n] = h[1..n]
  OBVIOUS
<1> QED
  BY <1>2, <1>3, <1>4

Columns(base, adds) == FoldLeft(PutAfter, base, adds)

LEMMA FoldColumns ==
  ASSUME NEW base, NEW S, NEW adds \in Seq(S)
  PROVE  \E g : /\ g[0] = base /\ Columns(base, adds) = g[Len(adds)]
                /\ \A i \in 1..Len(adds) : g[i] = PutAfter(g[i - 1], adds[i])
<1> DEFINE body(h) == [s \in SUBSET DOMAIN adds |-> IF s = {} THEN base
                                 ELSE PutAfter(h[s \ {Max(s)}], adds[Max(s)])]
           iter == CHOOSE h : h = body(h)
<1>1. Len(adds) \in Nat /\ DOMAIN adds = 1..Len(adds)
  OBVIOUS
<1>2. Columns(base, adds) = iter[DOMAIN adds]
  BY DEF Columns, FoldLeft, MapThenFoldSet
<1>3. \A h : IsFold(base, adds, h, Len(adds)) <=> h = body(h)
  BY <1>1 DEF IsFold
<1>4. IsFold(base, adds, iter, Len(adds))
  BY <1>1, <1>3, FoldExists
<1> HIDE DEF iter
<1>5. PICK g : /\ g[0] = base /\ g[Len(adds)] = iter[1..Len(adds)]
               /\ \A i \in 1..Len(adds) : g[i] = PutAfter(g[i - 1], adds[i])
  BY <1>1, <1>4, FoldSteps
<1> QED
  BY <1>1, <1>2, <1>5

(***************************************************************************)
(* Lists of columns: their names, each once, and their order.              *)
(***************************************************************************)
NamesOf(cs)   == {cs[i].name : i \in DOMAIN cs}
Distinct(cs)  == \A i, j \in DOMAIN cs : cs[i].name = cs[j].name => i = j
Ord(cs, m, n) == \E i, j \in DOMAIN cs : i < j /\ cs[i].name = m /\ cs[j].name = n

Addition == [col : Column, after : ColumnNames \cup {First}]

Listed(cs) == cs \in Seq(Column) /\ Distinct(cs)

LEMMA NamesListed ==
  ASSUME NEW cs \in Seq(Column)
  PROVE  /\ NamesOf(cs) = {c.name : c \in ToSet(cs)} /\ ToSet(cs) \subseteq Column
         /\ NamesOf(cs) \subseteq ColumnNames /\ First \notin NamesOf(cs)
<1>1. \A i \in DOMAIN cs : cs[i] \in Column
  OBVIOUS
<1>2. \A c \in Column : c.name \in ColumnNames
  BY DEF Column
<1>3. ToSet(cs) \subseteq Column
  BY <1>1 DEF ToSet
<1>4. NamesOf(cs) = {c.name : c \in ToSet(cs)}
  BY DEF NamesOf, ToSet
<1>5. NamesOf(cs) \subseteq ColumnNames
  BY <1>2, <1>3, <1>4
<1> QED
  BY <1>3, <1>4, <1>5, StructAssumption

LEMMA Concatenated ==
  ASSUME NEW S, NEW p \in Seq(S), NEW q \in Seq(S)
  PROVE  p \o q \in Seq(S) /\ Len(p \o q) = Len(p) + Len(q)
  OBVIOUS

\* Where the elements are after an insertion.
Inserted(S, s, k, e, new) ==
  /\ new \in Seq(S) /\ Len(new) = Len(s) + 1
  /\ \A i \in 1..(Len(s) + 1) : new[i] = IF i <= k THEN s[i] ELSE IF i = k + 1 THEN e ELSE s[i - 1]

LEMMA InsertedAt ==
  ASSUME NEW S, NEW s \in Seq(S), NEW k \in 0..Len(s), NEW e \in S
  PROVE  Inserted(S, s, k, e, InsertAt(s, k + 1, e))
<1> DEFINE n     == Len(s)
           left  == SubSeq(s, 1, k)
           right == SubSeq(s, k + 1, n)
<1>1. n \in Nat /\ k \in Nat
  OBVIOUS
<1>2. left \in Seq(S) /\ Len(left) = k /\ \A i \in 1..k : left[i] = s[i]
  BY <1>1
<1>3. right \in Seq(S) /\ Len(right) = n - k /\ \A i \in 1..(n - k) : right[i] = s[k + i]
  BY <1>1
<1>4. InsertAt(s, k + 1, e) = (left \o <<e>>) \o right
  <2>1. (k + 1) - 1 = k
    BY <1>1
  <2> QED
    BY <2>1 DEF InsertAt
<1> HIDE DEF left, right
<1>5. /\ left \o <<e>> \in Seq(S) /\ Len(left \o <<e>>) = k + 1
      /\ \A i \in 1..(k + 1) : (left \o <<e>>)[i] = IF i <= k THEN left[i] ELSE e
  BY <1>1, <1>2
<1> DEFINE l == left \o <<e>>
<1> HIDE DEF l
<1>6. l \in Seq(S) /\ Len(l) = k + 1 /\ \A i \in 1..(k + 1) : l[i] = IF i <= k THEN left[i] ELSE e
  BY <1>5 DEF l
<1> DEFINE r == l \o right
<1>7. r \in Seq(S) /\ Len(r) = n + 1
  <2>1. r \in Seq(S) /\ Len(r) = Len(l) + Len(right)
    BY <1>3, <1>6, Concatenated
  <2>2. (k + 1) + (n - k) = n + 1
    BY <1>1
  <2> QED
    BY <1>3, <1>6, <2>1, <2>2
<1>8. \A i \in 1..(n + 1) : r[i] = IF i <= k + 1 THEN l[i] ELSE right[i - (k + 1)]
  BY <1>1, <1>3, <1>6
<1>9. InsertAt(s, k + 1, e) = r
  BY <1>4 DEF l
<1> HIDE DEF r, n
<1>10. ASSUME NEW i \in 1..(n + 1)
       PROVE  r[i] = IF i <= k THEN s[i] ELSE IF i = k + 1 THEN e ELSE s[i - 1]
  <2>0. i \in Int /\ k \in Int
    BY <1>1
  <2>1. CASE i <= k
    <3>1. i \in 1..k /\ i \in 1..(k + 1) /\ i <= k + 1
      BY <2>0, <2>1
    <3> QED
      BY <1>2, <1>6, <1>8, <2>1, <3>1
  <2>2. CASE i = k + 1
    <3>1. i \in 1..(k + 1) /\ i <= k + 1 /\ ~(i <= k)
      BY <1>1, <2>0, <2>2
    <3> QED
      BY <1>6, <1>8, <2>2, <3>1
  <2>3. CASE i > k + 1
    <3>1. i - (k + 1) \in 1..(n - k) /\ k + (i - (k + 1)) = i - 1 /\ ~(i <= k + 1) /\ ~(i <= k) /\ i # k + 1
      BY <1>1, <2>3 DEF n
    <3> QED
      BY <1>3, <1>8, <3>1
  <2> QED
    BY <2>0, <2>1, <2>2, <2>3
<1> QED
  BY <1>7, <1>9, <1>10 DEF n, Inserted

\* The position a column is put after.
Place(cs, a, k) ==
  /\ k \in 0..Len(cs)
  /\ a.after = First => k = 0
  /\ a.after # First => k # 0 /\ cs[k].name = a.after

Fits(cs, a) == a.col.name \notin NamesOf(cs) /\ (a.after = First \/ a.after \in NamesOf(cs))

LEMMA Placed ==
  ASSUME NEW cs, Listed(cs), NEW a \in Addition, Fits(cs, a)
  PROVE  \E k : Place(cs, a, k) /\ PutAfter(cs, a) = InsertAt(cs, k + 1, a.col)
<1>1. Len(cs) \in Nat /\ DOMAIN cs = 1..Len(cs)
  BY DEF Listed
<1> DEFINE k == IF a.after = First THEN 0 ELSE CHOOSE i \in DOMAIN cs : cs[i].name = a.after
<1>2. PutAfter(cs, a) = InsertAt(cs, k + 1, a.col)
  BY DEF PutAfter
<1>3. a.after # First => \E i \in DOMAIN cs : cs[i].name = a.after
  BY DEF Fits, NamesOf
<1>4. a.after # First => k \in DOMAIN cs /\ cs[k].name = a.after
  BY <1>3
<1>5. Place(cs, a, k)
  BY <1>1, <1>4 DEF Place
<1> QED
  BY <1>2, <1>5

\* A column is put after another.
PutFacts(cs, a, new) ==
  /\ Listed(new)
  /\ ToSet(new) = ToSet(cs) \cup {a.col}
  /\ NamesOf(new) = NamesOf(cs) \cup {a.col.name}
  /\ \A m, n \in NamesOf(cs) : Ord(new, m, n) <=> Ord(cs, m, n)
  /\ \A m \in NamesOf(cs) :
       /\ Ord(new, m, a.col.name) <=> a.after # First /\ (m = a.after \/ Ord(cs, m, a.after))
       /\ Ord(new, a.col.name, m) <=> ~Ord(new, m, a.col.name)
  /\ ~Ord(new, a.col.name, a.col.name)

LEMMA PutIs ==
  ASSUME NEW cs, Listed(cs), NEW a \in Addition, Fits(cs, a)
  PROVE  PutFacts(cs, a, PutAfter(cs, a))
<1> DEFINE len == Len(cs)
           new == PutAfter(cs, a)
<1>1. cs \in Seq(Column) /\ len \in Nat /\ DOMAIN cs = 1..len /\ a.col \in Column
  BY DEF Listed, Addition
<1>2. PICK k : Place(cs, a, k) /\ new = InsertAt(cs, k + 1, a.col)
  BY Placed
<1>3. k \in 0..len
  BY <1>2 DEF Place
<1> HIDE DEF new
<1>4. /\ new \in Seq(Column) /\ Len(new) = len + 1 /\ DOMAIN new = 1..(len + 1)
      /\ \A i \in 1..(len + 1) : new[i] = IF i <= k THEN cs[i] ELSE IF i = k + 1 THEN a.col ELSE cs[i - 1]
  <2>1. Inserted(Column, cs, k, a.col, new)
    BY <1>1, <1>2, <1>3, InsertedAt
  <2>2. new \in Seq(Column) /\ Len(new) = len + 1
    BY <2>1 DEF Inserted
  <2>3. DOMAIN new = 1..(len + 1)
    BY <2>2
  <2> QED
    BY <2>1, <2>2, <2>3 DEF Inserted
\* The position in the new list of each position in the old one.
<1> DEFINE to(i) == IF i <= k THEN i ELSE i + 1
<1>5. \A i \in 1..len : to(i) \in 1..(len + 1) /\ to(i) # k + 1 /\ new[to(i)] = cs[i]
  BY <1>1, <1>3, <1>4
<1>6. \A i, j \in 1..len : i < j <=> to(i) < to(j)
  BY <1>1, <1>3
<1>7. k + 1 \in 1..(len + 1) /\ new[k + 1] = a.col
  BY <1>1, <1>3, <1>4
<1>8. \A i \in 1..(len + 1) : i = k + 1 \/ \E j \in 1..len : i = to(j)
  <2> SUFFICES ASSUME NEW i \in 1..(len + 1), i # k + 1 PROVE \E j \in 1..len : i = to(j)
    OBVIOUS
  <2>1. CASE i <= k
    <3>1. i \in 1..len /\ i = to(i)
      BY <1>1, <1>3, <2>1
    <3> QED
      BY <3>1
  <2>2. CASE i > k + 1
    <3>1. i - 1 \in 1..len /\ i = to(i - 1)
      BY <1>1, <1>3, <2>2
    <3> QED
      BY <3>1
  <2> QED
    BY <1>1, <1>3, <2>1, <2>2
<1>9. a.col.name \notin NamesOf(cs) /\ (\A i \in 1..len : cs[i].name # a.col.name)
  BY <1>1 DEF Fits, NamesOf
<1> HIDE DEF to
<1>10. Listed(new)
  <2>1. \A i, j \in 1..len : cs[i].name = cs[j].name => i = j
    BY <1>1 DEF Listed, Distinct
  <2>2. \A i, j \in 1..(len + 1) : new[i].name = new[j].name => i = j
    <3> SUFFICES ASSUME NEW i \in 1..(len + 1), NEW j \in 1..(len + 1), new[i].name = new[j].name
                 PROVE  i = j
      OBVIOUS
    <3>1. CASE i = k + 1 \/ j = k + 1
      <4>1. \A q \in 1..(len + 1) : new[q].name = a.col.name => q = k + 1
        <5> SUFFICES ASSUME NEW q \in 1..(len + 1), new[q].name = a.col.name, q # k + 1 PROVE FALSE
          OBVIOUS
        <5>1. PICK p \in 1..len : q = to(p)
          BY <1>8
        <5> QED
          BY <1>5, <1>9, <5>1
      <4> QED
        BY <1>7, <3>1, <4>1
    <3>2. CASE i # k + 1 /\ j # k + 1
      <4>1. PICK p \in 1..len : i = to(p)
        BY <1>8, <3>2
      <4>2. PICK q \in 1..len : j = to(q)
        BY <1>8, <3>2
      <4>3. new[i] = cs[p] /\ new[j] = cs[q]
        BY <1>5, <4>1, <4>2
      <4> QED
        BY <2>1, <4>1, <4>2, <4>3
    <3> QED
      BY <3>1, <3>2
  <2> QED
    BY <1>4, <2>2 DEF Listed, Distinct
<1>11. ToSet(new) = ToSet(cs) \cup {a.col}
  <2>1. ToSet(new) = {new[i] : i \in 1..(len + 1)} /\ ToSet(cs) = {cs[i] : i \in 1..len}
    BY <1>1, <1>4 DEF ToSet
  <2>2. ASSUME NEW i \in 1..(len + 1) PROVE new[i] \in ToSet(cs) \cup {a.col}
    <3>1. CASE i = k + 1
      BY <1>7, <3>1
    <3>2. CASE i # k + 1
      <4>1. PICK p \in 1..len : i = to(p)
        BY <1>8, <3>2
      <4> QED
        BY <1>5, <2>1, <4>1
    <3> QED
      BY <3>1, <3>2
  <2>3. \A p \in 1..len : cs[p] \in ToSet(new)
    BY <1>5, <2>1
  <2>4. a.col \in ToSet(new)
    BY <1>7, <2>1
  <2> QED
    BY <2>1, <2>2, <2>3, <2>4
<1>12. NamesOf(new) = NamesOf(cs) \cup {a.col.name}
  BY <1>1, <1>4, <1>11, NamesListed
<1>13. \A m, n \in NamesOf(cs) : Ord(new, m, n) <=> Ord(cs, m, n)
  <2> SUFFICES ASSUME NEW m \in NamesOf(cs), NEW n \in NamesOf(cs)
               PROVE  Ord(new, m, n) <=> Ord(cs, m, n)
    OBVIOUS
  <2>1. ASSUME Ord(cs, m, n) PROVE Ord(new, m, n)
    <3>1. PICK i, j \in 1..len : i < j /\ cs[i].name = m /\ cs[j].name = n
      BY <1>1, <2>1 DEF Ord
    <3>2. /\ to(i) \in DOMAIN new /\ to(j) \in DOMAIN new /\ to(i) < to(j)
          /\ new[to(i)].name = m /\ new[to(j)].name = n
      BY <1>4, <1>5, <1>6, <3>1
    <3> QED
      BY <3>2 DEF Ord
  <2>2. ASSUME Ord(new, m, n) PROVE Ord(cs, m, n)
    <3>1. PICK p, q \in 1..(len + 1) : p < q /\ new[p].name = m /\ new[q].name = n
      BY <1>4, <2>2 DEF Ord
    <3>2. PICK i, j \in 1..len : p = to(i) /\ q = to(j)
      BY <1>7, <1>8, <1>9, <3>1
    <3>3. i < j /\ cs[i].name = m /\ cs[j].name = n
      BY <1>5, <1>6, <3>1, <3>2
    <3> QED
      BY <1>1, <3>3 DEF Ord
  <2> QED
    BY <2>1, <2>2
\* Before the new column are those up to position k.
<1>14. ASSUME NEW p \in 1..len
       PROVE  /\ Ord(new, cs[p].name, a.col.name) <=> p <= k
              /\ Ord(new, a.col.name, cs[p].name) <=> k < p
              /\ Ord(cs, cs[p].name, a.after) /\ a.after # First => p <= k
              /\ a.after # First /\ p < k => Ord(cs, cs[p].name, a.after)
              /\ a.after # First => (cs[p].name = a.after <=> p = k)
  <2>1. to(p) < k + 1 <=> p <= k
    BY <1>1, <1>3 DEF to
  <2>2. to(p) > k + 1 <=> k < p
    BY <1>1, <1>3 DEF to
  <2>3. \A i \in 1..(len + 1) : (new[i].name = cs[p].name <=> i = to(p)) /\ (new[i].name = a.col.name <=> i = k + 1)
    BY <1>4, <1>5, <1>7, <1>10 DEF Listed, Distinct
  <2>4. Ord(new, cs[p].name, a.col.name) <=> to(p) < k + 1
    BY <1>4, <1>5, <1>7, <2>3 DEF Ord
  <2>5. Ord(new, a.col.name, cs[p].name) <=> k + 1 < to(p)
    BY <1>4, <1>5, <1>7, <2>3 DEF Ord
  <2>6. \A i, j \in 1..len : cs[i].name = cs[j].name => i = j
    BY <1>1 DEF Listed, Distinct
  <2>7. a.after # First => k \in 1..len /\ cs[k].name = a.after
    BY <1>1, <1>2 DEF Place
  <2>8. a.after # First => (Ord(cs, cs[p].name, a.after) <=> p < k)
    BY <1>1, <2>6, <2>7 DEF Ord
  <2>9. a.after # First => (cs[p].name = a.after <=> p = k)
    BY <2>6, <2>7
  <2>10. to(p) \in Int /\ p < k => p <= k
    BY <1>1, <1>3, <1>5
  <2> QED
    BY <1>1, <1>3, <1>5, <2>1, <2>2, <2>4, <2>5, <2>8, <2>9, <2>10
<1>15. \A m \in NamesOf(cs) :
         /\ Ord(new, m, a.col.name) <=> a.after # First /\ (m = a.after \/ Ord(cs, m, a.after))
         /\ Ord(new, a.col.name, m) <=> ~Ord(new, m, a.col.name)
  <2> TAKE m \in NamesOf(cs)
  <2>1. PICK p \in 1..len : m = cs[p].name
    BY <1>1 DEF NamesOf
  <2>2. a.after = First => k = 0
    BY <1>2 DEF Place
  <2>3. CASE p < k
    BY <1>1, <1>3, <1>14, <2>1, <2>2, <2>3
  <2>4. CASE p = k
    BY <1>1, <1>3, <1>14, <2>1, <2>2, <2>4
  <2>5. CASE p > k
    BY <1>1, <1>3, <1>14, <2>1, <2>2, <2>5
  <2> QED
    BY <1>1, <1>3, <2>3, <2>4, <2>5
<1>16. ~Ord(new, a.col.name, a.col.name)
  <2> SUFFICES ASSUME Ord(new, a.col.name, a.col.name) PROVE FALSE
    OBVIOUS
  <2>1. PICK i, j \in 1..(len + 1) : i < j /\ new[i].name = a.col.name /\ new[j].name = a.col.name
    BY <1>4 DEF Ord
  <2>2. i = j
    BY <1>4, <1>10, <2>1 DEF Listed, Distinct
  <2> QED
    BY <2>1, <2>2
<1>17. PutFacts(cs, a, new)
  BY <1>10, <1>11, <1>12, <1>13, <1>15, <1>16 DEF PutFacts
<1> QED
  BY <1>17 DEF new

-----------------------------------------------------------------------------
(***************************************************************************)
(* Columns of the list ss added to the list cs, each after the column it   *)
(* follows in ss.                                                          *)
(***************************************************************************)
Follows(ss, a) ==
  /\ a.after # First => a.after \in NamesOf(ss)
  /\ \A m \in NamesOf(ss) :
       Ord(ss, m, a.col.name) <=> a.after # First /\ (m = a.after \/ Ord(ss, m, a.after))

WellAdded(ss, cs, adds) ==
  /\ adds \in Seq(Addition)
  /\ \A i, j \in DOMAIN adds : adds[i].col.name = adds[j].col.name => i = j
  /\ \A i \in DOMAIN adds :
       /\ adds[i].col \in ToSet(ss) /\ adds[i].col.name \notin NamesOf(cs) /\ Follows(ss, adds[i])
       /\ \/ adds[i].after = First \/ adds[i].after \in NamesOf(cs)
          \/ \E j \in DOMAIN adds : j < i /\ adds[j].col.name = adds[i].after

Agree(ss, cs) == \A m, n \in NamesOf(ss) \cap NamesOf(cs) : Ord(ss, m, n) <=> Ord(cs, m, n)

LEMMA OrdTotal ==
  ASSUME NEW cs, Listed(cs), NEW m \in NamesOf(cs), NEW n \in NamesOf(cs)
  PROVE  /\ m # n => (Ord(cs, m, n) <=> ~Ord(cs, n, m))
         /\ ~Ord(cs, m, m)
<1>1. DOMAIN cs = 1..Len(cs) /\ Len(cs) \in Nat
  BY DEF Listed
<1>2. PICK p \in DOMAIN cs : cs[p].name = m
  BY DEF NamesOf
<1>3. PICK q \in DOMAIN cs : cs[q].name = n
  BY DEF NamesOf
<1>4. \A i \in DOMAIN cs : (cs[i].name = m => i = p) /\ (cs[i].name = n => i = q)
  BY <1>2, <1>3 DEF Listed, Distinct
<1>5. Ord(cs, m, n) <=> p < q
  BY <1>2, <1>3, <1>4 DEF Ord
<1>6. Ord(cs, n, m) <=> q < p
  BY <1>2, <1>3, <1>4 DEF Ord
<1>7. Ord(cs, m, m) <=> p < p
  BY <1>2, <1>4 DEF Ord
<1>8. m # n => p # q
  BY <1>2, <1>3
<1> QED
  BY <1>1, <1>2, <1>3, <1>5, <1>6, <1>7, <1>8

LEMMA AgreeKept ==
  ASSUME NEW ss, Listed(ss), NEW cs, Listed(cs), NEW a \in Addition, Fits(cs, a), NEW new,
         PutFacts(cs, a, new), Follows(ss, a), a.col \in ToSet(ss), Agree(ss, cs)
  PROVE  Agree(ss, new)
<1> DEFINE c == a.col.name
<1> SUFFICES ASSUME NEW m \in NamesOf(ss) \cap NamesOf(new), NEW n \in NamesOf(ss) \cap NamesOf(new)
             PROVE  Ord(ss, m, n) <=> Ord(new, m, n)
  BY DEF Agree
<1>1. c \in NamesOf(ss) /\ c \notin NamesOf(cs)
  BY NamesListed DEF Fits, Listed
<1>2. m \in NamesOf(cs) \cup {c} /\ n \in NamesOf(cs) \cup {c}
  BY DEF PutFacts
<1>3. \A p \in NamesOf(ss) \cap NamesOf(cs) : Ord(ss, p, c) <=> Ord(new, p, c)
  <2> TAKE p \in NamesOf(ss) \cap NamesOf(cs)
  <2>1. Ord(new, p, c) <=> a.after # First /\ (p = a.after \/ Ord(cs, p, a.after))
    BY DEF PutFacts
  <2>2. Ord(ss, p, c) <=> a.after # First /\ (p = a.after \/ Ord(ss, p, a.after))
    BY DEF Follows
  <2>3. a.after # First => (Ord(ss, p, a.after) <=> Ord(cs, p, a.after))
    BY DEF Follows, Fits, Agree
  <2> QED
    BY <2>1, <2>2, <2>3
<1>4. CASE m \in NamesOf(cs) /\ n \in NamesOf(cs)
  BY <1>4 DEF PutFacts, Agree
<1>5. CASE m \in NamesOf(cs) /\ n = c
  BY <1>3, <1>5
<1>6. CASE m = c /\ n \in NamesOf(cs)
  <2>1. Ord(new, c, n) <=> ~Ord(new, n, c)
    BY <1>6 DEF PutFacts
  <2>2. Ord(ss, c, n) <=> ~Ord(ss, n, c)
    BY <1>1, <1>6, OrdTotal
  <2> QED
    BY <1>3, <1>6, <2>1, <2>2
<1>7. CASE m = c /\ n = c
  BY <1>1, <1>7, OrdTotal DEF PutFacts
<1> QED
  BY <1>2, <1>4, <1>5, <1>6, <1>7

\* What the list is after all of the additions.
AddedFacts(ss, cs, adds, new) ==
  /\ Listed(new)
  /\ ToSet(new) = ToSet(cs) \cup {adds[i].col : i \in DOMAIN adds}
  /\ \A m, n \in NamesOf(cs) : Ord(new, m, n) <=> Ord(cs, m, n)
  /\ Agree(ss, cs) => Agree(ss, new)

LEMMA ColumnsAre ==
  ASSUME NEW ss, Listed(ss), NEW cs, Listed(cs), NEW adds, WellAdded(ss, cs, adds)
  PROVE  AddedFacts(ss, cs, adds, Columns(cs, adds))
<1> DEFINE len == Len(adds)
           Part(i) == SubSeq(adds, 1, i)
<1>1. adds \in Seq(Addition) /\ len \in Nat /\ DOMAIN adds = 1..len
  BY DEF WellAdded
<1>2. PICK g : /\ g[0] = cs /\ Columns(cs, adds) = g[len]
               /\ \A i \in 1..len : g[i] = PutAfter(g[i - 1], adds[i])
  BY <1>1, FoldColumns
<1> HIDE DEF len
<1> DEFINE Done(i) == /\ Listed(g[i])
                      /\ ToSet(g[i]) = ToSet(cs) \cup {adds[j].col : j \in 1..i}
                      /\ NamesOf(g[i]) = NamesOf(cs) \cup {adds[j].col.name : j \in 1..i}
                      /\ \A m, n \in NamesOf(cs) : Ord(g[i], m, n) <=> Ord(cs, m, n)
                      /\ Agree(ss, cs) => Agree(ss, g[i])
           Good == {i \in 0..len : Done(i)}
<1>3. Done(0)
  <2>1. 1..0 = {}
    OBVIOUS
  <2> QED
    BY <1>2, <2>1
<1>4. ASSUME NEW i \in 0..(len - 1), Done(i) PROVE Done(i + 1)
  <2> DEFINE a == adds[i + 1]
             old == g[i]
             new == g[i + 1]
  <2>1. i + 1 \in 1..len /\ (i + 1) - 1 = i /\ 1..(i + 1) = 1..i \cup {i + 1}
    BY <1>1
  <2>2. new = PutAfter(old, a)
    BY <1>2, <2>1
  <2>3. a \in Addition /\ a.col \in ToSet(ss) /\ a.col.name \notin NamesOf(cs) /\ Follows(ss, a)
        /\ \/ a.after = First \/ a.after \in NamesOf(cs)
           \/ \E j \in 1..len : j < i + 1 /\ adds[j].col.name = a.after
    BY <1>1, <2>1 DEF WellAdded
  <2>4. \A j \in 1..i : j \in 1..len /\ adds[j].col.name # a.col.name
    BY <1>1, <2>1 DEF WellAdded
  <2>5. Fits(old, a)
    <3>1. a.col.name \notin NamesOf(old)
      BY <1>4, <2>3, <2>4
    <3>2. \A j \in 1..len : j < i + 1 => j \in 1..i
      BY <1>1
    <3>3. a.after = First \/ a.after \in NamesOf(old)
      BY <1>4, <2>3, <3>2
    <3> QED
      BY <3>1, <3>3 DEF Fits
  <2>6. PutFacts(old, a, new)
    BY <1>4, <2>2, <2>3, <2>5, PutIs
  <2>7. Listed(new)
    BY <2>6 DEF PutFacts
  <2>8. ToSet(new) = ToSet(cs) \cup {adds[j].col : j \in 1..(i + 1)}
    <3>1. ToSet(new) = ToSet(old) \cup {a.col}
      BY <2>6 DEF PutFacts
    <3> QED
      BY <1>4, <2>1, <3>1
  <2>9. NamesOf(new) = NamesOf(cs) \cup {adds[j].col.name : j \in 1..(i + 1)}
    <3>1. NamesOf(new) = NamesOf(old) \cup {a.col.name}
      BY <2>6 DEF PutFacts
    <3> QED
      BY <1>4, <2>1, <3>1
  <2>10. \A m, n \in NamesOf(cs) : Ord(new, m, n) <=> Ord(cs, m, n)
    BY <1>4, <2>6 DEF PutFacts
  <2>11. Agree(ss, cs) => Agree(ss, new)
    BY <1>4, <2>3, <2>5, <2>6, AgreeKept
  <2> QED
    BY <2>7, <2>8, <2>9, <2>10, <2>11
<1> HIDE DEF Done
<1>5. 0..len \subseteq Good
  <2>1. 0 \in Good
    BY <1>1, <1>3 DEF len
  <2>2. \A i \in 0..(len - 1) : i \in Good => i + 1 \in Good
    BY <1>1, <1>4
  <2> HIDE DEF Good
  <2> QED
    BY <1>1, <2>1, <2>2, UpTo
<1>6. Done(len)
  BY <1>1, <1>5
<1> QED
  BY <1>1, <1>2, <1>6 DEF Done, AddedFacts

-----------------------------------------------------------------------------
(***************************************************************************)
(* Parts of lists of columns.                                              *)
(***************************************************************************)
LEMMA ListedColumns ==
  ASSUME NEW cs, Listed(cs)
  PROVE  \A i \in DOMAIN cs : cs[i] \in Column /\ cs[i].name \in ColumnNames /\ cs[i].name # First
<1>1. \A i \in DOMAIN cs : cs[i] \in Column
  BY DEF Listed
<1>2. \A c \in Column : c.name \in ColumnNames
  BY DEF Column
<1> QED
  BY <1>1, <1>2, StructAssumption

ColOf(cs, n) == CHOOSE c \in ToSet(cs) : c.name = n

LEMMA ColOfIs ==
  ASSUME NEW cs, Listed(cs)
  PROVE  /\ \A c \in ToSet(cs) : ColOf(cs, c.name) = c
         /\ \A n \in NamesOf(cs) : ColOf(cs, n) \in ToSet(cs) /\ ColOf(cs, n).name = n
<1>1. \A c, d \in ToSet(cs) : c.name = d.name => c = d
  BY DEF Listed, Distinct, ToSet
<1>2. \A n \in NamesOf(cs) : \E c \in ToSet(cs) : c.name = n
  BY DEF NamesOf, ToSet
<1>3. \A n \in NamesOf(cs) : ColOf(cs, n) \in ToSet(cs) /\ ColOf(cs, n).name = n
  BY <1>2 DEF ColOf
<1>4. \A c \in ToSet(cs) : c.name \in NamesOf(cs)
  BY DEF NamesOf, ToSet
<1> QED
  BY <1>1, <1>3, <1>4

PartFacts(cs, P, q) ==
  /\ Listed(q)
  /\ ToSet(q) = {cs[i] : i \in P}
  /\ NamesOf(q) = {cs[i].name : i \in P}
  /\ \A m, n \in NamesOf(q) : Ord(q, m, n) <=> Ord(cs, m, n)

LEMMA PartListed ==
  ASSUME NEW cs, Listed(cs), NEW P \in SUBSET DOMAIN cs
  PROVE  PartFacts(cs, P, AtPositions(cs, P))
<1> DEFINE q == AtPositions(cs, P)
<1>1. cs \in Seq(Column) /\ DOMAIN cs = 1..Len(cs) /\ Len(cs) \in Nat
  BY DEF Listed
<1>2. q \in Seq(Column) /\ ToSet(q) = {cs[i] : i \in P}
  BY <1>1, PartIs
<1>3. PICK f : Increasing(f, Len(q), P) /\ \A j \in 1..Len(q) : q[j] = cs[f[j]]
  BY <1>1, PartIs
<1> HIDE DEF q
<1>4. /\ DOMAIN q = 1..Len(q) /\ Len(q) \in Nat /\ f \in [1..Len(q) -> P]
      /\ \A i, j \in 1..Len(q) : i < j => f[i] < f[j]
      /\ \A p \in P : \E j \in 1..Len(q) : f[j] = p
  BY <1>2, <1>3 DEF Increasing
<1>5. \A i, j \in DOMAIN cs : cs[i].name = cs[j].name => i = j
  BY DEF Listed, Distinct
<1>6. \A i, j \in 1..Len(q) : i < j <=> f[i] < f[j]
  <2> TAKE i, j \in 1..Len(q)
  <2>1. i \in Int /\ j \in Int /\ f[i] \in Int /\ f[j] \in Int
    BY <1>1, <1>4
  <2>2. CASE i < j
    BY <1>4, <2>2
  <2>3. CASE j < i
    <3>1. f[j] < f[i]
      BY <1>4, <2>3
    <3> QED
      BY <2>1, <2>3, <3>1
  <2>4. CASE i = j
    BY <2>1, <2>4
  <2> QED
    BY <2>1, <2>2, <2>3, <2>4
<1>7. Listed(q)
  <2> SUFFICES ASSUME NEW i \in 1..Len(q), NEW j \in 1..Len(q), q[i].name = q[j].name PROVE i = j
    BY <1>2, <1>4 DEF Listed, Distinct
  <2>1. f[i] = f[j]
    BY <1>3, <1>4, <1>5
  <2>2. ~(i < j) /\ ~(j < i)
    <3>1. f[i] \in Int /\ f[j] \in Int
      BY <1>1, <1>4
    <3> QED
      BY <1>6, <2>1, <3>1
  <2> QED
    BY <1>4, <2>2
<1>8. NamesOf(q) = {cs[i].name : i \in P}
  <2>1. NamesOf(q) = {c.name : c \in ToSet(q)}
    BY <1>2, NamesListed
  <2> QED
    BY <1>2, <2>1
<1>9. \A m, n \in NamesOf(q) : Ord(q, m, n) <=> Ord(cs, m, n)
  <2> SUFFICES ASSUME NEW m \in NamesOf(q), NEW n \in NamesOf(q) PROVE Ord(q, m, n) <=> Ord(cs, m, n)
    OBVIOUS
  <2>1. PICK p \in 1..Len(q), r \in 1..Len(q) : q[p].name = m /\ q[r].name = n
    BY <1>4 DEF NamesOf
  <2>2. cs[f[p]].name = m /\ cs[f[r]].name = n /\ f[p] \in DOMAIN cs /\ f[r] \in DOMAIN cs
    BY <1>3, <1>4, <2>1
  <2>3. Ord(cs, m, n) <=> f[p] < f[r]
    BY <1>5, <2>2 DEF Ord
  <2>4. Ord(q, m, n) <=> p < r
    BY <1>4, <1>7, <2>1 DEF Ord, Listed, Distinct
  <2> QED
    BY <1>6, <2>3, <2>4
<1>10. PartFacts(cs, P, q)
  BY <1>2, <1>7, <1>8, <1>9 DEF PartFacts
<1> QED
  BY <1>10 DEF q

\* The columns whose names are not in ns.
WithoutFacts(cs, ns, q) ==
  /\ Listed(q)
  /\ ToSet(q) = {c \in ToSet(cs) : c.name \notin ns}
  /\ NamesOf(q) = NamesOf(cs) \ ns
  /\ \A m, n \in NamesOf(q) : Ord(q, m, n) <=> Ord(cs, m, n)

LEMMA WithoutIs ==
  ASSUME NEW cs, Listed(cs), NEW ns
  PROVE  WithoutFacts(cs, ns, AtPositions(cs, {i \in DOMAIN cs : cs[i].name \notin ns}))
<1> DEFINE P == {i \in DOMAIN cs : cs[i].name \notin ns}
           q == AtPositions(cs, P)
<1>1. PartFacts(cs, P, q)
  BY PartListed
<1>2. {cs[i] : i \in P} = {c \in ToSet(cs) : c.name \notin ns}
  BY DEF ToSet
<1>3. {cs[i].name : i \in P} = NamesOf(cs) \ ns
  BY DEF NamesOf
<1> HIDE DEF P, q
<1>4. WithoutFacts(cs, ns, q)
  BY <1>1, <1>2, <1>3 DEF PartFacts, WithoutFacts
<1> QED
  BY <1>4 DEF q, P

-----------------------------------------------------------------------------
(***************************************************************************)
(* The additions a plan makes.                                             *)
(***************************************************************************)
PlannedAdds(ss, adds) ==
  /\ adds \in Seq(Addition)
  /\ \A i, j \in DOMAIN adds : adds[i].col.name = adds[j].col.name => i = j
  /\ \A i \in DOMAIN adds :
       /\ adds[i].col \in ToSet(ss) /\ Follows(ss, adds[i])
       /\ \A h \in DOMAIN adds : adds[h].col.name = adds[i].after => h < i

Position(ss, i) == [col |-> ss[i], after |-> IF i = 1 THEN First ELSE ss[i - 1].name]

LEMMA PositionFollows ==
  ASSUME NEW ss, Listed(ss), NEW i \in DOMAIN ss
  PROVE  Position(ss, i) \in Addition /\ Follows(ss, Position(ss, i))
<1> DEFINE a == Position(ss, i)
<1>1. ss \in Seq(Column) /\ DOMAIN ss = 1..Len(ss) /\ Len(ss) \in Nat
      /\ \A p, q \in DOMAIN ss : ss[p].name = ss[q].name => p = q
  BY DEF Listed, Distinct
<1>2. a.col = ss[i] /\ a.after = IF i = 1 THEN First ELSE ss[i - 1].name
  BY DEF Position
<1>3. i # 1 => i - 1 \in DOMAIN ss
  BY <1>1
<1>4. \A p \in DOMAIN ss : ss[p] \in Column /\ ss[p].name \in ColumnNames /\ ss[p].name # First
  BY ListedColumns
<1>5. a \in Addition
  BY <1>3, <1>4 DEF Addition, Position
<1>6. a.after # First <=> i # 1
  BY <1>2, <1>3, <1>4
<1>7. a.after # First => a.after \in NamesOf(ss)
  BY <1>2, <1>3, <1>6 DEF NamesOf
<1>8. ASSUME NEW m \in NamesOf(ss)
      PROVE  Ord(ss, m, a.col.name) <=> a.after # First /\ (m = a.after \/ Ord(ss, m, a.after))
  <2>1. PICK p \in DOMAIN ss : ss[p].name = m
    BY DEF NamesOf
  <2>2. Ord(ss, m, a.col.name) <=> p < i
    BY <1>1, <1>2, <2>1 DEF Ord
  <2>3. CASE i = 1
    BY <1>1, <1>6, <2>1, <2>2, <2>3
  <2>4. CASE i # 1
    <3>1. a.after = ss[i - 1].name /\ i - 1 \in DOMAIN ss
      BY <1>2, <1>3, <2>4
    <3>2. Ord(ss, m, a.after) <=> p < i - 1
      BY <1>1, <2>1, <3>1 DEF Ord
    <3>3. m = a.after <=> p = i - 1
      BY <1>1, <2>1, <3>1
    <3> QED
      BY <1>1, <1>6, <2>1, <2>2, <2>4, <3>2, <3>3
  <2> QED
    BY <2>3, <2>4
<1> QED
  BY <1>5, <1>7, <1>8 DEF Follows

AddedFromFacts(ss, new, adds) ==
  PlannedAdds(ss, adds) /\ {adds[i].col : i \in DOMAIN adds} = {c \in ToSet(ss) : c.name \in new}

LEMMA AddedFrom ==
  ASSUME NEW ss, Listed(ss), NEW new
  PROVE  AddedFromFacts(ss, new, AtPositions([i \in DOMAIN ss |-> Position(ss, i)],
                                             {i \in DOMAIN ss : ss[i].name \in new}))
<1> DEFINE all  == [i \in DOMAIN ss |-> Position(ss, i)]
           P    == {i \in DOMAIN ss : ss[i].name \in new}
           adds == AtPositions(all, P)
<1>1. ss \in Seq(Column) /\ DOMAIN ss = 1..Len(ss) /\ Len(ss) \in Nat
      /\ \A p, q \in DOMAIN ss : ss[p].name = ss[q].name => p = q
  BY DEF Listed, Distinct
<1>2. all \in Seq(Addition) /\ DOMAIN all = DOMAIN ss /\ \A i \in DOMAIN ss : all[i] = Position(ss, i)
  <2>1. \A i \in DOMAIN ss : Position(ss, i) \in Addition
    BY PositionFollows
  <2> QED
    BY <1>1, <2>1
<1>3. \A i \in DOMAIN ss : /\ all[i].col = ss[i]
                           /\ all[i].after = IF i = 1 THEN First ELSE ss[i - 1].name
  BY <1>2 DEF Position
<1>4. P \in SUBSET DOMAIN all
  BY <1>2
<1> HIDE DEF all, P
<1>5. adds \in Seq(Addition) /\ ToSet(adds) = {all[i] : i \in P}
  BY <1>2, <1>4, PartIs
<1>6. PICK f : Increasing(f, Len(adds), P) /\ \A j \in 1..Len(adds) : adds[j] = all[f[j]]
  BY <1>2, <1>4, PartIs
<1> HIDE DEF adds
<1>7. /\ DOMAIN adds = 1..Len(adds) /\ Len(adds) \in Nat /\ f \in [1..Len(adds) -> P]
      /\ \A i, j \in 1..Len(adds) : i < j => f[i] < f[j]
      /\ \A p \in P : \E j \in 1..Len(adds) : f[j] = p
  BY <1>5, <1>6 DEF Increasing
<1>8. \A j \in DOMAIN adds : /\ f[j] \in DOMAIN ss /\ adds[j] = Position(ss, f[j]) /\ adds[j].col = ss[f[j]]
                             /\ adds[j].after = IF f[j] = 1 THEN First ELSE ss[f[j] - 1].name
  BY <1>2, <1>3, <1>4, <1>6, <1>7
<1>9. \A i, j \in DOMAIN adds : f[i] < f[j] => i < j
  <2> SUFFICES ASSUME NEW i \in DOMAIN adds, NEW j \in DOMAIN adds, f[i] < f[j], ~(i < j) PROVE FALSE
    OBVIOUS
  <2>1. j < i \/ i = j
    BY <1>7
  <2>2. f[i] \in Int /\ f[j] \in Int
    BY <1>1, <1>8
  <2> QED
    BY <1>7, <2>1, <2>2
<1>10. \A i, j \in DOMAIN adds : adds[i].col.name = adds[j].col.name => i = j
  <2> SUFFICES ASSUME NEW i \in DOMAIN adds, NEW j \in DOMAIN adds, adds[i].col.name = adds[j].col.name
               PROVE  i = j
    OBVIOUS
  <2>1. f[i] = f[j]
    BY <1>1, <1>8
  <2>2. ~(i < j) /\ ~(j < i)
    <3>1. f[i] \in Int
      BY <1>1, <1>8
    <3> QED
      BY <1>7, <2>1, <3>1
  <2> QED
    BY <1>7, <2>2
<1>11. ASSUME NEW i \in DOMAIN adds
       PROVE  /\ adds[i].col \in ToSet(ss) /\ Follows(ss, adds[i])
              /\ \A h \in DOMAIN adds : adds[h].col.name = adds[i].after => h < i
  <2>1. adds[i].col \in ToSet(ss)
    BY <1>8 DEF ToSet
  <2>2. Follows(ss, adds[i])
    BY <1>8, PositionFollows
  <2>3. ASSUME NEW h \in DOMAIN adds, adds[h].col.name = adds[i].after PROVE h < i
    <3>1. ss[f[h]].name # First
      BY <1>8, ListedColumns
    <3>2. f[i] # 1 /\ adds[i].after = ss[f[i] - 1].name
      BY <1>8, <2>3, <3>1
    <3>3. f[i] - 1 \in DOMAIN ss
      BY <1>1, <1>8, <3>2
    <3>4. f[h] = f[i] - 1
      BY <1>1, <1>8, <2>3, <3>2, <3>3
    <3>5. f[h] < f[i]
      BY <1>1, <1>8, <3>4
    <3> QED
      BY <1>9, <3>5
  <2> QED
    BY <2>1, <2>2, <2>3
<1>12. {adds[i].col : i \in DOMAIN adds} = {c \in ToSet(ss) : c.name \in new}
  <2>1. \A i \in DOMAIN adds : adds[i].col \in ToSet(ss) /\ adds[i].col.name \in new
    BY <1>7, <1>8 DEF P, ToSet
  <2>2. ASSUME NEW c \in ToSet(ss), c.name \in new PROVE \E i \in DOMAIN adds : adds[i].col = c
    <3>1. PICK p \in DOMAIN ss : ss[p] = c
      BY DEF ToSet
    <3>2. p \in P
      BY <2>2, <3>1 DEF P
    <3>3. PICK j \in DOMAIN adds : f[j] = p
      BY <1>7, <3>2
    <3> QED
      BY <1>8, <3>1, <3>3
  <2> QED
    BY <2>1, <2>2
<1>13. AddedFromFacts(ss, new, adds)
  BY <1>5, <1>10, <1>11, <1>12 DEF AddedFromFacts, PlannedAdds
<1> QED
  BY <1>13 DEF adds, all, P

-----------------------------------------------------------------------------
(***************************************************************************)
(* A table after ALTER TABLE: names, columns, order and keys.              *)
(***************************************************************************)

LEMMA StructIs ==
  ASSUME NEW s, IsStruct(s)
  PROVE  /\ s \in [cols : Seq(Column), keys : SUBSET Key] /\ Listed(s.cols) /\ s.keys \subseteq Key
         /\ Names(s) = NamesOf(s.cols) /\ \A n : Col(s, n) = ColOf(s.cols, n)
<1>1. s \in [cols : Seq(Column), keys : SUBSET Key]
  BY DEF IsStruct, Struct
<1>2. Listed(s.cols)
  BY <1>1 DEF IsStruct, Listed, Distinct
<1> QED
  BY <1>1, <1>2 DEF Names, NamesOf, Col, ColOf

LEMMA KeyIs ==
  ASSUME NEW k \in Key
  PROVE  /\ k = [primary |-> k.primary, cols |-> k.cols] /\ k.cols \in Seq(ColumnNames)
         /\ k.primary \in BOOLEAN
  BY DEF Key

\* A key without the columns ns.
LEMMA ShrunkIs ==
  ASSUME NEW k \in Key, NEW ns
  PROVE  /\ Shrunk(k, ns) \in Key /\ Shrunk(k, ns).primary = k.primary
         /\ ToSet(Shrunk(k, ns).cols) = ToSet(k.cols) \ ns
         /\ ~Refs(k, ns) => Shrunk(k, ns) = k
         /\ ~(ToSet(k.cols) \subseteq ns) => Shrunk(k, ns).cols # <<>>
<1> DEFINE P == {i \in DOMAIN k.cols : k.cols[i] \notin ns}
           q == AtPositions(k.cols, P)
<1>1. k.cols \in Seq(ColumnNames) /\ k.primary \in BOOLEAN /\ k = [primary |-> k.primary, cols |-> k.cols]
  BY KeyIs
<1>2. q \in Seq(ColumnNames) /\ ToSet(q) = {k.cols[i] : i \in P}
  <2>1. P \in SUBSET DOMAIN k.cols
    OBVIOUS
  <2> HIDE DEF P
  <2> QED
    BY <1>1, <2>1, PartIs
<1>3. Shrunk(k, ns) = [primary |-> k.primary, cols |-> q]
  BY DEF Shrunk
<1>4. {k.cols[i] : i \in P} = ToSet(k.cols) \ ns
  BY DEF ToSet
<1>5. ASSUME ~Refs(k, ns) PROVE Shrunk(k, ns) = k
  <2>1. P = DOMAIN k.cols
    BY <1>5 DEF Refs, ToSet
  <2>2. q = k.cols
    BY <1>1, <2>1, WholeIs
  <2> QED
    BY <1>1, <1>3, <2>2
<1> HIDE DEF q, P
<1>6. Shrunk(k, ns) \in Key
  BY <1>1, <1>2, <1>3 DEF Key
<1>7. ASSUME ~(ToSet(k.cols) \subseteq ns) PROVE q # <<>>
  <2>1. ToSet(q) # {}
    BY <1>2, <1>4, <1>7
  <2>2. ToSet(<<>>) = {}
    BY DEF ToSet
  <2> QED
    BY <2>1, <2>2
<1> QED
  BY <1>2, <1>3, <1>4, <1>5, <1>6, <1>7

LEMMA KeptKeysAre ==
  ASSUME NEW d, IsStruct(d), NEW stmt
  PROVE  /\ KeptKeys(d, stmt) \subseteq Key
         /\ \A k \in KeptKeys(d, stmt) : k.cols # <<>> /\ ToSet(k.cols) \cap stmt.dropCol = {}
         /\ \A k \in d.keys \ stmt.dropKey : ~Refs(k, stmt.dropCol) => k \in KeptKeys(d, stmt)
<1>1. d.keys \subseteq Key /\ \A k \in d.keys : k.cols # <<>> /\ k.cols \in Seq(ColumnNames)
  BY StructIs, KeyIs DEF IsStruct
<1>2. \A k \in KeptKeys(d, stmt) : \E l \in d.keys \ stmt.dropKey :
         ~(ToSet(l.cols) \subseteq stmt.dropCol) /\ k = Shrunk(l, stmt.dropCol)
  BY DEF KeptKeys
<1>3. ASSUME NEW k \in KeptKeys(d, stmt)
      PROVE  k \in Key /\ k.cols # <<>> /\ ToSet(k.cols) \cap stmt.dropCol = {}
  <2>1. PICK l \in d.keys : ~(ToSet(l.cols) \subseteq stmt.dropCol) /\ k = Shrunk(l, stmt.dropCol)
    BY <1>2
  <2>2. l \in Key
    BY <1>1
  <2>3. /\ Shrunk(l, stmt.dropCol) \in Key /\ Shrunk(l, stmt.dropCol).cols # <<>>
        /\ ToSet(Shrunk(l, stmt.dropCol).cols) = ToSet(l.cols) \ stmt.dropCol
    BY <2>1, <2>2, ShrunkIs
  <2> QED
    BY <2>1, <2>3
<1>4. ASSUME NEW k \in d.keys \ stmt.dropKey, ~Refs(k, stmt.dropCol) PROVE k \in KeptKeys(d, stmt)
  <2>1. Shrunk(k, stmt.dropCol) = k
    BY <1>1, <1>4, ShrunkIs
  <2>2. ToSet(k.cols) # {}
    <3>1. k.cols \in Seq(ColumnNames) /\ k.cols # <<>>
      BY <1>1
    <3>2. 1 \in DOMAIN k.cols
      BY <3>1
    <3> QED
      BY <3>2 DEF ToSet
  <2>3. ~(ToSet(k.cols) \subseteq stmt.dropCol)
    BY <1>4, <2>2 DEF Refs
  <2> QED
    BY <1>4, <2>1, <2>3 DEF KeptKeys
<1> QED
  BY <1>3, <1>4

StmtOK(ss, stmt) ==
  /\ PlannedAdds(ss, stmt.add)
  /\ stmt.modify \subseteq ToSet(ss)
  /\ stmt.addKey \subseteq Key /\ \A k \in stmt.addKey : k.cols # <<>>

AddNames(stmt) == {stmt.add[i].col.name : i \in DOMAIN stmt.add}
NewNames(stmt) == {m.name : m \in stmt.modify}

\* The columns that are not dropped, with their new definitions.
KeptFacts(ss, d, stmt, kept) ==
  /\ Listed(kept)
  /\ NamesOf(kept) = Names(d) \ stmt.dropCol
  /\ \A n \in NamesOf(kept) : ColOf(kept, n) = IF n \in NewNames(stmt) THEN ColOf(ss, n) ELSE Col(d, n)
  /\ \A m, n \in NamesOf(kept) : Ord(kept, m, n) <=> Ord(d.cols, m, n)

\* Columns are replaced by others of the same names.
LEMMA Renamed ==
  ASSUME NEW cs, Listed(cs), NEW new, DOMAIN new = DOMAIN cs, new \in Seq(Column),
         \A i \in DOMAIN cs : new[i].name = cs[i].name
  PROVE  /\ Listed(new) /\ NamesOf(new) = NamesOf(cs)
         /\ \A m, n : Ord(new, m, n) <=> Ord(cs, m, n)
         /\ \A i \in DOMAIN cs : ColOf(new, cs[i].name) = new[i] /\ ColOf(cs, cs[i].name) = cs[i]
<1>1. Listed(new)
  BY DEF Listed, Distinct
<1>2. NamesOf(new) = NamesOf(cs)
  BY DEF NamesOf
<1>3. \A m, n : Ord(new, m, n) <=> Ord(cs, m, n)
  BY DEF Ord
<1>4. ASSUME NEW i \in DOMAIN cs PROVE ColOf(new, cs[i].name) = new[i] /\ ColOf(cs, cs[i].name) = cs[i]
  <2>1. new[i] \in ToSet(new) /\ cs[i] \in ToSet(cs)
    BY DEF ToSet
  <2>2. ColOf(new, new[i].name) = new[i] /\ ColOf(cs, cs[i].name) = cs[i]
    BY <1>1, <2>1, ColOfIs
  <2> QED
    BY <2>2
<1> QED
  BY <1>1, <1>2, <1>3, <1>4

LEMMA KeptColsAre ==
  ASSUME NEW ss, Listed(ss), NEW d, IsStruct(d), NEW stmt, StmtOK(ss, stmt)
  PROVE  KeptFacts(ss, d, stmt, KeptCols(d, stmt))
<1> DEFINE left == AtPositions(d.cols, {i \in DOMAIN d.cols : d.cols[i].name \notin stmt.dropCol})
           new  == NewNames(stmt)
           kept == [i \in DOMAIN left |-> IF left[i].name \in new
                             THEN CHOOSE m \in stmt.modify : m.name = left[i].name ELSE left[i]]
<1>1. KeptCols(d, stmt) = kept
  BY DEF KeptCols, NewNames
<1>2. WithoutFacts(d.cols, stmt.dropCol, left)
  BY StructIs, WithoutIs
<1> HIDE DEF left, new
<1>3. Listed(left) /\ left \in Seq(Column) /\ DOMAIN left = 1..Len(left) /\ Len(left) \in Nat
  BY <1>2 DEF WithoutFacts, Listed
<1>4. ASSUME NEW i \in DOMAIN left
      PROVE  /\ kept[i] \in Column /\ kept[i].name = left[i].name
             /\ kept[i] = IF left[i].name \in new THEN ColOf(ss, left[i].name) ELSE left[i]
  <2>1. CASE left[i].name \in new
    <3>1. \E m \in stmt.modify : m.name = left[i].name
      BY <2>1 DEF new, NewNames
    <3>2. kept[i] \in stmt.modify /\ kept[i].name = left[i].name
      BY <2>1, <3>1
    <3>3. kept[i] \in ToSet(ss)
      BY <3>2 DEF StmtOK
    <3>4. kept[i] = ColOf(ss, left[i].name)
      BY <3>2, <3>3, ColOfIs
    <3>5. kept[i] \in Column
      BY <3>3, ListedColumns DEF ToSet
    <3> QED
      BY <2>1, <3>2, <3>4, <3>5
  <2>2. CASE left[i].name \notin new
    BY <1>3, <2>2
  <2> QED
    BY <2>1, <2>2
<1>5. DOMAIN kept = DOMAIN left
  OBVIOUS
<1> HIDE DEF kept
<1>6. kept \in Seq(Column)
  <2>1. kept = [i \in 1..Len(left) |-> kept[i]]
    BY <1>3, <1>5 DEF kept
  <2> QED
    BY <1>3, <1>4, <2>1
<1>7. \A i \in DOMAIN left : kept[i].name = left[i].name
  BY <1>4
<1>8. /\ Listed(kept) /\ NamesOf(kept) = NamesOf(left)
      /\ \A m, n : Ord(kept, m, n) <=> Ord(left, m, n)
      /\ \A i \in DOMAIN left : ColOf(kept, left[i].name) = kept[i] /\ ColOf(left, left[i].name) = left[i]
  BY <1>3, <1>5, <1>6, <1>7, Renamed
<1>9. NamesOf(kept) = Names(d) \ stmt.dropCol
  BY <1>2, <1>8, StructIs DEF WithoutFacts
<1>10. ASSUME NEW n \in NamesOf(kept)
       PROVE  ColOf(kept, n) = IF n \in new THEN ColOf(ss, n) ELSE Col(d, n)
  <2>1. PICK i \in DOMAIN left : left[i].name = n
    BY <1>8 DEF NamesOf
  <2>2. ColOf(kept, n) = kept[i]
    BY <1>8, <2>1
  <2>3. left[i] \in ToSet(d.cols)
    BY <1>2 DEF WithoutFacts, ToSet
  <2>4. Col(d, n) = left[i]
    BY <2>1, <2>3, StructIs, ColOfIs
  <2> QED
    BY <1>4, <2>1, <2>2, <2>4
<1>11. \A m, n \in NamesOf(kept) : Ord(kept, m, n) <=> Ord(d.cols, m, n)
  BY <1>2, <1>8 DEF WithoutFacts
<1>12. KeptFacts(ss, d, stmt, kept)
  BY <1>8, <1>9, <1>10, <1>11 DEF KeptFacts, new
<1> QED
  BY <1>1, <1>12

\* The columns in the primary keys.
Primary(keys) == UNION {ToSet(k.cols) : k \in {l \in keys : l.primary}}

\* A definition, in a table with these keys.
Kept(c, keys) == [c EXCEPT !.null = @ /\ c.name \notin Primary(keys)]

NotNullFacts(cs, keys, new) ==
  /\ Listed(new) /\ NamesOf(new) = NamesOf(cs) /\ DOMAIN new = DOMAIN cs
  /\ \A m, n : Ord(new, m, n) <=> Ord(cs, m, n)
  /\ \A n \in NamesOf(cs) : ColOf(new, n) = Kept(ColOf(cs, n), keys)

LEMMA NotNullIs ==
  ASSUME NEW cs, Listed(cs), NEW keys
  PROVE  NotNullFacts(cs, keys, NotNull(cs, keys))
<1> DEFINE new == NotNull(cs, keys)
<1>1. cs \in Seq(Column)
  BY DEF Listed
<1>2. new = [i \in DOMAIN cs |-> Kept(cs[i], keys)]
  BY DEF NotNull, Kept, Primary
<1>3. \A c \in Column : Kept(c, keys) \in Column /\ Kept(c, keys).name = c.name
  BY DEF Kept, Column
<1>4. DOMAIN new = DOMAIN cs /\ \A i \in DOMAIN cs : new[i] = Kept(cs[i], keys)
  BY <1>2
<1> HIDE DEF new
<1>5. \A i \in DOMAIN cs : new[i] \in Column /\ new[i].name = cs[i].name
  BY <1>3, <1>4, ListedColumns
<1>6. new \in Seq(Column)
  <2>1. DOMAIN cs = 1..Len(cs) /\ Len(cs) \in Nat
    BY <1>1
  <2>2. new = [i \in 1..Len(cs) |-> new[i]]
    BY <1>2, <1>4, <2>1
  <2> QED
    BY <1>5, <2>1, <2>2
<1>7. /\ Listed(new) /\ NamesOf(new) = NamesOf(cs)
      /\ \A m, n : Ord(new, m, n) <=> Ord(cs, m, n)
      /\ \A i \in DOMAIN cs : ColOf(new, cs[i].name) = new[i] /\ ColOf(cs, cs[i].name) = cs[i]
  BY <1>4, <1>5, <1>6, Renamed
<1>8. ASSUME NEW n \in NamesOf(cs) PROVE ColOf(new, n) = Kept(ColOf(cs, n), keys)
  <2>1. PICK i \in DOMAIN cs : cs[i].name = n
    BY DEF NamesOf
  <2> QED
    BY <1>4, <1>7, <2>1
<1> QED
  BY <1>4, <1>7, <1>8 DEF NotNullFacts, new

\* The keys after a statement.
KeysAfter(d, stmt) == KeptKeys(d, stmt) \cup stmt.addKey

\* The definition a column has in the statement, or had.
Defined(ss, d, stmt, n) == IF n \in NewNames(stmt) \cup AddNames(stmt) THEN ColOf(ss, n) ELSE Col(d, n)

\* Nothing but what the statement would make of the table can be wrong with
\* it.
Acceptable(d, stmt) ==
  /\ stmt.dropKey \subseteq d.keys /\ AddNames(stmt) \cap Names(d) = {}
  /\ stmt.dropCol \cup NewNames(stmt) \subseteq Names(d)
  /\ \A k \in KeysAfter(d, stmt) : ToSet(k.cols) \subseteq (Names(d) \ stmt.dropCol) \cup AddNames(stmt)
  /\ \A i \in DOMAIN stmt.add :
       stmt.add[i].after \in (Names(d) \ stmt.dropCol) \cup AddNames(stmt) \cup {First}
  /\ \A k, l \in KeysAfter(d, stmt) : k.primary /\ l.primary => k = l

LEMMA RejectedIs ==
  ASSUME NEW d, NEW stmt
  PROVE  Rejected(d, stmt) <=> ~Acceptable(d, stmt) \/ Impossible(Altered(d, stmt))
  BY DEF Rejected, Acceptable, KeysAfter, AddNames, NewNames

AlteredFacts(ss, d, stmt, new) ==
  /\ Listed(new.cols)
  /\ ~Impossible(new) => IsStruct(new)
  /\ new.keys = KeysAfter(d, stmt)
  /\ Names(new) = (Names(d) \ stmt.dropCol) \cup AddNames(stmt)
  /\ \A n \in Names(new) : Col(new, n) = Kept(Defined(ss, d, stmt, n), new.keys)
  /\ \A m, n \in Names(d) \ stmt.dropCol : Ord(new.cols, m, n) <=> Ord(d.cols, m, n)
  /\ Agree(ss, d.cols) => Agree(ss, new.cols)

LEMMA AlteredIs ==
  ASSUME NEW ss, Listed(ss), NEW d, IsStruct(d), NEW stmt, StmtOK(ss, stmt), Acceptable(d, stmt)
  PROVE  AlteredFacts(ss, d, stmt, Altered(d, stmt))
<1> DEFINE kept == KeptCols(d, stmt)
           keys == KeysAfter(d, stmt)
           cols == Columns(kept, stmt.add)
           new  == Altered(d, stmt)
<1>1. new = [cols |-> NotNull(cols, keys), keys |-> keys]
  BY DEF Altered, KeysAfter, Columns
<1>2. KeptFacts(ss, d, stmt, kept)
  BY KeptColsAre
<1>3. /\ AddNames(stmt) \cap Names(d) = {}
      /\ \A k \in keys : ToSet(k.cols) \subseteq (Names(d) \ stmt.dropCol) \cup AddNames(stmt)
      /\ \A i \in DOMAIN stmt.add : stmt.add[i].after \in (Names(d) \ stmt.dropCol) \cup AddNames(stmt) \cup {First}
      /\ \A k, l \in keys : k.primary /\ l.primary => k = l
  BY DEF Acceptable
<1> HIDE DEF kept, keys, cols, new
<1>4. WellAdded(ss, kept, stmt.add)
  <2>1. NamesOf(kept) = Names(d) \ stmt.dropCol
    BY <1>2 DEF KeptFacts
  <2>2. PlannedAdds(ss, stmt.add)
    BY DEF StmtOK
  <2>3. ASSUME NEW i \in DOMAIN stmt.add
        PROVE  /\ stmt.add[i].col.name \notin NamesOf(kept)
               /\ \/ stmt.add[i].after = First \/ stmt.add[i].after \in NamesOf(kept)
                  \/ \E j \in DOMAIN stmt.add : j < i /\ stmt.add[j].col.name = stmt.add[i].after
    <3>1. stmt.add[i].col.name \notin NamesOf(kept)
      BY <1>3, <2>1 DEF AddNames
    <3>2. CASE stmt.add[i].after \in AddNames(stmt)
      <4>1. PICK j \in DOMAIN stmt.add : stmt.add[j].col.name = stmt.add[i].after
        BY <3>2 DEF AddNames
      <4> QED
        BY <2>2, <3>1, <4>1 DEF PlannedAdds
    <3> QED
      BY <1>3, <2>1, <3>1, <3>2
  <2> QED
    BY <2>2, <2>3 DEF WellAdded, PlannedAdds
<1>5. Listed(kept)
  BY <1>2 DEF KeptFacts
<1>6. AddedFacts(ss, kept, stmt.add, cols)
  BY <1>4, <1>5, ColumnsAre DEF cols
<1>7. Listed(cols) /\ NotNullFacts(cols, keys, NotNull(cols, keys))
  BY <1>6, NotNullIs DEF AddedFacts
<1>8. new.cols = NotNull(cols, keys) /\ new.keys = keys /\ Names(new) = NamesOf(new.cols)
      /\ \A n : Col(new, n) = ColOf(new.cols, n)
  BY <1>1 DEF Names, NamesOf, Col, ColOf
<1>9. NamesOf(cols) = (Names(d) \ stmt.dropCol) \cup AddNames(stmt)
  <2>1. ToSet(cols) = ToSet(kept) \cup {stmt.add[i].col : i \in DOMAIN stmt.add}
    BY <1>6 DEF AddedFacts
  <2>2. NamesOf(cols) = {c.name : c \in ToSet(cols)} /\ NamesOf(kept) = {c.name : c \in ToSet(kept)}
    BY <1>5, <1>7, NamesListed DEF Listed
  <2>3. NamesOf(kept) = Names(d) \ stmt.dropCol
    BY <1>2 DEF KeptFacts
  <2> QED
    BY <2>1, <2>2, <2>3 DEF AddNames
<1>10. Names(new) = (Names(d) \ stmt.dropCol) \cup AddNames(stmt)
  BY <1>7, <1>8, <1>9 DEF NotNullFacts
<1>11. ASSUME NEW n \in Names(new) PROVE Col(new, n) = Kept(Defined(ss, d, stmt, n), keys)
  <2>1. n \in NamesOf(cols) /\ ColOf(new.cols, n) = Kept(ColOf(cols, n), keys)
    BY <1>7, <1>8, <1>9, <1>10 DEF NotNullFacts
  <2>2. ToSet(cols) = ToSet(kept) \cup {stmt.add[i].col : i \in DOMAIN stmt.add}
    BY <1>6 DEF AddedFacts
  <2>3. ColOf(cols, n) = Defined(ss, d, stmt, n)
    <3>1. CASE n \in AddNames(stmt)
      <4>1. PICK i \in DOMAIN stmt.add : stmt.add[i].col.name = n
        BY <3>1 DEF AddNames
      <4>2. stmt.add[i].col \in ToSet(cols) /\ stmt.add[i].col \in ToSet(ss)
        BY <2>2 DEF StmtOK, PlannedAdds
      <4>3. ColOf(cols, n) = stmt.add[i].col /\ ColOf(ss, n) = stmt.add[i].col
        BY <1>7, <4>1, <4>2, ColOfIs
      <4> QED
        BY <3>1, <4>3 DEF Defined
    <3>2. CASE n \notin AddNames(stmt)
      <4>1. n \in NamesOf(kept)
        BY <1>2, <1>9, <2>1, <3>2 DEF KeptFacts
      <4>2. ColOf(kept, n) \in ToSet(kept) /\ ColOf(kept, n).name = n
        BY <1>5, <4>1, ColOfIs
      <4>3. ColOf(cols, n) = ColOf(kept, n)
        BY <1>7, <2>2, <4>2, ColOfIs
      <4>4. ColOf(kept, n) = IF n \in NewNames(stmt) THEN ColOf(ss, n) ELSE Col(d, n)
        BY <1>2, <4>1 DEF KeptFacts
      <4> QED
        BY <3>2, <4>3, <4>4 DEF Defined
    <3> QED
      BY <3>1, <3>2
  <2> QED
    BY <1>8, <2>1, <2>3
<1>12. ASSUME NEW m \in Names(d) \ stmt.dropCol, NEW n \in Names(d) \ stmt.dropCol
       PROVE  Ord(new.cols, m, n) <=> Ord(d.cols, m, n)
  <2>1. m \in NamesOf(kept) /\ n \in NamesOf(kept)
    BY <1>2 DEF KeptFacts
  <2>2. Ord(cols, m, n) <=> Ord(kept, m, n)
    BY <1>6, <2>1 DEF AddedFacts
  <2>3. Ord(kept, m, n) <=> Ord(d.cols, m, n)
    BY <1>2, <2>1 DEF KeptFacts
  <2> QED
    BY <1>7, <1>8, <2>2, <2>3 DEF NotNullFacts
<1>13. ASSUME Agree(ss, d.cols) PROVE Agree(ss, new.cols)
  <2>1. Agree(ss, kept)
    <3>1. NamesOf(kept) \subseteq NamesOf(d.cols)
      BY <1>2, StructIs DEF KeptFacts
    <3>2. \A m, n \in NamesOf(kept) : Ord(kept, m, n) <=> Ord(d.cols, m, n)
      BY <1>2 DEF KeptFacts
    <3> QED
      BY <1>13, <3>1, <3>2 DEF Agree
  <2>2. Agree(ss, cols)
    BY <1>6, <2>1 DEF AddedFacts
  <2> QED
    BY <1>7, <1>8, <2>2 DEF NotNullFacts, Agree
<1>14. ASSUME ~Impossible(new) PROVE IsStruct(new)
  <2>1. keys \subseteq Key /\ \A k \in keys : k.cols # <<>>
    BY KeptKeysAre DEF keys, KeysAfter, StmtOK
  <2>2. Listed(new.cols)
    BY <1>7, <1>8 DEF NotNullFacts
  <2>3. new \in Struct
    BY <1>1, <1>7, <2>1 DEF Struct, NotNullFacts, Listed
  <2>4. \A i, j \in DOMAIN new.cols : new.cols[i].name = new.cols[j].name => i = j
    BY <2>2 DEF Listed, Distinct
  <2>5. \A k \in new.keys : k.cols # <<>> /\ ToSet(k.cols) \subseteq Names(new)
    BY <1>3, <1>8, <1>10, <2>1
  <2>6. ASSUME NEW k \in {l \in new.keys : l.primary}, NEW n \in ToSet(k.cols) PROVE ~Col(new, n).null
    <3>1. n \in Names(new) /\ n \in Primary(keys)
      BY <1>8, <2>5 DEF Primary
    <3>2. Col(new, n) = Kept(ColOf(cols, n), keys) /\ n \in NamesOf(cols)
      BY <1>7, <1>8, <1>9, <1>10, <3>1 DEF NotNullFacts
    <3>3. ColOf(cols, n).name = n /\ ColOf(cols, n) \in Column
      BY <1>7, <3>2, ColOfIs, NamesListed DEF Listed
    <3> QED
      BY <3>1, <3>2, <3>3 DEF Kept, Column
  <2> QED
    BY <1>3, <1>8, <1>14, <2>3, <2>4, <2>5, <2>6 DEF IsStruct
<1>15. new.keys = KeysAfter(d, stmt)
  BY <1>8 DEF keys
<1>16. AlteredFacts(ss, d, stmt, new)
  <2>1. Listed(new.cols)
    BY <1>7, <1>8 DEF NotNullFacts
  <2> QED
    BY <2>1, <1>8, <1>10, <1>11, <1>12, <1>13, <1>14, <1>15 DEF AlteredFacts
<1> QED
  BY <1>16 DEF new

-----------------------------------------------------------------------------
(***************************************************************************)
(* What is seen of a structure, and the table created like it.             *)
(***************************************************************************)
\* The keys of a structure, and their columns among these names.
KeysOf(keys, names) ==
  /\ keys \subseteq Key
  /\ \A k \in keys : k.cols # <<>> /\ k.cols \in Seq(ColumnNames) /\ ToSet(k.cols) \subseteq names
  /\ \A k, l \in keys : k.primary /\ l.primary => k = l

LEMMA KeysAre ==
  ASSUME NEW s, IsStruct(s)
  PROVE  /\ KeysOf(s.keys, Names(s))
         /\ \A n \in Primary(s.keys) : n \in Names(s) /\ ~Col(s, n).null
         /\ \A n \in Names(s) : Col(s, n) \in Column /\ Col(s, n).name = n
         /\ \A c \in ToSet(s.cols) : c = Col(s, c.name) /\ c.name \in Names(s)
<1>1. s.keys \subseteq Key /\ Listed(s.cols) /\ Names(s) = NamesOf(s.cols)
      /\ \A n : Col(s, n) = ColOf(s.cols, n)
  BY StructIs
<1>2. KeysOf(s.keys, Names(s))
  BY <1>1, KeyIs DEF IsStruct, KeysOf
<1>3. ASSUME NEW n \in Primary(s.keys) PROVE n \in Names(s) /\ ~Col(s, n).null
  <2>1. PICK k \in s.keys : k.primary /\ n \in ToSet(k.cols)
    BY DEF Primary
  <2> QED
    BY <2>1 DEF IsStruct
<1>4. ASSUME NEW n \in Names(s) PROVE Col(s, n) \in Column /\ Col(s, n).name = n
  BY <1>1, ColOfIs, NamesListed DEF Listed
<1>5. ASSUME NEW c \in ToSet(s.cols) PROVE c = Col(s, c.name) /\ c.name \in Names(s)
  BY <1>1, ColOfIs, NamesListed DEF Listed
<1> QED
  BY <1>2, <1>3, <1>4, <1>5

VisibleFacts(s, ignore, v) ==
  /\ Listed(v.cols) /\ Names(v) = NamesOf(v.cols) /\ \A n : Col(v, n) = ColOf(v.cols, n)
  /\ v.keys = {k \in s.keys : ~Refs(k, ignore)} /\ KeysOf(v.keys, Names(v))
  /\ Names(v) = Names(s) \ ignore
  /\ ToSet(v.cols) = {c \in ToSet(s.cols) : c.name \notin ignore}
  /\ \A n \in Names(v) : Col(v, n) = Col(s, n)
  /\ \A m, n \in Names(v) : Ord(v.cols, m, n) <=> Ord(s.cols, m, n)

LEMMA VisibleIs ==
  ASSUME NEW s, IsStruct(s), NEW ignore
  PROVE  VisibleFacts(s, ignore, Visible(s, ignore))
<1> DEFINE v == Visible(s, ignore)
<1>1. /\ s \in [cols : Seq(Column), keys : SUBSET Key] /\ Listed(s.cols) /\ s.keys \subseteq Key
      /\ Names(s) = NamesOf(s.cols) /\ \A n : Col(s, n) = ColOf(s.cols, n)
  BY StructIs
<1>2. \A x : Names(x) = NamesOf(x.cols) /\ \A n : Col(x, n) = ColOf(x.cols, n)
  BY DEF Names, NamesOf, Col, ColOf
<1>3. v.keys = {k \in s.keys : ~Refs(k, ignore)}
  BY DEF Visible, Refs
<1>4. WithoutFacts(s.cols, ignore, v.cols)
  <2>1. CASE ignore = {}
    BY <1>1, <2>1, NamesListed DEF Visible, WithoutFacts, Listed
  <2>2. CASE ignore # {}
    <3>1. v.cols = AtPositions(s.cols, {i \in DOMAIN s.cols : s.cols[i].name \notin ignore})
      BY <2>2 DEF Visible
    <3> QED
      BY <1>1, <3>1, WithoutIs
  <2> QED
    BY <2>1, <2>2
<1> HIDE DEF v
<1>5. /\ Listed(v.cols) /\ Names(v) = Names(s) \ ignore
      /\ ToSet(v.cols) = {c \in ToSet(s.cols) : c.name \notin ignore}
      /\ \A m, n \in Names(v) : Ord(v.cols, m, n) <=> Ord(s.cols, m, n)
  BY <1>1, <1>2, <1>4 DEF WithoutFacts
<1>6. ASSUME NEW n \in Names(v) PROVE Col(v, n) = Col(s, n)
  <2>1. ColOf(v.cols, n) \in ToSet(v.cols) /\ ColOf(v.cols, n).name = n
    BY <1>2, <1>5, ColOfIs
  <2>2. ColOf(s.cols, n) = ColOf(v.cols, n)
    BY <1>1, <1>5, <2>1, ColOfIs
  <2> QED
    BY <1>1, <1>2, <2>2
<1>7. KeysOf(v.keys, Names(v))
  <2>1. KeysOf(s.keys, Names(s))
    BY KeysAre
  <2>2. \A k \in v.keys : k \in s.keys /\ ToSet(k.cols) \cap ignore = {}
    BY <1>3 DEF Refs
  <2> QED
    BY <1>5, <2>1, <2>2 DEF KeysOf
<1>8. VisibleFacts(s, ignore, v)
  BY <1>2, <1>3, <1>5, <1>6, <1>7 DEF VisibleFacts
<1> QED
  BY <1>8 DEF v

\* The table created like the columns and keys in sight of s.
CreatedFacts(s, v, new) ==
  /\ ~Impossible(new) => IsStruct(new)
  /\ new.keys = v.keys /\ Names(new) = Names(v)
  /\ \A n \in Names(v) : Col(new, n) = Col(s, n)
  /\ \A m, n : Ord(new.cols, m, n) <=> Ord(v.cols, m, n)

LEMMA CreatedIs ==
  ASSUME NEW s, IsStruct(s), NEW ignore, NEW v, VisibleFacts(s, ignore, v)
  PROVE  CreatedFacts(s, v, Created(v))
<1> DEFINE new == Created(v)
<1>1. Listed(v.cols) /\ Names(v) = NamesOf(v.cols) /\ \A n : Col(v, n) = ColOf(v.cols, n)
  BY DEF VisibleFacts
<1>2. NotNullFacts(v.cols, v.keys, NotNull(v.cols, v.keys))
  BY <1>1, NotNullIs
<1>3. /\ new = [cols |-> NotNull(v.cols, v.keys), keys |-> v.keys]
      /\ new.cols = NotNull(v.cols, v.keys) /\ new.keys = v.keys /\ Names(new) = NamesOf(new.cols)
      /\ \A n : Col(new, n) = ColOf(new.cols, n)
  BY DEF Created, Names, NamesOf, Col, ColOf
<1> HIDE DEF new
<1>4. /\ Listed(new.cols) /\ Names(new) = Names(v)
      /\ \A m, n : Ord(new.cols, m, n) <=> Ord(v.cols, m, n)
      /\ \A n \in Names(v) : Col(new, n) = Kept(Col(v, n), v.keys)
  BY <1>1, <1>2, <1>3 DEF NotNullFacts
<1>5. /\ \A n \in Primary(s.keys) : n \in Names(s) /\ ~Col(s, n).null
      /\ \A n \in Names(s) : Col(s, n) \in Column /\ Col(s, n).name = n
  BY KeysAre
<1>6. /\ v.keys \subseteq s.keys /\ Names(v) \subseteq Names(s) /\ \A n \in Names(v) : Col(v, n) = Col(s, n)
      /\ KeysOf(v.keys, Names(v))
  BY DEF VisibleFacts
<1>7. Primary(v.keys) \subseteq Primary(s.keys)
  BY <1>6 DEF Primary
<1>8. ASSUME NEW n \in Names(v) PROVE Col(new, n) = Col(s, n) /\ (n \in Primary(v.keys) => ~Col(new, n).null)
  <2>1. Col(new, n) = [Col(s, n) EXCEPT !.null = @ /\ n \notin Primary(v.keys)]
    BY <1>4, <1>5, <1>6 DEF Kept
  <2>2. n \in Primary(v.keys) => ~Col(s, n).null
    BY <1>5, <1>7
  <2>3. Col(s, n) \in Column
    BY <1>5, <1>6
  <2> QED
    BY <2>1, <2>2, <2>3 DEF Column
<1>9. ASSUME ~Impossible(new) PROVE IsStruct(new)
  <2>1. new \in Struct
    BY <1>3, <1>4, <1>6 DEF Struct, Listed, KeysOf
  <2>2. \A i, j \in DOMAIN new.cols : new.cols[i].name = new.cols[j].name => i = j
    BY <1>4 DEF Listed, Distinct
  <2>3. ASSUME NEW k \in {l \in new.keys : l.primary}, NEW n \in ToSet(k.cols) PROVE ~Col(new, n).null
    <3>1. n \in Primary(v.keys) /\ n \in Names(v)
      BY <1>3, <1>6 DEF Primary, KeysOf
    <3> QED
      BY <1>8, <3>1
  <2>4. \A k \in new.keys : k.cols # <<>> /\ ToSet(k.cols) \subseteq Names(new)
    BY <1>3, <1>4, <1>6 DEF KeysOf
  <2>5. \A k, l \in new.keys : k.primary /\ l.primary => k = l
    BY <1>3, <1>6 DEF KeysOf
  <2> QED
    BY <1>9, <2>1, <2>2, <2>3, <2>4, <2>5 DEF IsStruct
<1>10. CreatedFacts(s, v, new)
  BY <1>3, <1>4, <1>8, <1>9 DEF CreatedFacts
<1> QED
  BY <1>10 DEF new

-----------------------------------------------------------------------------
(***************************************************************************)
(* The statements of a plan.                                               *)
(***************************************************************************)
\* A record of changes, and one with other key changes.
ChangesOf(add, modify, dropCol, addKey, dropKey) ==
  [add |-> add, modify |-> modify, dropCol |-> dropCol, addKey |-> addKey, dropKey |-> dropKey]
WithKeys(ch, addKey, dropKey) == [ch EXCEPT !.dropKey = dropKey, !.addKey = addKey]

LEMMA KeysReplaced ==
  ASSUME NEW x1, NEW x2, NEW x3, NEW x4, NEW x5, NEW a, NEW b
  PROVE  WithKeys(ChangesOf(x1, x2, x3, x4, x5), a, b) = ChangesOf(x1, x2, x3, a, b)
<1> DEFINE r == [add |-> x1, modify |-> x2, dropCol |-> x3, addKey |-> x4, dropKey |-> x5]
           D == {"add", "modify", "dropCol", "addKey", "dropKey"}
           q == [r EXCEPT !.dropKey = b, !.addKey = a]
           t == [add |-> x1, modify |-> x2, dropCol |-> x3, addKey |-> a, dropKey |-> b]
<1>1. q = [x \in D |-> q[x]] /\ t = [x \in D |-> t[x]]
  OBVIOUS
<1>2. q.add = x1 /\ q.modify = x2 /\ q.dropCol = x3 /\ q.addKey = a /\ q.dropKey = b
  OBVIOUS
<1>3. t.add = x1 /\ t.modify = x2 /\ t.dropCol = x3 /\ t.addKey = a /\ t.dropKey = b
  OBVIOUS
<1> HIDE DEF q, t
<1>4. \A x \in D : q[x] = t[x]
  BY <1>2, <1>3
<1> HIDE DEF D
<1>5. q = t
  BY <1>1, <1>4
<1>6. WithKeys(ChangesOf(x1, x2, x3, x4, x5), a, b) = q
  BY DEF WithKeys, ChangesOf, q
<1>7. ChangesOf(x1, x2, x3, a, b) = t
  BY DEF ChangesOf, t
<1> QED
  BY <1>5, <1>6, <1>7

IsChanges(ch) == ch = ChangesOf(ch.add, ch.modify, ch.dropCol, ch.addKey, ch.dropKey)

\* The key changes of the first statement, and of the second one.
EarlyDrops(ch) == {k \in ch.dropKey : ~Refs(k, ch.dropCol) /\ ~Refs(k, Touched(ch))}
EarlyAdds(ch)  == {k \in ch.addKey : ~Refs(k, Touched(ch))}
LateDrops(ch)  == {k \in ch.dropKey : ~Refs(k, ch.dropCol) /\ Refs(k, Touched(ch))}
LateAdds(ch)   == {k \in ch.addKey : Refs(k, Touched(ch))}

Early(ch) == ChangesOf(ch.add, ch.modify, ch.dropCol, EarlyAdds(ch), EarlyDrops(ch))
Late(ch)  == ChangesOf(<<>>, {}, {}, LateAdds(ch), LateDrops(ch))

LEMMA RenderIs ==
  ASSUME NEW ch, IsChanges(ch)
  PROVE  /\ RenderDDL(ch) = IF Early(ch) = NoChanges THEN <<>> ELSE <<Early(ch)>> \o Clauses(Late(ch))
         /\ RenderDDL(ch) # <<>> =>
              Head(RenderDDL(ch)) = Early(ch) /\ Tail(RenderDDL(ch)) = Clauses(Late(ch))
<1>1. RenderDDL(ch) = Clauses(Early(ch)) \o Clauses(Late(ch))
  <2> DEFINE dropKey == {k \in ch.dropKey : ~Refs(k, ch.dropCol)}
             late == [NoChanges EXCEPT !.dropKey = {k \in dropKey : Refs(k, Touched(ch))},
                                       !.addKey  = {k \in ch.addKey : Refs(k, Touched(ch))}]
             rest == [ch EXCEPT !.dropKey = dropKey \ late.dropKey, !.addKey = @ \ late.addKey]
  <2>1. RenderDDL(ch) = Clauses(rest) \o Clauses(late)
    BY DEF RenderDDL
  <2>2. late = Late(ch)
    <3>1. {k \in dropKey : Refs(k, Touched(ch))} = LateDrops(ch)
      BY DEF LateDrops
    <3>2. late = WithKeys(NoChanges, LateAdds(ch), LateDrops(ch))
      BY <3>1 DEF WithKeys, LateAdds
    <3>3. NoChanges = ChangesOf(<<>>, {}, {}, {}, {})
      BY DEF NoChanges, ChangesOf
    <3> HIDE DEF late
    <3> QED
      BY <3>2, <3>3, KeysReplaced DEF Late
  <2>3. late.dropKey = LateDrops(ch) /\ late.addKey = LateAdds(ch)
    BY <2>2 DEF Late, ChangesOf
  <2>4. rest = Early(ch)
    <3>1. rest = [ch EXCEPT !.dropKey = dropKey \ late.dropKey, !.addKey = ch.addKey \ late.addKey]
      BY DEF IsChanges, ChangesOf
    <3>2. dropKey \ late.dropKey = EarlyDrops(ch)
      BY <2>3 DEF EarlyDrops, LateDrops
    <3>3. ch.addKey \ late.addKey = EarlyAdds(ch)
      BY <2>3 DEF EarlyAdds, LateAdds
    <3> HIDE DEF dropKey, late, rest
    <3>4. rest = WithKeys(ch, EarlyAdds(ch), EarlyDrops(ch))
      BY <3>1, <3>2, <3>3 DEF WithKeys
    <3> QED
      BY <3>4, KeysReplaced DEF IsChanges, Early
  <2> QED
    BY <2>1, <2>2, <2>4
<1>2. ASSUME Early(ch) = NoChanges PROVE Late(ch) = NoChanges
  <2>1. ch.add = <<>> /\ ch.modify = {}
    BY <1>2 DEF NoChanges, Early, ChangesOf
  <2>2. Touched(ch) = {}
    BY <2>1 DEF Touched
  <2>3. LateAdds(ch) = {} /\ LateDrops(ch) = {}
    BY <2>2 DEF Refs, LateAdds, LateDrops
  <2> QED
    BY <2>3 DEF NoChanges, Late, ChangesOf
<1>3. Clauses(Late(ch)) \in Seq({Late(ch)})
  <2>1. \A c : <<c>> \in Seq({c}) /\ <<>> \in Seq({c})
    OBVIOUS
  <2> QED
    BY <2>1 DEF Clauses
<1>4. CASE Early(ch) = NoChanges
  BY <1>1, <1>2, <1>4 DEF Clauses
<1>5. CASE Early(ch) # NoChanges
  <2>1. RenderDDL(ch) = <<Early(ch)>> \o Clauses(Late(ch))
    BY <1>1, <1>5 DEF Clauses
  <2> DEFINE S == {Early(ch), Late(ch)}
  <2>2. Clauses(Late(ch)) \in Seq(S) /\ <<Early(ch)>> \in Seq(S) /\ Len(<<Early(ch)>>) = 1
    BY <1>3
  <2> HIDE DEF S
  <2>3. /\ Head(<<Early(ch)>> \o Clauses(Late(ch))) = Early(ch)
        /\ Tail(<<Early(ch)>> \o Clauses(Late(ch))) = Clauses(Late(ch))
    BY <2>2
  <2> QED
    BY <1>5, <2>1, <2>3
<1> QED
  BY <1>4, <1>5

\* A structure of the source and one of the destination, and what is seen of
\* them.
Pair(src, dst, ignore, s, v) ==
  IsStruct(src) /\ IsStruct(dst) /\ VisibleFacts(src, ignore, s) /\ VisibleFacts(dst, ignore, v)

PlanFacts(s, v, defaults, ch) ==
  /\ IsChanges(ch)
  /\ ch.dropCol = Names(v) \ Names(s)
  /\ ch.addKey = {k \in s.keys : k.cols \notin KeySeqs(v)}
  /\ ch.dropKey = {k \in v.keys : k.cols \notin KeySeqs(s)}
  /\ ch.modify = {Col(s, n) : n \in Modified(s, v, defaults)}
  /\ AddNames(ch) = Names(s) \ Names(v) /\ NewNames(ch) = Modified(s, v, defaults)
  /\ Touched(ch) = Added(s, v) \cup Modified(s, v, defaults)
  /\ Added(s, v) = {} => ch.add = <<>>
  /\ \A i \in DOMAIN ch.add : ch.add[i].after \in Names(s) \cup {First}
  /\ StmtOK(s.cols, Early(ch)) /\ StmtOK(s.cols, Late(ch))

LEMMA NoAdds ==
  ASSUME NEW ss
  PROVE  PlannedAdds(ss, <<>>)
  BY DEF PlannedAdds

LEMMA NotEmpty ==
  ASSUME NEW S, NEW q \in Seq(S), q # <<>>
  PROVE  1 \in DOMAIN q
  OBVIOUS

LEMMA PlanIs ==
  ASSUME NEW src, NEW dst, NEW ignore, NEW s, NEW v, Pair(src, dst, ignore, s, v), NEW defaults
  PROVE  PlanFacts(s, v, defaults, Changes(s, v, defaults))
<1> DEFINE ch == Changes(s, v, defaults)
<1>1. /\ Listed(s.cols) /\ Names(s) = NamesOf(s.cols) /\ \A n : Col(s, n) = ColOf(s.cols, n)
      /\ KeysOf(s.keys, Names(s))
  BY DEF Pair, VisibleFacts
<1>2. /\ ch = [add |-> AddedAfter(s, v), modify |-> {Col(s, n) : n \in Modified(s, v, defaults)},
               dropCol |-> Names(v) \ Names(s), addKey  |-> {k \in s.keys : k.cols \notin KeySeqs(v)},
               dropKey |-> {k \in v.keys : k.cols \notin KeySeqs(s)}]
      /\ ch.add = AddedAfter(s, v) /\ ch.dropCol = Names(v) \ Names(s)
      /\ ch.addKey = {k \in s.keys : k.cols \notin KeySeqs(v)}
      /\ ch.dropKey = {k \in v.keys : k.cols \notin KeySeqs(s)}
      /\ ch.modify = {Col(s, n) : n \in Modified(s, v, defaults)}
  BY DEF Changes
<1> HIDE DEF ch
<1>3. IsChanges(ch)
  BY <1>2 DEF IsChanges, ChangesOf
<1>4. AddedAfter(s, v) = AtPositions([i \in DOMAIN s.cols |-> Position(s.cols, i)],
                                     {i \in DOMAIN s.cols : s.cols[i].name \in Added(s, v)})
  BY DEF AddedAfter, Position
<1>5. AddedFromFacts(s.cols, Added(s, v), ch.add)
  BY <1>1, <1>2, <1>4, AddedFrom
<1>6. PlannedAdds(s.cols, ch.add) /\ ch.add \in Seq(Addition)
  BY <1>5 DEF AddedFromFacts, PlannedAdds
<1>7. AddNames(ch) = Names(s) \ Names(v)
  <2>1. {ch.add[i].col : i \in DOMAIN ch.add} = {c \in ToSet(s.cols) : c.name \in Added(s, v)}
    BY <1>5 DEF AddedFromFacts
  <2>2. AddNames(ch) = {c.name : c \in {ch.add[i].col : i \in DOMAIN ch.add}}
    BY DEF AddNames
  <2>3. Names(s) = {c.name : c \in ToSet(s.cols)}
    BY <1>1, NamesListed DEF Listed
  <2> QED
    BY <2>1, <2>2, <2>3 DEF Added
<1>8. NewNames(ch) = Modified(s, v, defaults)
  <2>1. \A n \in Modified(s, v, defaults) : Col(s, n).name = n
    BY <1>1, ColOfIs DEF Modified
  <2> QED
    BY <1>2, <2>1 DEF NewNames
<1>9. Touched(ch) = Added(s, v) \cup Modified(s, v, defaults)
  <2>1. Touched(ch) = NewNames(ch) \cup AddNames(ch)
    BY DEF Touched, NewNames, AddNames
  <2> QED
    BY <1>7, <1>8, <2>1 DEF Added
<1>10. ASSUME Added(s, v) = {} PROVE ch.add = <<>>
  <2>1. \A i \in DOMAIN ch.add : FALSE
    BY <1>7, <1>10 DEF Added, AddNames
  <2> QED
    BY <1>6, <2>1, NotEmpty
<1>11. \A i \in DOMAIN ch.add : ch.add[i].after \in Names(s) \cup {First}
  BY <1>1, <1>6 DEF PlannedAdds, Follows
<1>12. ch.modify \subseteq ToSet(s.cols)
  BY <1>1, <1>2, ColOfIs DEF Modified
<1>13. \A k \in ch.addKey : k \in Key /\ k.cols # <<>>
  BY <1>1, <1>2 DEF KeysOf
<1>14. StmtOK(s.cols, Early(ch))
  BY <1>6, <1>12, <1>13 DEF StmtOK, Early, ChangesOf, EarlyAdds
<1>15. StmtOK(s.cols, Late(ch))
  BY <1>13, NoAdds DEF StmtOK, Late, ChangesOf, LateAdds
<1>16. PlanFacts(s, v, defaults, ch)
  BY <1>2, <1>3, <1>7, <1>8, <1>9, <1>10, <1>11, <1>14, <1>15 DEF PlanFacts
<1> QED
  BY <1>16 DEF ch

LEMMA StatementFields ==
  ASSUME NEW ch
  PROVE  /\ Early(ch).add = ch.add /\ Early(ch).modify = ch.modify /\ Early(ch).dropCol = ch.dropCol
         /\ Early(ch).addKey = EarlyAdds(ch) /\ Early(ch).dropKey = EarlyDrops(ch)
         /\ Late(ch).add = <<>> /\ Late(ch).modify = {} /\ Late(ch).dropCol = {}
         /\ Late(ch).addKey = LateAdds(ch) /\ Late(ch).dropKey = LateDrops(ch)
         /\ AddNames(Early(ch)) = AddNames(ch) /\ NewNames(Early(ch)) = NewNames(ch)
         /\ AddNames(Late(ch)) = {} /\ NewNames(Late(ch)) = {}
  BY DEF Early, Late, ChangesOf, AddNames, NewNames

\* Two definitions of a column that are no different.
LEMMA SameColumn ==
  ASSUME NEW c \in Column, c.gen = Plain, NEW defaults
  PROVE  ~ColDiffers(c, c, defaults)
  BY DEF ColDiffers

\* A column the statements leave alone stays as it is, but one of a time pair
\* becomes NOT NULL in a new primary key.
Left(sc, vc, ec) == ec = vc \/ (TimePair(sc, vc) /\ ec = [vc EXCEPT !.null = FALSE])

LEMMA LeftIs ==
  ASSUME NEW sc, NEW vc \in Column, NEW ec, Left(sc, vc, ec), NEW defaults
  PROVE  /\ ec.auto = vc.auto /\ (IsTime(ec) <=> IsTime(vc))
         /\ ~ColDiffers(sc, vc, defaults) => ~ColDiffers(sc, ec, defaults)
<1>1. ec.auto = vc.auto /\ ec.def = vc.def
  BY DEF Left, Column
<1>2. (IsTime(ec) <=> IsTime(vc)) /\ (TimePair(sc, ec) <=> TimePair(sc, vc))
  BY <1>1 DEF IsTime, TimePair
<1> QED
  BY <1>1, <1>2 DEF Left, ColDiffers

\* No column of a time type is AUTO_INCREMENT.
LEMMA AutoNotTime ==
  ASSUME NEW d, IsStruct(d), NEW ignore, NEW v, VisibleFacts(d, ignore, v),
         NEW n \in Names(v), Col(v, n).auto
  PROVE  ~IsTime(Col(v, n))
<1>1. Col(v, n) = Col(d, n) /\ n \in Names(d)
  BY DEF VisibleFacts
<1>2. Col(d, n) \in ToSet(d.cols)
  <2>1. Listed(d.cols) /\ Names(d) = NamesOf(d.cols) /\ Col(d, n) = ColOf(d.cols, n)
    BY StructIs
  <2> QED
    BY <1>1, <2>1, ColOfIs
<1> QED
  BY <1>1, <1>2 DEF IsStruct, Impossible

\* The first statement of a repair, as the server takes it.
FirstFacts(s, v, d, ignore, defaults, ch, e) ==
  /\ Names(e) = (Names(d) \ ch.dropCol) \cup Names(s)
  /\ \A n \in Names(s) : IF n \in Touched(ch) THEN Col(e, n) = Col(s, n)
                                              ELSE Left(Col(s, n), Col(v, n), Col(e, n))
  /\ \A n \in Primary(e.keys) \cap Names(s) : ~Col(s, n).null
  /\ {k \in e.keys : ~Refs(k, ignore)}
       = {k \in v.keys : ToSet(k.cols) \subseteq Names(s) /\ k \notin EarlyDrops(ch)} \cup EarlyAdds(ch)

LEMMA FirstIs ==
  ASSUME NEW src, NEW d, NEW ignore, NEW s, NEW v, Pair(src, d, ignore, s, v), NEW defaults,
         NEW ch, PlanFacts(s, v, defaults, ch), NoKeyShrinks(s, v), PrimaryNotNull(s, d),
         NEW e, AlteredFacts(s.cols, d, Early(ch), e)
  PROVE  FirstFacts(s, v, d, ignore, defaults, ch, e)
<1> DEFINE keys == KeysAfter(d, Early(ch))
<1>1. /\ e.keys = keys /\ Names(e) = (Names(d) \ ch.dropCol) \cup AddNames(ch)
      /\ \A n \in Names(e) : Col(e, n) = Kept(Defined(s.cols, d, Early(ch), n), keys)
  BY StatementFields DEF AlteredFacts
<1>2. /\ Names(s) = Names(src) \ ignore /\ Names(v) = Names(d) \ ignore
      /\ s.keys \subseteq src.keys /\ v.keys = {k \in d.keys : ~Refs(k, ignore)}
      /\ KeysOf(s.keys, Names(s)) /\ KeysOf(v.keys, Names(v))
      /\ \A n \in Names(s) : Col(s, n) = Col(src, n)
      /\ \A n \in Names(v) : Col(v, n) = Col(d, n)
      /\ \A n : Col(s, n) = ColOf(s.cols, n)
  BY DEF Pair, VisibleFacts
<1>3. ch.dropCol = Names(v) \ Names(s) /\ AddNames(ch) = Names(s) \ Names(v)
      /\ NewNames(ch) = Modified(s, v, defaults) /\ Touched(ch) = AddNames(ch) \cup NewNames(ch)
  BY DEF PlanFacts, Added
<1>4. Names(e) = (Names(d) \ ch.dropCol) \cup Names(s)
  BY <1>1, <1>2, <1>3
<1>5. /\ IsStruct(src) /\ IsStruct(d)
      /\ \A n \in Names(src) : Col(src, n) \in Column /\ Col(src, n).name = n
      /\ \A n \in Names(d) : Col(d, n) \in Column /\ Col(d, n).name = n
      /\ \A n \in Primary(src.keys) : n \in Names(src) /\ ~Col(src, n).null
      /\ KeysOf(d.keys, Names(d))
  BY KeysAre DEF Pair
<1>6. ASSUME NEW n \in Primary(keys) \cap Names(s) PROVE ~Col(s, n).null
  <2>1. PICK k \in keys : k.primary /\ n \in ToSet(k.cols)
    BY <1>6 DEF Primary
  <2>2. CASE k \in Early(ch).addKey
    <3>1. k \in s.keys
      BY <2>2, StatementFields DEF EarlyAdds, PlanFacts
    <3>2. n \in Primary(src.keys)
      BY <1>2, <2>1, <3>1 DEF Primary
    <3> QED
      BY <1>2, <1>5, <3>2
  <2>3. CASE k \in KeptKeys(d, Early(ch))
    <3>1. PICK l \in d.keys : k = Shrunk(l, ch.dropCol)
      BY <2>3, StatementFields DEF KeptKeys
    <3>2. k.primary = l.primary /\ ToSet(k.cols) = ToSet(l.cols) \ ch.dropCol
      BY <1>5, <3>1, ShrunkIs DEF KeysOf
    <3> QED
      BY <1>6, <2>1, <3>2 DEF PrimaryNotNull
  <2> QED
    BY <2>1, <2>2, <2>3 DEF KeysAfter
<1>7. ASSUME NEW n \in Names(s) PROVE IF n \in Touched(ch) THEN Col(e, n) = Col(s, n)
                                       ELSE Left(Col(s, n), Col(v, n), Col(e, n))
  <2> DEFINE raw == Defined(s.cols, d, Early(ch), n)
  <2>1. Col(e, n) = Kept(raw, keys)
    BY <1>1, <1>4
  <2>2. raw = (IF n \in Touched(ch) THEN Col(s, n) ELSE Col(d, n))
    BY <1>2, <1>3, StatementFields DEF Defined
  <2> HIDE DEF raw, keys
  <2>3. CASE n \in Touched(ch)
    <3>1. raw \in Column /\ raw.name = n /\ raw = Col(s, n)
      BY <1>2, <1>5, <2>2, <2>3
    <3>2. n \in Primary(keys) => ~raw.null
      BY <1>6, <3>1
    <3> QED
      BY <2>1, <2>3, <3>1, <3>2 DEF Kept, Column
  <2>4. CASE n \notin Touched(ch)
    <3>1. n \in Names(v) /\ n \notin Modified(s, v, defaults)
      BY <1>3, <2>4
    <3>2. raw \in Column /\ raw.name = n /\ raw = Col(v, n)
      BY <1>2, <1>5, <2>2, <2>4, <3>1
    <3>3. TimePair(Col(s, n), Col(v, n)) \/ Col(s, n).null = Col(v, n).null
      BY <3>1 DEF Modified, ColDiffers
    <3>4. n \in Primary(keys) => ~raw.null \/ TimePair(Col(s, n), raw)
      BY <1>6, <3>2, <3>3
    <3>5. Kept(raw, keys) = raw \/ (n \in Primary(keys) /\ Kept(raw, keys) = [raw EXCEPT !.null = FALSE])
      BY <3>2 DEF Kept, Column
    <3>6. ~raw.null => [raw EXCEPT !.null = FALSE] = raw
      BY <3>2 DEF Column
    <3> QED
      BY <2>1, <2>4, <3>2, <3>4, <3>5, <3>6 DEF Left
  <2> QED
    BY <2>3, <2>4
<1>8. {k \in keys : ~Refs(k, ignore)}
        = {k \in v.keys : ToSet(k.cols) \subseteq Names(s) /\ k \notin EarlyDrops(ch)} \cup EarlyAdds(ch)
  <2>1. ASSUME NEW k \in keys, ~Refs(k, ignore), k \notin EarlyAdds(ch)
        PROVE  k \in v.keys /\ ToSet(k.cols) \subseteq Names(s) /\ k \notin EarlyDrops(ch)
    <3>1. PICK l \in d.keys \ EarlyDrops(ch) : ~(ToSet(l.cols) \subseteq ch.dropCol) /\ k = Shrunk(l, ch.dropCol)
      BY <2>1, StatementFields DEF KeptKeys, KeysAfter
    <3>2. ToSet(k.cols) = ToSet(l.cols) \ ch.dropCol /\ (~Refs(l, ch.dropCol) => k = l)
      BY <1>5, <3>1, ShrunkIs DEF KeysOf
    <3>3. ch.dropCol \cap ignore = {}
      BY <1>2, <1>3
    <3>4. l \in v.keys
      BY <1>2, <2>1, <3>2, <3>3 DEF Refs
    <3>5. ToSet(l.cols) \subseteq Names(v)
      BY <1>2, <3>4 DEF KeysOf
    <3>6. ToSet(l.cols) \subseteq Names(s)
      BY <1>3, <3>1, <3>4, <3>5 DEF NoKeyShrinks, Refs
    <3>7. ~Refs(l, ch.dropCol)
      BY <1>3, <3>6 DEF Refs
    <3> QED
      BY <3>1, <3>2, <3>4, <3>6, <3>7
  <2>2. ASSUME NEW k \in v.keys, ToSet(k.cols) \subseteq Names(s), k \notin EarlyDrops(ch)
        PROVE  k \in keys /\ ~Refs(k, ignore)
    <3>1. k \in d.keys /\ ~Refs(k, ignore)
      BY <1>2
    <3>2. ~Refs(k, ch.dropCol)
      BY <1>3, <2>2 DEF Refs
    <3>3. k \in KeptKeys(d, Early(ch))
      BY <1>5, <2>2, <3>1, <3>2, KeptKeysAre, StatementFields
    <3> QED
      BY <3>1, <3>3 DEF KeysAfter
  <2>3. ASSUME NEW k \in EarlyAdds(ch) PROVE k \in keys /\ ~Refs(k, ignore)
    <3>1. k \in s.keys
      BY DEF EarlyAdds, PlanFacts
    <3>2. ToSet(k.cols) \subseteq Names(s)
      BY <1>2, <3>1 DEF KeysOf
    <3>3. ~Refs(k, ignore)
      BY <1>2, <3>2 DEF Refs
    <3> QED
      BY <3>3, StatementFields DEF KeysAfter
  <2> HIDE DEF keys
  <2> QED
    BY <2>1, <2>2, <2>3
<1> QED
  BY <1>1, <1>4, <1>6, <1>7, <1>8 DEF FirstFacts

\* What is left to do after the first statement.
RestFacts(src, e, ignore, s, w, defaults, ch) ==
  /\ Names(w) = Names(s)
  /\ \A n \in Names(s) : ~ColDiffers(Col(s, n), Col(w, n), defaults)
  /\ Changes(s, w, defaults) = Late(ch)
  /\ NoKeyShrinks(s, w) /\ PrimaryNotNull(s, e) /\ ~Refused(s, w, defaults)

LEMMA RestIs ==
  ASSUME NEW src, NEW d, NEW ignore, NEW s, NEW v, Pair(src, d, ignore, s, v), NEW defaults,
         NEW ch, PlanFacts(s, v, defaults, ch), NoKeyShrinks(s, v), PrimaryNotNull(s, d),
         ~Refused(s, v, defaults),
         NEW e, FirstFacts(s, v, d, ignore, defaults, ch, e), NEW w, Pair(src, e, ignore, s, w)
  PROVE  RestFacts(src, e, ignore, s, w, defaults, ch)
<1>1. /\ Names(s) = Names(src) \ ignore /\ Names(v) = Names(d) \ ignore /\ Names(w) = Names(e) \ ignore
      /\ w.keys = {k \in e.keys : ~Refs(k, ignore)}
      /\ KeysOf(s.keys, Names(s)) /\ KeysOf(v.keys, Names(v)) /\ KeysOf(w.keys, Names(w))
      /\ \A n \in Names(s) : Col(s, n) = Col(src, n)
      /\ \A n \in Names(w) : Col(w, n) = Col(e, n)
  BY DEF Pair, VisibleFacts
<1>2. /\ ch.dropCol = Names(v) \ Names(s)
      /\ ch.addKey = {k \in s.keys : k.cols \notin KeySeqs(v)}
      /\ ch.dropKey = {k \in v.keys : k.cols \notin KeySeqs(s)}
      /\ Touched(ch) = Added(s, v) \cup Modified(s, v, defaults)
  BY DEF PlanFacts
<1>3. Names(w) = Names(s)
  BY <1>1, <1>2 DEF FirstFacts
<1>4. \A n \in Names(src) : Col(src, n) \in Column
  BY KeysAre DEF Pair
<1>5. ASSUME NEW n \in Names(s) PROVE ~ColDiffers(Col(s, n), Col(w, n), defaults)
  <2>1. IF n \in Touched(ch) THEN Col(w, n) = Col(s, n) ELSE Left(Col(s, n), Col(v, n), Col(w, n))
    BY <1>1, <1>3 DEF FirstFacts
  <2>2. CASE n \in Touched(ch)
    <3>1. Col(s, n).gen = Plain /\ Col(s, n) \in Column
      BY <1>1, <1>2, <1>4, <2>2 DEF Refused, Addable
    <3> QED
      BY <2>1, <2>2, <3>1, SameColumn
  <2>3. CASE n \notin Touched(ch)
    <3>1. n \in Names(v) /\ ~ColDiffers(Col(s, n), Col(v, n), defaults)
      BY <1>2, <2>3 DEF Added, Modified
    <3>2. Col(v, n) \in Column
      BY <1>1, <3>1, KeysAre DEF Pair, VisibleFacts
    <3> QED
      BY <2>1, <2>3, <3>1, <3>2, LeftIs
  <2> QED
    BY <2>2, <2>3
<1>6. Added(s, w) = {} /\ Modified(s, w, defaults) = {}
  BY <1>3, <1>5 DEF Added, Modified
<1>7. w.keys = {k \in v.keys : ToSet(k.cols) \subseteq Names(s) /\ k \notin EarlyDrops(ch)} \cup EarlyAdds(ch)
  BY <1>1 DEF FirstFacts
<1>8. EarlyAdds(ch) \subseteq s.keys
  BY <1>2 DEF EarlyAdds
<1>9. {k \in w.keys : k.cols \notin KeySeqs(s)} = LateDrops(ch)
  <2>1. ASSUME NEW k \in w.keys, k.cols \notin KeySeqs(s) PROVE k \in LateDrops(ch)
    <3>1. k \in v.keys /\ ToSet(k.cols) \subseteq Names(s) /\ k \notin EarlyDrops(ch)
      BY <1>7, <1>8, <2>1 DEF KeySeqs
    <3>2. ~Refs(k, ch.dropCol) /\ k \in ch.dropKey
      BY <1>2, <2>1, <3>1 DEF Refs
    <3> QED
      BY <3>1, <3>2 DEF EarlyDrops, LateDrops
  <2>2. ASSUME NEW k \in LateDrops(ch) PROVE k \in w.keys /\ k.cols \notin KeySeqs(s)
    <3>1. k \in v.keys /\ k.cols \notin KeySeqs(s) /\ ~Refs(k, ch.dropCol) /\ k \notin EarlyDrops(ch)
      BY <1>2 DEF LateDrops, EarlyDrops
    <3>2. ToSet(k.cols) \subseteq Names(s)
      BY <1>1, <1>2, <3>1 DEF Refs, KeysOf
    <3> QED
      BY <1>7, <3>1, <3>2
  <2> QED
    BY <2>1, <2>2
<1>10. {k \in s.keys : k.cols \notin KeySeqs(w)} = LateAdds(ch)
  <2>1. ASSUME NEW k \in s.keys, k.cols \notin KeySeqs(w) PROVE k \in LateAdds(ch)
    <3>1. k \notin EarlyAdds(ch)
      BY <1>7, <2>1 DEF KeySeqs
    <3>2. ASSUME k.cols \in KeySeqs(v) PROVE FALSE
      <4>1. PICK l \in v.keys : l.cols = k.cols
        BY <3>2 DEF KeySeqs
      <4>2. ToSet(l.cols) \subseteq Names(s) /\ l.cols \in KeySeqs(s)
        BY <1>1, <4>1 DEF KeysOf, KeySeqs
      <4>3. l \in w.keys
        BY <1>2, <1>7, <4>1, <4>2 DEF EarlyDrops
      <4> QED
        BY <2>1, <4>1, <4>3 DEF KeySeqs
    <3> QED
      BY <1>2, <3>1, <3>2 DEF EarlyAdds, LateAdds
  <2>2. ASSUME NEW k \in LateAdds(ch) PROVE k \in s.keys /\ k.cols \notin KeySeqs(w)
    <3>1. k \in s.keys /\ k.cols \notin KeySeqs(v) /\ Refs(k, Touched(ch))
      BY <1>2 DEF LateAdds
    <3>2. ASSUME NEW l \in w.keys, l.cols = k.cols PROVE FALSE
      <4>1. l \notin v.keys
        BY <3>1, <3>2 DEF KeySeqs
      <4>2. ~Refs(l, Touched(ch))
        BY <1>7, <4>1 DEF EarlyAdds
      <4> QED
        BY <3>1, <3>2, <4>2 DEF Refs
    <3> QED
      BY <3>1, <3>2 DEF KeySeqs
  <2> QED
    BY <2>1, <2>2
<1>11. Changes(s, w, defaults) = Late(ch)
  <2>1. PlanFacts(s, w, defaults, Changes(s, w, defaults))
    BY PlanIs
  <2> DEFINE more == Changes(s, w, defaults)
  <2> HIDE DEF more
  <2>2. more.add = <<>> /\ more.modify = {} /\ more.dropCol = {}
    BY <1>3, <1>6, <2>1 DEF PlanFacts, more
  <2>3. more.addKey = LateAdds(ch) /\ more.dropKey = LateDrops(ch)
    BY <1>9, <1>10, <2>1 DEF PlanFacts, more
  <2>4. more = ChangesOf(more.add, more.modify, more.dropCol, more.addKey, more.dropKey)
    BY <2>1 DEF PlanFacts, IsChanges, more
  <2>5. more = Late(ch)
    BY <2>2, <2>3, <2>4 DEF Late
  <2> QED
    BY <2>5 DEF more
<1>12. NoKeyShrinks(s, w)
  BY <1>1, <1>3 DEF NoKeyShrinks, KeysOf
<1>13. PrimaryNotNull(s, e)
  BY DEF PrimaryNotNull, FirstFacts, Primary
<1>14. ~Refused(s, w, defaults)
  BY <1>6 DEF Refused
<1> QED
  BY <1>3, <1>5, <1>11, <1>12, <1>13, <1>14 DEF RestFacts

\* Nothing more is put off.
LEMMA LateAlone ==
  ASSUME NEW ch
  PROVE  IsChanges(Late(ch)) /\ Early(Late(ch)) = Late(ch) /\ Late(Late(ch)) = NoChanges
         /\ RenderDDL(Late(ch)) = Clauses(Late(ch))
<1> DEFINE late == Late(ch)
<1>1. /\ late.add = <<>> /\ late.modify = {} /\ late.dropCol = {}
      /\ late.addKey = LateAdds(ch) /\ late.dropKey = LateDrops(ch)
  BY StatementFields
<1>2. late = ChangesOf(late.add, late.modify, late.dropCol, late.addKey, late.dropKey)
  BY <1>1 DEF Late
<1> HIDE DEF late
<1>3. Touched(late) = {}
  BY <1>1 DEF Touched
<1>4. /\ EarlyAdds(late) = late.addKey /\ EarlyDrops(late) = late.dropKey
      /\ LateAdds(late) = {} /\ LateDrops(late) = {}
  BY <1>1, <1>3 DEF EarlyAdds, EarlyDrops, LateAdds, LateDrops, Refs
<1>5. IsChanges(late) /\ Early(late) = late
  BY <1>2, <1>4 DEF IsChanges, Early
<1>6. Late(late) = NoChanges
  BY <1>4 DEF Late, NoChanges, ChangesOf
<1>7. Clauses(NoChanges) = <<>> /\ \A c : <<c>> \o <<>> = <<c>>
  BY DEF Clauses
<1>8. RenderDDL(late) = Clauses(late)
  BY <1>5, <1>6, <1>7, RenderIs DEF Clauses
<1> QED
  BY <1>5, <1>6, <1>8 DEF late

\* RenderDDL of DiffStructure renders no statement for two structures only if
\* they have the same keys and the same columns, ignored ones aside, and each
\* column's definitions agree, or are DATETIME on one side and TIMESTAMP on
\* the other: of those colDiffers compares nothing.
THEOREM NothingLeft ==
  ASSUME NEW src, NEW d, NEW ignore, NEW s, NEW v, Pair(src, d, ignore, s, v), NEW defaults,
         RenderDDL(Changes(s, v, defaults)) = <<>>
  PROVE  Aligned(s, v, defaults)
<1> DEFINE ch == Changes(s, v, defaults)
<1>1. PlanFacts(s, v, defaults, ch)
  BY PlanIs
<1> HIDE DEF ch
<1>2. IsChanges(ch)
  BY <1>1 DEF PlanFacts
<1>3. Early(ch) = NoChanges
  <2>1. Clauses(Late(ch)) \in Seq({Late(ch)})
    <3>1. \A c : <<c>> \in Seq({c}) /\ <<>> \in Seq({c})
      OBVIOUS
    <3> QED
      BY <3>1 DEF Clauses
  <2>2. <<Early(ch)>> \o Clauses(Late(ch)) # <<>>
    <3>1. <<Early(ch)>> \in Seq({Early(ch), Late(ch)}) /\ Clauses(Late(ch)) \in Seq({Early(ch), Late(ch)})
      BY <2>1
    <3>2. Len(<<Early(ch)>> \o Clauses(Late(ch))) = 1 + Len(Clauses(Late(ch))) /\ Len(Clauses(Late(ch))) \in Nat
      BY <3>1
    <3> QED
      BY <3>2
  <2> QED
    BY <1>2, <2>2, RenderIs DEF ch
<1>4. ch.add = <<>> /\ ch.modify = {} /\ ch.dropCol = {} /\ EarlyAdds(ch) = {} /\ EarlyDrops(ch) = {}
  BY <1>3, StatementFields DEF NoChanges
<1>5. AddNames(ch) = {} /\ NewNames(ch) = {}
  BY <1>4 DEF AddNames, NewNames
<1>6. Touched(ch) = {}
  BY <1>1, <1>5 DEF PlanFacts, Added
<1>7. ch.addKey = {} /\ ch.dropKey = {}
  BY <1>4, <1>6 DEF EarlyAdds, EarlyDrops, Refs
<1>8. Names(s) = Names(v)
  BY <1>1, <1>4, <1>5 DEF PlanFacts
<1>9. KeySeqs(s) = KeySeqs(v)
  BY <1>1, <1>7 DEF PlanFacts, KeySeqs
<1>10. ASSUME NEW n \in Names(s)
       PROVE  LET sc == Col(s, n)
                  dc == Col(v, n)
              IN  \/ TimePair(sc, dc)
                  \/ /\ dc = [sc EXCEPT !.coll = dc.coll] /\ sc.gen # Hidden
                     /\ sc.coll = dc.coll \/ DefaultCollationsMatch(sc, dc, defaults)
  <2> DEFINE sc == Col(s, n)
             dc == Col(v, n)
  <2>1. ~ColDiffers(sc, dc, defaults)
    BY <1>1, <1>5, <1>8 DEF PlanFacts, Modified
  <2>2. sc \in Column /\ dc \in Column /\ sc.name = dc.name
    BY <1>8, KeysAre DEF Pair, VisibleFacts
  <2> SUFFICES ASSUME ~TimePair(sc, dc)
               PROVE  /\ dc = [sc EXCEPT !.coll = dc.coll] /\ sc.gen # Hidden
                      /\ sc.coll = dc.coll \/ DefaultCollationsMatch(sc, dc, defaults)
    OBVIOUS
  <2> HIDE DEF sc, dc
  <2>3. sc.def = dc.def /\ sc.null = dc.null /\ sc.auto = dc.auto
    BY <2>1 DEF ColDiffers
  <2>4. sc.gen = dc.gen /\ sc.gen # Hidden
    <3>1. CASE sc.gen = Plain
      BY <2>1, <3>1 DEF ColDiffers, Plain, Hidden
    <3>2. CASE sc.gen # Plain
      BY <2>1, <3>2 DEF ColDiffers, GenExprDiffers
    <3> QED
      BY <3>1, <3>2
  <2>5. sc.coll = dc.coll \/ DefaultCollationsMatch(sc, dc, defaults)
    BY <2>1 DEF ColDiffers
  <2>6. dc = [sc EXCEPT !.coll = dc.coll]
    BY <2>2, <2>3, <2>4 DEF Column
  <2> QED
    BY <2>4, <2>5, <2>6
<1> QED
  BY <1>8, <1>9, <1>10 DEF Aligned

\* Nothing has to be done to a table created like the source's.
LEMMA CreatedClean ==
  ASSUME NEW src, NEW ignore, NEW s, VisibleFacts(src, ignore, s), IsStruct(src),
         \A c \in ToSet(s.cols) : c.gen = Plain,
         NEW e, CreatedFacts(src, s, e), IsStruct(e), NEW w, VisibleFacts(e, ignore, w), NEW defaults
  PROVE  ~Refused(s, w, defaults) /\ RenderDDL(Changes(s, w, defaults)) = <<>>
<1>1. /\ Names(s) = Names(src) \ ignore /\ Names(w) = Names(e) \ ignore /\ Names(e) = Names(s)
      /\ w.keys = {k \in e.keys : ~Refs(k, ignore)} /\ s.keys = {k \in src.keys : ~Refs(k, ignore)}
      /\ e.keys = s.keys
      /\ \A n \in Names(s) : Col(s, n) = Col(src, n) /\ Col(e, n) = Col(src, n)
      /\ \A n \in Names(w) : Col(w, n) = Col(e, n)
  BY DEF VisibleFacts, CreatedFacts
<1>2. Names(w) = Names(s) /\ w.keys = s.keys
  BY <1>1
<1>3. ASSUME NEW n \in Names(s) PROVE Col(w, n) = Col(s, n) /\ Col(s, n) \in Column /\ Col(s, n).gen = Plain
  <2>1. Col(w, n) = Col(s, n) /\ Col(s, n) \in Column
    BY <1>1, KeysAre
  <2>2. Col(s, n) \in ToSet(s.cols)
    <3>1. Listed(s.cols) /\ n \in NamesOf(s.cols) /\ Col(s, n) = ColOf(s.cols, n)
      BY DEF VisibleFacts
    <3> QED
      BY <3>1, ColOfIs
  <2> QED
    BY <2>1, <2>2
<1>4. Added(s, w) = {} /\ Modified(s, w, defaults) = {}
  BY <1>2, <1>3, SameColumn DEF Added, Modified
<1>5. ~Refused(s, w, defaults)
  BY <1>4 DEF Refused
<1> DEFINE ch == Changes(s, w, defaults)
<1>6. PlanFacts(s, w, defaults, ch)
  BY PlanIs DEF Pair
<1> HIDE DEF ch
<1>7. ch.add = <<>> /\ ch.modify = {} /\ ch.dropCol = {} /\ ch.addKey = {} /\ ch.dropKey = {}
  BY <1>2, <1>4, <1>6 DEF PlanFacts, KeySeqs
<1>8. EarlyAdds(ch) = {} /\ EarlyDrops(ch) = {}
  BY <1>7 DEF EarlyAdds, EarlyDrops
<1>9. Early(ch) = NoChanges
  BY <1>7, <1>8 DEF Early, NoChanges, ChangesOf
<1>10. RenderDDL(ch) = <<>>
  BY <1>6, <1>9, RenderIs DEF PlanFacts
<1> QED
  BY <1>5, <1>10 DEF ch

-----------------------------------------------------------------------------
(***************************************************************************)
(* Structures that can be repaired.                                        *)
(***************************************************************************)
AllSeen(s, ignore) == (\A k \in s.keys : ~Refs(k, ignore)) /\ ~(Names(s) \subseteq ignore)

Mends(src, d, ignore, s, v, defaults) ==
  AllSeen(src, ignore) /\ AllSeen(d, ignore) /\ Repairable(s, v, defaults)

LEMMA SeenWhole ==
  ASSUME NEW src, NEW d, NEW ignore, NEW s, NEW v, Pair(src, d, ignore, s, v),
         AllSeen(src, ignore), AllSeen(d, ignore)
  PROVE  /\ s.keys = src.keys /\ v.keys = d.keys /\ Names(s) # {}
         /\ PrimaryNotNull(s, v) <=> PrimaryNotNull(s, d)
  BY DEF Pair, VisibleFacts, AllSeen, PrimaryNotNull

LEMMA BeforeIs ==
  ASSUME NEW s, NEW m, NEW n
  PROVE  Before(s, m, n) <=> Ord(s.cols, m, n)
  BY DEF Before, Ord

\* The order of the columns in sight, and of all.
LEMMA AgreeIs ==
  ASSUME NEW src, NEW d, NEW ignore, NEW s, NEW v, Pair(src, d, ignore, s, v)
  PROVE  OrderAgrees(s, v) <=> Agree(s.cols, d.cols)
<1>1. /\ Names(s) = NamesOf(s.cols) /\ Names(s) = Names(src) \ ignore
      /\ Names(v) = NamesOf(v.cols) /\ Names(v) = Names(d) \ ignore /\ Names(d) = NamesOf(d.cols)
      /\ \A m, n \in Names(v) : Ord(v.cols, m, n) <=> Ord(d.cols, m, n)
  BY StructIs DEF Pair, VisibleFacts
<1>2. Names(s) \cap Names(v) = NamesOf(s.cols) \cap NamesOf(d.cols)
  BY <1>1
<1> QED
  BY <1>1, <1>2, BeforeIs DEF OrderAgrees, Agree

\* The first statement RenderDDL renders for two structures that can be
\* repaired is one the server accepts ...
THEOREM FirstAccepted ==
  ASSUME NEW src, NEW d, NEW ignore, NEW s, NEW v, Pair(src, d, ignore, s, v), NEW defaults,
         Mends(src, d, ignore, s, v, defaults)
  PROVE  ~Rejected(d, Early(Changes(s, v, defaults)))
<1> DEFINE ch == Changes(s, v, defaults)
           stmt == Early(ch)
           e == Altered(d, stmt)
<1>1. PlanFacts(s, v, defaults, ch)
  BY PlanIs
<1>2. PrimaryStays(s, v, defaults) <=>
        ~\E p \in v.keys, q \in ch.addKey :
           p.primary /\ q.primary /\ (p \notin ch.dropKey \/ (Refs(p, Touched(ch)) /\ ~Refs(q, Touched(ch))))
  BY DEF PrimaryStays
<1> HIDE DEF ch
<1>3. /\ stmt.add = ch.add /\ stmt.modify = ch.modify /\ stmt.dropCol = ch.dropCol
      /\ stmt.addKey = EarlyAdds(ch) /\ stmt.dropKey = EarlyDrops(ch)
      /\ AddNames(stmt) = AddNames(ch) /\ NewNames(stmt) = NewNames(ch)
  BY StatementFields
<1> HIDE DEF stmt
<1>4. /\ Names(s) = Names(src) \ ignore /\ Names(v) = Names(d) \ ignore
      /\ s.keys = src.keys /\ v.keys = d.keys /\ Names(s) # {} /\ PrimaryNotNull(s, d)
      /\ KeysOf(s.keys, Names(s)) /\ KeysOf(v.keys, Names(v))
      /\ \A n \in Names(s) : Col(s, n) = Col(src, n)
      /\ \A n \in Names(v) : Col(v, n) = Col(d, n)
  <2>1. AllSeen(src, ignore) /\ AllSeen(d, ignore) /\ PrimaryNotNull(s, v)
    BY DEF Mends, Repairable
  <2>2. s.keys = src.keys /\ v.keys = d.keys /\ Names(s) # {} /\ PrimaryNotNull(s, d)
    BY <2>1, SeenWhole
  <2> QED
    BY <2>2 DEF Pair, VisibleFacts
<1>5. /\ ch.dropCol = Names(v) \ Names(s) /\ AddNames(ch) = Names(s) \ Names(v)
      /\ NewNames(ch) = Modified(s, v, defaults)
      /\ ch.addKey = {k \in s.keys : k.cols \notin KeySeqs(v)}
      /\ ch.dropKey = {k \in v.keys : k.cols \notin KeySeqs(s)}
      /\ Touched(ch) = Added(s, v) \cup Modified(s, v, defaults)
      /\ \A i \in DOMAIN ch.add : ch.add[i].after \in Names(s) \cup {First}
  BY <1>1 DEF PlanFacts
<1>6. EarlyAdds(ch) \subseteq s.keys /\ EarlyDrops(ch) \subseteq v.keys
  BY <1>5 DEF EarlyAdds, EarlyDrops
<1>7. (Names(d) \ stmt.dropCol) \cup AddNames(stmt) = (Names(d) \ ch.dropCol) \cup Names(s)
  BY <1>3, <1>4, <1>5
<1>8. ASSUME NEW k \in KeptKeys(d, stmt)
      PROVE  \E l \in d.keys \ EarlyDrops(ch) :
               /\ ~(ToSet(l.cols) \subseteq ch.dropCol) /\ k = Shrunk(l, ch.dropCol)
               /\ k.primary = l.primary /\ ToSet(k.cols) = ToSet(l.cols) \ ch.dropCol
  <2>1. PICK l \in d.keys \ EarlyDrops(ch) : ~(ToSet(l.cols) \subseteq ch.dropCol) /\ k = Shrunk(l, ch.dropCol)
    BY <1>3 DEF KeptKeys
  <2>2. l \in Key
    BY <1>4 DEF KeysOf
  <2> QED
    BY <2>1, <2>2, ShrunkIs
<1>9. \A k \in KeysAfter(d, stmt) : ToSet(k.cols) \subseteq (Names(d) \ ch.dropCol) \cup Names(s)
  BY <1>3, <1>4, <1>6, <1>8 DEF KeysOf, KeysAfter
<1>10. ASSUME NEW k \in KeptKeys(d, stmt), NEW q \in EarlyAdds(ch), k.primary, q.primary PROVE FALSE
  <2>1. PICK l \in d.keys \ EarlyDrops(ch) :
               /\ ~(ToSet(l.cols) \subseteq ch.dropCol)
               /\ k.primary = l.primary
    BY <1>8
  <2>2. q \in ch.addKey /\ ~Refs(q, Touched(ch))
    BY DEF EarlyAdds
  <2>3. l \in ch.dropKey /\ ~Refs(l, Touched(ch))
    BY <1>2, <1>4, <1>10, <2>1, <2>2 DEF Mends, Repairable
  <2>4. Refs(l, ch.dropCol)
    BY <2>1, <2>3 DEF EarlyDrops
  <2>5. ToSet(l.cols) \cap Names(s) = {}
    BY <1>4, <1>5, <2>1, <2>4 DEF NoKeyShrinks, Refs, Mends, Repairable
  <2> QED
    BY <1>4, <1>5, <2>1, <2>5 DEF KeysOf
<1>11. \A k, l \in KeysAfter(d, stmt) : k.primary /\ l.primary => k = l
  <2>1. \A k, l \in KeptKeys(d, stmt) : k.primary /\ l.primary => k = l
    <3>1. \A k, l \in d.keys : k.primary /\ l.primary => k = l
      BY <1>4 DEF KeysOf
    <3> QED
      BY <1>8, <3>1
  <2>2. \A k, l \in EarlyAdds(ch) : k.primary /\ l.primary => k = l
    BY <1>4, <1>6 DEF KeysOf
  <2> QED
    BY <1>3, <1>10, <2>1, <2>2 DEF KeysAfter
<1>12. Acceptable(d, stmt)
  <2>1. stmt.dropKey \subseteq d.keys /\ AddNames(stmt) \cap Names(d) = {}
    BY <1>3, <1>4, <1>5, <1>6
  <2>2. stmt.dropCol \cup NewNames(stmt) \subseteq Names(d)
    BY <1>3, <1>4, <1>5 DEF Modified
  <2> QED
    BY <1>3, <1>5, <1>7, <1>9, <1>11, <2>1, <2>2 DEF Acceptable
<1>13. AlteredFacts(s.cols, d, stmt, e)
  BY <1>1, <1>12, AlteredIs DEF stmt, PlanFacts, Pair, VisibleFacts
<1>14. FirstFacts(s, v, d, ignore, defaults, ch, e)
  BY <1>1, <1>4, <1>13, FirstIs DEF stmt, Mends, Repairable
<1> HIDE DEF e
<1>15. /\ Names(e) = (Names(d) \ ch.dropCol) \cup Names(s)
       /\ \A n \in Names(s) : IF n \in Touched(ch) THEN Col(e, n) = Col(s, n)
                                                   ELSE Left(Col(s, n), Col(v, n), Col(e, n))
       /\ {k \in e.keys : ~Refs(k, ignore)}
            = {k \in v.keys : ToSet(k.cols) \subseteq Names(s) /\ k \notin EarlyDrops(ch)} \cup EarlyAdds(ch)
  BY <1>14 DEF FirstFacts
<1>16. Listed(e.cols) /\ Names(e) = NamesOf(e.cols) /\ \A n : Col(e, n) = ColOf(e.cols, n)
  BY <1>13 DEF AlteredFacts, Names, NamesOf, Col, ColOf
<1>17. e.cols # <<>>
  BY <1>4, <1>15, <1>16 DEF NamesOf
<1>18. ASSUME NEW n \in Names(s), Col(s, n).auto
       PROVE  \E k \in e.keys : Head(k.cols) = n
  <2>1. PICK ks \in KeySeqs(s) \cap KeySeqs(v) : Head(ks) = n
    BY <1>18 DEF Mends, Repairable, AutoIsKeyed
  <2>2. PICK k \in v.keys, l \in s.keys : k.cols = ks /\ l.cols = ks
    BY <2>1 DEF KeySeqs
  <2>3. ToSet(k.cols) \subseteq Names(s) /\ k \notin EarlyDrops(ch)
    BY <1>4, <1>5, <2>2 DEF EarlyDrops, KeysOf, KeySeqs
  <2> QED
    BY <1>15, <2>1, <2>2, <2>3
<1>19. ASSUME NEW n \in Names(e), n \notin Names(s), Col(e, n).auto PROVE FALSE
  <2>1. n \in Names(d) /\ n \in ignore
    BY <1>4, <1>5, <1>15, <1>19
  <2>2. n \notin NewNames(stmt) \cup AddNames(stmt)
    BY <1>3, <1>5, <1>19 DEF Modified
  <2>3. Col(e, n) = Kept(Col(d, n), e.keys)
    BY <1>13, <2>2 DEF AlteredFacts, Defined
  <2>4. Col(d, n) \in Column /\ Col(d, n).name = n /\ Col(d, n) \in ToSet(d.cols) /\ IsStruct(d)
    <3>1. Listed(d.cols) /\ Names(d) = NamesOf(d.cols) /\ Col(d, n) = ColOf(d.cols, n) /\ IsStruct(d)
      BY StructIs DEF Pair
    <3> QED
      BY <2>1, <3>1, ColOfIs, KeysAre
  <2>5. Col(d, n).auto
    BY <1>19, <2>3, <2>4 DEF Kept, Column
  <2>6. PICK k \in d.keys : Head(k.cols) = n
    BY <2>4, <2>5 DEF IsStruct, Impossible
  <2>7. k.cols \in Seq(ColumnNames) /\ k.cols # <<>>
    BY <1>4 DEF KeysOf
  <2>8. 1 \in DOMAIN k.cols /\ Head(k.cols) = k.cols[1]
    BY <2>7, NotEmpty
  <2>9. n \in ToSet(k.cols)
    BY <2>6, <2>8 DEF ToSet
  <2> QED
    BY <2>1, <2>9 DEF Refs, Mends, AllSeen
<1>20. ASSUME NEW c \in ToSet(e.cols), c.auto
       PROVE  ~IsTime(c) /\ \E k \in e.keys : Head(k.cols) = c.name
  <2>1. c.name \in Names(e) /\ Col(e, c.name) = c
    BY <1>16, ColOfIs, NamesListed DEF Listed
  <2>2. c.name \in Names(s)
    BY <1>19, <1>20, <2>1
  <2>3. Col(s, c.name).auto /\ ~IsTime(c)
    <3>1. CASE c.name \in Touched(ch)
      <4>1. Col(s, c.name) = c
        BY <1>15, <2>1, <2>2, <3>1
      <4> QED
        BY <1>20, <2>2, <4>1, AutoNotTime DEF Pair
    <3>2. CASE c.name \notin Touched(ch)
      <4>1. c.name \in Names(v) /\ c.name \notin Modified(s, v, defaults)
        BY <1>5, <2>2, <3>2 DEF Added
      <4>2. Left(Col(s, c.name), Col(v, c.name), c) /\ Col(v, c.name) \in Column
        BY <1>15, <2>1, <2>2, <3>2, <4>1, KeysAre DEF Pair, VisibleFacts
      <4>3. Col(v, c.name).auto /\ (IsTime(c) <=> IsTime(Col(v, c.name)))
        BY <1>20, <4>2, LeftIs
      <4>4. ~IsTime(Col(v, c.name))
        BY <4>1, <4>3, AutoNotTime DEF Pair
      <4>5. ~TimePair(Col(s, c.name), Col(v, c.name))
        BY <4>4 DEF TimePair
      <4>6. Col(s, c.name).auto = Col(v, c.name).auto
        BY <2>2, <4>1, <4>5 DEF Modified, ColDiffers
      <4> QED
        BY <4>3, <4>4, <4>6
    <3> QED
      BY <3>1, <3>2
  <2> QED
    BY <1>18, <2>2, <2>3
<1>21. ~Impossible(e)
  BY Zenon, <1>17, <1>20 DEF Impossible
<1> QED
  BY <1>12, <1>21, RejectedIs DEF e, stmt, ch

\* A statement that is not rejected makes a structure.
LEMMA AlteredStruct ==
  ASSUME NEW ss, Listed(ss), NEW d, IsStruct(d), NEW stmt, StmtOK(ss, stmt), ~Rejected(d, stmt)
  PROVE  IsStruct(Altered(d, stmt)) /\ AlteredFacts(ss, d, stmt, Altered(d, stmt))
  BY RejectedIs, AlteredIs DEF AlteredFacts

\* The first statement of a repair leaves the second one to do.
LEMMA Repaired ==
  ASSUME NEW src, NEW d, NEW ignore, NEW s, NEW v, Pair(src, d, ignore, s, v), NEW defaults,
         NoKeyShrinks(s, v), PrimaryNotNull(s, d), ~Refused(s, v, defaults),
         NEW ch, ch = Changes(s, v, defaults), ~Rejected(d, Early(ch)),
         NEW e, e = Altered(d, Early(ch))
  PROVE  /\ IsStruct(e) /\ AlteredFacts(s.cols, d, Early(ch), e)
         /\ FirstFacts(s, v, d, ignore, defaults, ch, e)
         /\ Pair(src, e, ignore, s, Visible(e, ignore))
         /\ RestFacts(src, e, ignore, s, Visible(e, ignore), defaults, ch)
<1>1. PlanFacts(s, v, defaults, ch)
  BY PlanIs
<1>2. IsStruct(e) /\ AlteredFacts(s.cols, d, Early(ch), e)
  BY <1>1, AlteredStruct DEF PlanFacts, Pair, VisibleFacts
<1>3. FirstFacts(s, v, d, ignore, defaults, ch, e)
  BY <1>1, <1>2, FirstIs
<1>4. Pair(src, e, ignore, s, Visible(e, ignore))
  BY <1>2, VisibleIs DEF Pair
<1>5. RestFacts(src, e, ignore, s, Visible(e, ignore), defaults, ch)
  BY <1>1, <1>3, <1>4, RestIs
<1> QED
  BY <1>2, <1>3, <1>4, <1>5

\* ... and, whether or not the second one follows, what it leaves can be
\* repaired again: a plan made then is one the server accepts too.
THEOREM MendsKept ==
  ASSUME NEW src, NEW d, NEW ignore, NEW s, NEW v, Pair(src, d, ignore, s, v), NEW defaults,
         Mends(src, d, ignore, s, v, defaults),
         NEW ch, ch = Changes(s, v, defaults), ~Rejected(d, Early(ch)),
         NEW e, e = Altered(d, Early(ch)), NEW w, w = Visible(e, ignore)
  PROVE  Mends(src, e, ignore, s, w, defaults)
<1>1. PlanFacts(s, v, defaults, ch)
  BY PlanIs
<1>2. /\ s.keys = src.keys /\ v.keys = d.keys /\ Names(s) # {} /\ PrimaryNotNull(s, d)
      /\ NoKeyShrinks(s, v) /\ ~Refused(s, v, defaults)
  BY SeenWhole DEF Mends, Repairable
<1>3. /\ IsStruct(e) /\ AlteredFacts(s.cols, d, Early(ch), e)
      /\ FirstFacts(s, v, d, ignore, defaults, ch, e)
      /\ Pair(src, e, ignore, s, w)
      /\ RestFacts(src, e, ignore, s, w, defaults, ch)
  BY <1>2, Repaired
<1>4. /\ Names(s) = Names(src) \ ignore /\ KeysOf(s.keys, Names(s)) /\ KeysOf(v.keys, Names(v))
      /\ w.keys = {k \in e.keys : ~Refs(k, ignore)}
      /\ v.keys = {k \in d.keys : ~Refs(k, ignore)}
  BY <1>3 DEF Pair, VisibleFacts
<1>5. /\ ch.dropCol = Names(v) \ Names(s)
      /\ ch.addKey = {k \in s.keys : k.cols \notin KeySeqs(v)}
      /\ ch.dropKey = {k \in v.keys : k.cols \notin KeySeqs(s)}
  BY <1>1 DEF PlanFacts
<1>6. /\ Names(w) = Names(s) /\ Changes(s, w, defaults) = Late(ch)
      /\ NoKeyShrinks(s, w) /\ PrimaryNotNull(s, e) /\ ~Refused(s, w, defaults)
  BY <1>3 DEF RestFacts
<1>7. /\ Names(e) = (Names(d) \ ch.dropCol) \cup Names(s)
      /\ w.keys = {k \in v.keys : ToSet(k.cols) \subseteq Names(s) /\ k \notin EarlyDrops(ch)} \cup EarlyAdds(ch)
  BY <1>3, <1>4 DEF FirstFacts
<1>8. AllSeen(e, ignore)
  <2>1. ASSUME NEW k \in e.keys, Refs(k, ignore) PROVE FALSE
    <3>1. k \in KeptKeys(d, Early(ch)) \cup EarlyAdds(ch)
      BY <1>3, StatementFields DEF AlteredFacts, KeysAfter
    <3>2. k \notin EarlyAdds(ch)
      <4>1. k \in EarlyAdds(ch) => k \in s.keys
        BY <1>5 DEF EarlyAdds
      <4> QED
        BY <1>4, <2>1, <4>1 DEF KeysOf, Refs
    <3>3. PICK l \in d.keys : k = Shrunk(l, ch.dropCol)
      BY <3>1, <3>2, StatementFields DEF KeptKeys
    <3>4. ToSet(k.cols) \subseteq ToSet(l.cols)
      <4>1. l \in Key
        BY <1>2, <1>4 DEF KeysOf
      <4> QED
        BY <3>3, <4>1, ShrunkIs
    <3> QED
      BY <1>2, <1>4, <2>1, <3>4 DEF Refs
  <2>2. ~(Names(e) \subseteq ignore)
    BY <1>2, <1>4, <1>7
  <2> QED
    BY <2>1, <2>2 DEF AllSeen
<1>9. OrderAgrees(s, w)
  BY <1>3, AgreeIs DEF AlteredFacts, Mends, Repairable
<1>10. PrimaryStays(s, w, defaults)
  <2>1. Touched(Late(ch)) = {}
    BY DEF Touched, Late, ChangesOf
  <2>2. Late(ch).addKey = LateAdds(ch) /\ Late(ch).dropKey = LateDrops(ch)
    BY StatementFields
  <2>3. ASSUME NEW p \in w.keys, NEW q \in LateAdds(ch), p.primary, q.primary, p \notin LateDrops(ch) PROVE FALSE
    <3>1. q \in s.keys /\ q \in ch.addKey /\ Refs(q, Touched(ch))
      BY <1>5 DEF LateAdds
    <3>2. p \notin EarlyAdds(ch)
      <4>1. p \in EarlyAdds(ch) => p \in s.keys /\ ~Refs(p, Touched(ch))
        BY <1>5 DEF EarlyAdds
      <4> QED
        BY <1>4, <2>3, <3>1, <4>1 DEF KeysOf
    <3>3. p \in v.keys /\ ToSet(p.cols) \subseteq Names(s) /\ p \notin EarlyDrops(ch)
      BY <1>7, <3>2
    <3>4. p \in ch.dropKey
      BY <2>3, <3>1, <3>3 DEF Mends, Repairable, PrimaryStays
    <3>5. ~Refs(p, ch.dropCol)
      BY <1>5, <3>3 DEF Refs
    <3> QED
      BY <2>3, <3>3, <3>4, <3>5 DEF EarlyDrops, LateDrops
  <2>4. \A k : ~Refs(k, {})
    BY DEF Refs
  <2> QED
    BY <1>6, <2>1, <2>2, <2>3, <2>4 DEF PrimaryStays
<1>11. AutoIsKeyed(s, w)
  <2>1. KeySeqs(s) \cap KeySeqs(v) \subseteq KeySeqs(w)
    <3>1. ASSUME NEW k \in v.keys, NEW l \in s.keys, k.cols = l.cols PROVE k \in w.keys
      <4>1. ToSet(k.cols) \subseteq Names(s) /\ k \notin EarlyDrops(ch)
        BY <1>4, <1>5, <3>1 DEF EarlyDrops, KeysOf, KeySeqs
      <4> QED
        BY <1>7, <4>1
    <3> QED
      BY <3>1 DEF KeySeqs
  <2> QED
    BY <2>1 DEF Mends, Repairable, AutoIsKeyed
<1>12. PrimaryNotNull(s, w)
  BY <1>4, <1>6 DEF PrimaryNotNull
<1> QED
  BY <1>6, <1>8, <1>9, <1>10, <1>11, <1>12 DEF Mends, Repairable

\* The server takes the CREATE of a table of which no key is out of sight.
LEMMA CreateAccepted ==
  ASSUME NEW src, IsStruct(src), NEW ignore, AllSeen(src, ignore), NEW s, VisibleFacts(src, ignore, s)
  PROVE  ~Impossible(Created(s))
<1> DEFINE e == Created(s)
<1>1. CreatedFacts(src, s, e)
  BY CreatedIs
<1>2. /\ e.keys = src.keys /\ Names(e) = Names(s) /\ Names(s) # {}
      /\ \A n \in Names(s) : Col(e, n) = Col(src, n) /\ n \in Names(src)
  BY <1>1 DEF CreatedFacts, VisibleFacts, AllSeen
<1>3. Listed(e.cols) /\ Names(e) = NamesOf(e.cols) /\ \A n : Col(e, n) = ColOf(e.cols, n)
  <2>1. Listed(NotNull(s.cols, s.keys))
    BY NotNullIs DEF VisibleFacts, NotNullFacts
  <2> QED
    BY <2>1 DEF Created, Names, NamesOf, Col, ColOf
<1> HIDE DEF e
<1>4. e.cols # <<>>
  BY <1>2, <1>3 DEF NamesOf
<1>5. ASSUME NEW c \in ToSet(e.cols), c.auto
      PROVE  ~IsTime(c) /\ \E k \in e.keys : Head(k.cols) = c.name
  <2>1. c.name \in Names(e) /\ Col(e, c.name) = c
    BY <1>3, ColOfIs, NamesListed DEF Listed
  <2>2. Col(src, c.name) = c /\ c.name \in Names(src)
    BY <1>2, <2>1
  <2>3. c \in ToSet(src.cols)
    <3>1. Listed(src.cols) /\ Names(src) = NamesOf(src.cols) /\ Col(src, c.name) = ColOf(src.cols, c.name)
      BY StructIs
    <3> QED
      BY <2>2, <3>1, ColOfIs
  <2> QED
    BY <1>2, <1>5, <2>3 DEF IsStruct, Impossible
<1> QED
  BY Zenon, <1>4, <1>5 DEF Impossible, e

-----------------------------------------------------------------------------
(***************************************************************************)
(* The types, and what the phases say of the state.                        *)
(***************************************************************************)
StepNames == {"idle", "CREATE", "ALTER", "truncate",
              "probeSource", "probeDestination", "dropTable", "check"}

\* The table being worked on is a record with these fields, whatever its
\* statements.
CurrentOK ==
  current \in [table : Tables \cup {""}, step : StepNames, ddl : {current.ddl}, replanned : BOOLEAN]

\* What the phase says of the table being worked on.
CourseOK ==
  \/ current = Idle
  \/ phase = "apply" /\ current.table \in tables /\ current.step \in {"CREATE", "ALTER", "truncate"}
  \/ /\ phase = "drop" /\ current.table \in extra
     /\ current.step \in {"probeSource", "probeDestination", "dropTable", "check"}

\* What the phase says of the tables listed, planned, left and done.
PhaseOK ==
  /\ phase \in {"listSource", "listDestination"} =>
       extra = {} /\ plans = Nothing /\ compared = Nothing /\ todo = {} /\ results = Nothing
  /\ phase = "listSource" => tables = {}
  /\ phase \in {"compare", "plan"} => todo \subseteq tables /\ results = Nothing
  /\ phase = "apply" => todo \subseteq tables /\ DOMAIN results \subseteq tables
  /\ phase = "drop" => todo \subseteq extra

\* What makes the drops safe.
DropOK ==
  /\ extra \subseteq Tables \ setting.excluded
  /\ setting.filtered \/ setting.named # {} => extra = {}
  /\ phase = "listDestination" => setting.named = {}
  /\ phase \in {"apply", "drop"} => {t \in Tables : db["src"][t] = Absent} \subseteq lacked
  /\ current.step \in {"probeDestination", "dropTable", "check"} => current.table \in lacked

TypeInv == TypeOK /\ CurrentOK /\ CourseOK /\ PhaseOK

-----------------------------------------------------------------------------
(***************************************************************************)
(* What a decision returns.                                                *)
(***************************************************************************)

\* A plan has at most the two statements of RenderDDL.
LEMMA ClausesShort ==
  ASSUME NEW ch
  PROVE  Clauses(ch) \in Seq({ch}) /\ Len(Clauses(ch)) <= 1
<1>1. CASE ch = NoChanges
  BY <1>1 DEF Clauses
<1>2. CASE ch # NoChanges
  <2>1. Clauses(ch) = <<ch>>
    BY <1>2 DEF Clauses
  <2> QED
    BY <2>1
<1> QED
  BY <1>1, <1>2

LEMMA RenderShort ==
  ASSUME NEW ch
  PROVE  Len(RenderDDL(ch)) <= 2
<1> DEFINE dropKey == {k \in ch.dropKey : ~Refs(k, ch.dropCol)}
           late == [NoChanges EXCEPT !.dropKey = {k \in dropKey : Refs(k, Touched(ch))},
                                     !.addKey  = {k \in ch.addKey : Refs(k, Touched(ch))}]
           rest == [ch EXCEPT !.dropKey = dropKey \ late.dropKey, !.addKey = @ \ late.addKey]
<1>1. RenderDDL(ch) = Clauses(rest) \o Clauses(late)
  BY DEF RenderDDL
<1> HIDE DEF late, rest
<1>2. Clauses(rest) \in Seq({rest}) /\ Len(Clauses(rest)) <= 1
  BY ClausesShort
<1>3. Clauses(late) \in Seq({late}) /\ Len(Clauses(late)) <= 1
  BY ClausesShort
<1>4. Clauses(rest) \in Seq({rest, late}) /\ Clauses(late) \in Seq({rest, late})
  BY <1>2, <1>3
<1> QED
  BY <1>1, <1>2, <1>3, <1>4

LEMMA DecideShort ==
  ASSUME NEW t
  PROVE  Len(Decide(t).ddl) <= 2
<1>1. \A mode, ddl : Plan(mode, ddl).ddl = ddl
  BY DEF Plan
<1>2. Len(<<>>) <= 2 /\ \A x : Len(<<x>>) <= 2
  OBVIOUS
<1>3. Len(StructurePlan(t)) <= 2
  BY RenderShort DEF StructurePlan
<1>4. Len(DecideCreate(t).ddl) <= 2
  BY <1>1, <1>2 DEF DecideCreate
<1>5. Len(DecideAlter(t).ddl) <= 2
  BY <1>1, <1>2, <1>3 DEF DecideAlter
<1> QED
  BY <1>1, <1>2, <1>4, <1>5 DEF Decide

LEMMA Picked ==
  ASSUME NEW S, S # {}
  PROVE  Pick(S) \in S
  BY DEF Pick

LEMMA Entered ==
  ASSUME NEW t, NEW x, NEW f
  PROVE  /\ DOMAIN Put(f, t, x) = DOMAIN f \cup {t}
         /\ \A u \in DOMAIN f \cup {t} : Put(f, t, x)[u] = IF u = t THEN x ELSE f[u]
  BY DEF Put

-----------------------------------------------------------------------------
LEMMA TypeInit == Init => TypeInv
<1> SUFFICES ASSUME Init PROVE TypeInv
  OBVIOUS
<1>1. setting \in Settings /\ DOMAIN db = Sides
  BY DatabaseAssumption DEF Init
<1>2. ScopeOK /\ PlansOK /\ ResultsOK /\ OutcomeOK
  BY <1>1, DatabaseAssumption DEF Init, ScopeOK, PlansOK, ResultsOK, OutcomeOK, Nothing
<1>3. CurrentOK /\ CourseOK /\ PhaseOK
  BY DEF Init, CurrentOK, CourseOK, PhaseOK, Idle, StepNames, Nothing
<1> QED
  BY <1>2, <1>3 DEF TypeInv, TypeOK

(***************************************************************************)
(* The steps that actions share.                                           *)
(***************************************************************************)
LEMMA FailsType ==
  ASSUME OutcomeOK, ScopeOK, Fails, UNCHANGED setting
  PROVE  trouble' \in [drifts : 0..setting'.drifts, failures : 0..setting'.failures]
  BY DatabaseAssumption DEF OutcomeOK, ScopeOK, Fails

LEMMA IdleType ==
  /\ Idle.table = "" /\ Idle.step = "idle" /\ Idle.ddl = <<>>
  /\ Idle \in [table : Tables \cup {""}, step : StepNames, ddl : {Idle.ddl}, replanned : BOOLEAN]
  BY DEF Idle, StepNames

LEMMA NobodyType ==
  ASSUME current' = Idle
  PROVE  CurrentOK' /\ CourseOK'
  BY IdleType DEF CurrentOK, CourseOK

LEMMA EndType ==
  ASSUME CurrentOK, NEW code \in 0..3, End(code)
  PROVE  /\ CurrentOK' /\ CourseOK' /\ current' = Idle /\ phase' = "ended"
         /\ exit' \in -1..3 /\ (exit' = -1 <=> phase' # "ended")
<1>1. current' = Idle /\ phase' = "ended" /\ exit' = code
  BY DEF End
<1> QED
  BY <1>1, NobodyType

ApplySteps == {"CREATE", "ALTER", "truncate"}
DropSteps  == {"probeSource", "probeDestination", "dropTable", "check"}

\* Work on a table goes on in the same phase ...
LEMMA MoveType ==
  ASSUME TypeInv, UNCHANGED <<phase, planned, todo, results>>, CurrentOK',
         current'.table = current.table,
         \/ current.step \in ApplySteps /\ current'.step \in ApplySteps
         \/ current.step \in DropSteps /\ current'.step \in DropSteps
  PROVE  PlansOK' /\ ResultsOK' /\ CourseOK' /\ PhaseOK'
<1> USE DEF TypeInv, TypeOK, ApplySteps, DropSteps, planned
<1>1. current # Idle
  BY IdleType
<1>2. PlansOK'
  BY DEF PlansOK
<1>3. ResultsOK'
  BY <1>1 DEF ResultsOK
<1>4. CourseOK'
  BY <1>1 DEF CourseOK
<1> QED
  BY <1>2, <1>3, <1>4 DEF PhaseOK

\* ... or is over.
LEMMA FinishType ==
  ASSUME TypeInv, current.step \in ApplySteps \cup DropSteps, NEW status, Finish(status),
         UNCHANGED <<phase, planned, todo>>
  PROVE  CurrentOK' /\ PlansOK' /\ ResultsOK' /\ CourseOK' /\ PhaseOK'
<1> USE DEF TypeInv, TypeOK, ApplySteps, DropSteps, planned
<1>1. current' = Idle /\ DOMAIN results' = DOMAIN results \cup {current.table}
  BY DEF Finish, Put
<1>2. current # Idle
  BY IdleType
<1>3. CurrentOK' /\ CourseOK'
  BY <1>1, IdleType DEF CurrentOK, CourseOK
<1>4. PlansOK'
  BY DEF PlansOK
<1>5. ResultsOK'
  BY <1>1, <1>2 DEF ResultsOK
<1>6. PhaseOK'
  BY <1>1, <1>2 DEF PhaseOK, CourseOK
<1> QED
  BY <1>3, <1>4, <1>5, <1>6

\* One field of the record changes.
LEMMA Retyped ==
  ASSUME NEW c, NEW d, c \in [table : Tables \cup {""}, step : StepNames, ddl : {d}, replanned : BOOLEAN],
         NEW x
  PROVE  /\ x \in StepNames => /\ [c EXCEPT !.step = x] \in
                                    [table : Tables \cup {""}, step : StepNames, ddl : {d}, replanned : BOOLEAN]
                               /\ [c EXCEPT !.step = x].table = c.table /\ [c EXCEPT !.step = x].step = x
                               /\ [c EXCEPT !.step = x].ddl = c.ddl
         /\ /\ [c EXCEPT !.ddl = x] \in
                 [table : Tables \cup {""}, step : StepNames, ddl : {x}, replanned : BOOLEAN]
            /\ [c EXCEPT !.ddl = x].table = c.table /\ [c EXCEPT !.ddl = x].step = c.step
         /\ x \in BOOLEAN => /\ [c EXCEPT !.replanned = x] \in
                                  [table : Tables \cup {""}, step : StepNames, ddl : {d}, replanned : BOOLEAN]
                             /\ [c EXCEPT !.replanned = x].table = c.table
                             /\ [c EXCEPT !.replanned = x].step = c.step
         /\ x \in Tables => /\ [c EXCEPT !.table = x] \in
                                 [table : Tables \cup {""}, step : StepNames, ddl : {d}, replanned : BOOLEAN]
                            /\ [c EXCEPT !.table = x].table = x
  OBVIOUS

\* The answer to a probe.
LEMMA ProbeType ==
  ASSUME TypeInv, NEW step \in DropSteps, NEW next \in DropSteps, NEW stop, NEW status,
         Probe(step, stop, status, next)
  PROVE  TypeInv'
<1> USE DEF Probe
<1>1. ScopeOK' /\ OutcomeOK'
  <2>1. UNCHANGED trouble \/ Fails
    OBVIOUS
  <2> QED
    BY <2>1, FailsType DEF TypeInv, TypeOK, ScopeOK, OutcomeOK, planned
<1>2. CASE Finish(status) \/ Finish("FAILED")
  BY <1>1, <1>2, FinishType DEF TypeInv, TypeOK
<1>3. CASE current' = [current EXCEPT !.step = next] /\ UNCHANGED results
  <2>1. CurrentOK' /\ current'.table = current.table /\ current'.step = next
    BY <1>3, Retyped DEF TypeInv, CurrentOK, DropSteps, StepNames
  <2> QED
    BY <1>1, <1>3, <2>1, MoveType DEF TypeInv, TypeOK
<1> QED
  BY <1>2, <1>3

-----------------------------------------------------------------------------
LEMMA TypeNext == TypeInv /\ [Next]_vars => TypeInv'
<1> SUFFICES ASSUME TypeInv, [Next]_vars PROVE TypeInv'
  OBVIOUS
<1> USE DatabaseAssumption DEF TypeInv, TypeOK
<1>1. CASE ListSource
  <2> USE <1>1 DEF ListSource
  <2>1. ScopeOK'
    BY DEF ScopeOK, PhaseOK, Bases, End
  <2>2. (UNCHANGED <<current, exit, trouble>> /\ phase' \in {"compare", "listDestination"}) \/ (End(2) /\ Fails)
    OBVIOUS
  <2>3. OutcomeOK'
    BY <2>2, FailsType, EndType DEF OutcomeOK, ScopeOK
  <2>4. CurrentOK' /\ CourseOK'
    <3>1. current' = Idle
      BY <2>2, EndType DEF CourseOK
    <3> QED
      BY <3>1, NobodyType
  <2>5. PlansOK' /\ ResultsOK'
    BY <2>2, EndType DEF PlansOK, PhaseOK, ResultsOK, CourseOK, Nothing
  <2>6. PhaseOK'
    BY DEF PhaseOK, End
  <2> QED
    BY <2>1, <2>3, <2>4, <2>5, <2>6
<1>2. CASE ListDestination
  <2> USE <1>2 DEF ListDestination
  <2>1. ScopeOK'
    BY DEF ScopeOK, PhaseOK, Bases, End, ExtraTables
  <2>2. \/ UNCHANGED <<current, exit, trouble>> /\ phase' = "compare"
        \/ End(3) /\ UNCHANGED trouble
        \/ End(2) /\ Fails
    OBVIOUS
  <2>3. OutcomeOK'
    BY <2>2, FailsType, EndType DEF OutcomeOK, ScopeOK
  <2>4. CurrentOK' /\ CourseOK'
    <3>1. current' = Idle
      BY <2>2, EndType DEF CourseOK
    <3> QED
      BY <3>1, NobodyType
  <2>5. PlansOK' /\ ResultsOK'
    BY <2>2, EndType DEF PlansOK, PhaseOK, ResultsOK, CourseOK, Nothing
  <2>6. PhaseOK'
    BY DEF PhaseOK, End
  <2> QED
    BY <2>1, <2>3, <2>4, <2>5, <2>6
<1>3. CASE CompareTable
  <2> USE <1>3 DEF CompareTable
  <2>1. Pick(todo) \in todo
    BY Picked
  <2>2. todo \subseteq tables /\ results = Nothing /\ current = Idle
    BY DEF PhaseOK, CourseOK
  <2>3. ScopeOK'
    BY <2>1, <2>2 DEF ScopeOK, planned
  <2>4. OutcomeOK'
    BY <2>1, FailsType DEF OutcomeOK, ScopeOK
  <2>5. CurrentOK' /\ CourseOK'
    BY <2>2, IdleType DEF CurrentOK, CourseOK
  <2>6. PlansOK'
    <3>1. PICK b \in BOOLEAN : compared' = Put(compared, Pick(todo), b)
      BY DEF CanCompare
    <3> QED
      BY <2>1, <2>2, <3>1 DEF PlansOK, Put
  <2>7. ResultsOK'
    BY <2>2 DEF ResultsOK, Nothing
  <2>8. PhaseOK'
    BY <2>2 DEF PhaseOK
  <2> QED
    BY <2>3, <2>4, <2>5, <2>6, <2>7, <2>8
<1>4. CASE NothingToCompare
  BY <1>4 DEF NothingToCompare, planned, ScopeOK, PlansOK, ResultsOK, OutcomeOK, CurrentOK, CourseOK, PhaseOK
<1>5. CASE PlanTable
  <2> USE <1>5 DEF PlanTable
  <2>1. Pick(todo) \in todo /\ Pick(todo) \in tables
    BY Picked DEF PhaseOK
  <2>2. ScopeOK'
    BY DEF ScopeOK
  <2>3. OutcomeOK'
    BY FailsType DEF OutcomeOK, ScopeOK
  <2>4. CurrentOK' /\ CourseOK' /\ PhaseOK'
    BY DEF CurrentOK, CourseOK, PhaseOK
  <2>5. PlansOK'
    <3>1. PICK d : plans' = Put(plans, Pick(todo), d) /\ Len(d.ddl) <= 2
      BY DecideShort DEF Plan
    <3> QED
      BY <2>1, <3>1 DEF PlansOK, Put
  <2>6. ResultsOK'
    BY DEF ResultsOK
  <2> QED
    BY <2>2, <2>3, <2>4, <2>5, <2>6
<1>6. CASE Confirm
  <2> USE <1>6 DEF Confirm, planned
  <2>1. current = Idle /\ results = Nothing
    BY DEF CourseOK, PhaseOK
  <2>2. \/ End(3) /\ UNCHANGED <<todo, results>>
        \/ End(0) /\ UNCHANGED <<todo, results>>
        \/ /\ phase' = "apply" /\ todo' = {t \in tables : plans[t].mode # "SKIP"}
           /\ results' = [t \in {u \in tables : plans[u].mode = "SKIP"} |-> "SKIPPED"]
           /\ UNCHANGED <<exit, current>>
    OBVIOUS
  <2>3. CurrentOK' /\ CourseOK' /\ current' = Idle
    <3>1. current' = Idle
      BY <2>1, <2>2, EndType
    <3> QED
      BY <3>1, NobodyType
  <2>4. OutcomeOK'
    BY <2>2, EndType DEF OutcomeOK
  <2>5. ScopeOK' /\ PlansOK' /\ PhaseOK'
    BY <2>2, EndType DEF ScopeOK, PlansOK, PhaseOK
  <2>6. ResultsOK'
    BY <2>1, <2>2, <2>3 DEF ResultsOK, Nothing
  <2> QED
    BY <2>3, <2>4, <2>5, <2>6
<1>7. CASE StartTable
  <2> USE <1>7 DEF StartTable
  <2> DEFINE t == Pick(todo)
  <2>1. t \in todo /\ t \in tables /\ current = Idle /\ phase = "apply"
    BY Picked DEF PhaseOK
  <2>2. ScopeOK'
    BY DEF ScopeOK, planned
  <2>3. OutcomeOK'
    BY FailsType DEF OutcomeOK, ScopeOK
  <2>4. PlansOK'
    BY DEF PlansOK, planned
  <2>5. todo' = todo \ {t} /\ UNCHANGED <<phase, tables, extra>>
    BY DEF planned
  <2>6. CASE \E x : results' = Put(results, t, x) /\ UNCHANGED current
    <3>1. DOMAIN results' = DOMAIN results \cup {t} /\ current' = Idle
      BY <2>1, <2>6 DEF Put
    <3>2. CurrentOK' /\ CourseOK'
      BY <3>1, NobodyType
    <3>3. ResultsOK' /\ PhaseOK'
      BY <2>1, <2>5, <3>1 DEF ResultsOK, PhaseOK, ScopeOK
    <3> QED
      BY <2>2, <2>3, <2>4, <3>2, <3>3
  <2>7. CASE /\ UNCHANGED results
             /\ \E d \in {Decide(t)} : /\ d.mode \in {"CREATE", "ALTER"}
                                       /\ current' = [Idle EXCEPT !.table = t, !.step = d.mode, !.ddl = d.ddl]
    <3>1. PICK d \in {Decide(t)} :
            /\ d.mode \in {"CREATE", "ALTER"}
            /\ current' = [Idle EXCEPT !.table = t, !.step = d.mode, !.ddl = d.ddl]
      BY <2>7
    <3>2. t \in Tables
      BY <2>1 DEF ScopeOK
    <3>3. CurrentOK' /\ current'.table = t /\ current'.step = d.mode
      <4> DEFINE c == [Idle EXCEPT !.table = t]
                 e == [c EXCEPT !.step = d.mode]
                 Records(s) == [table : Tables \cup {""}, step : StepNames, ddl : {s}, replanned : BOOLEAN]
      <4>1. current' = [e EXCEPT !.ddl = d.ddl]
        BY <3>1
      <4>2. c \in Records(Idle.ddl) /\ c.table = t
        BY <3>2, IdleType, Retyped
      <4> HIDE DEF c
      <4>3. e \in Records(Idle.ddl) /\ e.table = t /\ e.step = d.mode
        <5>1. d.mode \in StepNames
          BY <3>1 DEF StepNames
        <5> QED
          BY <4>2, <5>1, Retyped
      <4> HIDE DEF e
      <4>4. current' \in Records(d.ddl) /\ current'.table = t /\ current'.step = d.mode
        BY <4>1, <4>3, Retyped
      <4> QED
        BY <4>4 DEF CurrentOK
    <3>4. CourseOK'
      BY <2>1, <2>5, <3>1, <3>3 DEF CourseOK
    <3>5. ResultsOK' /\ PhaseOK'
      BY <2>1, <2>5, <2>7, <3>3 DEF ResultsOK, PhaseOK, ScopeOK
    <3> QED
      BY <2>2, <2>3, <2>4, <3>3, <3>4, <3>5
  <2> QED
    BY <2>6, <2>7
<1>8. CASE ExecStatement
  <2> USE <1>8 DEF ExecStatement
  <2>1. CurrentOK' /\ current'.table = current.table /\ current'.step = current.step
    BY Retyped DEF CurrentOK
  <2>2. PlansOK' /\ ResultsOK' /\ CourseOK' /\ PhaseOK'
    BY <2>1, MoveType DEF ApplySteps
  <2>3. ScopeOK' /\ OutcomeOK'
    BY DEF ScopeOK, OutcomeOK, planned, Takes
  <2> QED
    BY <2>1, <2>2, <2>3
<1>9. CASE FailStatement
  <2> USE <1>9 DEF FailStatement
  <2>1. ScopeOK'
    BY DEF ScopeOK, planned, Takes
  <2>2. OutcomeOK'
    BY FailsType DEF OutcomeOK, ScopeOK
  <2>3. CASE Finish("FAILED")
    BY <2>1, <2>2, <2>3, FinishType DEF ApplySteps
  <2>4. CASE current' = [current EXCEPT !.step = "truncate"] /\ UNCHANGED results
    <3>1. CurrentOK' /\ current'.table = current.table /\ current'.step = "truncate"
      BY <2>4, Retyped DEF CurrentOK, StepNames
    <3> QED
      BY <2>1, <2>2, <2>4, <3>1, MoveType DEF ApplySteps
  <2> QED
    BY <2>3, <2>4
<1>10. CASE Replan
  <2> USE <1>10 DEF Replan
  <2>1. ScopeOK'
    BY DEF ScopeOK, planned
  <2>2. OutcomeOK'
    BY FailsType DEF OutcomeOK, ScopeOK
  <2>3. CASE Finish("FAILED")
    BY <2>1, <2>2, <2>3, FinishType DEF ApplySteps
  <2>4. CASE /\ UNCHANGED results
             /\ current' = [current EXCEPT !.step = "ALTER", !.ddl = Remaining(current.table), !.replanned = TRUE]
    <3>1. current' = [[[current EXCEPT !.step = "ALTER"] EXCEPT !.ddl = Remaining(current.table)]
                        EXCEPT !.replanned = TRUE]
      BY <2>4
    <3>2. CurrentOK' /\ current'.table = current.table /\ current'.step = "ALTER"
      BY <3>1, Retyped DEF CurrentOK, StepNames
    <3> QED
      BY <2>1, <2>2, <2>4, <3>2, MoveType DEF ApplySteps
  <2> QED
    BY <2>3, <2>4
<1>11. CASE Converge
  <2>1. ScopeOK' /\ OutcomeOK'
    BY <1>11, FailsType DEF Converge, ScopeOK, OutcomeOK, planned
  <2> QED
    BY <1>11, <2>1, FinishType DEF Converge, ApplySteps
<1>12. CASE StartDrops
  BY <1>12 DEF StartDrops, planned, ScopeOK, PlansOK, ResultsOK, OutcomeOK, CurrentOK, CourseOK, PhaseOK
<1>13. CASE StartDrop
  <2> USE <1>13 DEF StartDrop
  <2>1. Pick(todo) \in todo /\ Pick(todo) \in extra /\ Pick(todo) \in Tables
    BY Picked DEF PhaseOK, ScopeOK
  <2>2. current' = [[Idle EXCEPT !.table = Pick(todo)] EXCEPT !.step = "probeSource"]
    BY DEF FirstProbe
  <2>3. CurrentOK' /\ current'.table = Pick(todo) /\ current'.step = "probeSource"
    <3> DEFINE c == [Idle EXCEPT !.table = Pick(todo)]
               Records(s) == [table : Tables \cup {""}, step : StepNames, ddl : {s}, replanned : BOOLEAN]
    <3>1. c \in Records(Idle.ddl) /\ c.table = Pick(todo)
      BY <2>1, IdleType, Retyped
    <3>2. current' = [c EXCEPT !.step = "probeSource"]
      BY <2>2
    <3> HIDE DEF c
    <3>3. "probeSource" \in StepNames
      BY DEF StepNames
    <3> DEFINE e == [c EXCEPT !.step = "probeSource"]
    <3>4. e \in Records(Idle.ddl) /\ e.table = Pick(todo) /\ e.step = "probeSource"
      BY <3>1, <3>3, Retyped
    <3> HIDE DEF e
    <3>5. current' = e
      BY <3>2 DEF e
    <3> QED
      BY <3>4, <3>5 DEF CurrentOK
  <2>4. CourseOK'
    BY <2>1, <2>3 DEF CourseOK, planned
  <2>5. ScopeOK' /\ PlansOK' /\ OutcomeOK' /\ PhaseOK'
    BY DEF ScopeOK, PlansOK, OutcomeOK, PhaseOK, planned
  <2>6. ResultsOK'
    BY <2>1, <2>3 DEF ResultsOK, planned
  <2> QED
    BY <2>3, <2>4, <2>5, <2>6
<1>14. CASE ProbeSource
  BY <1>14, ProbeType DEF ProbeSource, DropSteps
<1>15. CASE ProbeDestination
  BY <1>15, ProbeType DEF ProbeDestination, DropSteps
<1>16. CASE DropTable
  <2> USE <1>16 DEF DropTable
  <2>1. ScopeOK'
    BY DEF ScopeOK, planned, Takes
  <2>2. OutcomeOK'
    BY FailsType DEF OutcomeOK, ScopeOK
  <2>3. CASE Finish("FAILED")
    BY <2>1, <2>2, <2>3, FinishType DEF DropSteps
  <2>4. CASE current' = [current EXCEPT !.step = "check"] /\ UNCHANGED results
    <3>1. CurrentOK' /\ current'.table = current.table /\ current'.step = "check"
      BY <2>4, Retyped DEF CurrentOK, StepNames
    <3> QED
      BY <2>1, <2>2, <2>4, <3>1, MoveType DEF DropSteps
  <2> QED
    BY <2>3, <2>4
<1>17. CASE CheckDropped
  <2>1. ScopeOK' /\ OutcomeOK'
    BY <1>17, FailsType DEF CheckDropped, ScopeOK, OutcomeOK, planned
  <2> QED
    BY <1>17, <2>1, FinishType DEF CheckDropped, DropSteps
<1>18. CASE Verify
  <2> USE <1>18 DEF Verify
  <2>1. PICK code \in 0..3 : End(code)
    BY DEF ExitCode
  <2>2. CurrentOK' /\ CourseOK' /\ current' = Idle /\ phase' = "ended"
    BY <2>1, EndType
  <2>3. OutcomeOK'
    <3>1. trouble' = trouble \/ Fails
      BY <1>18 DEF Verify
    <3> QED
      BY <2>1, <3>1, EndType, FailsType DEF OutcomeOK
  <2>4. ScopeOK' /\ PlansOK' /\ PhaseOK'
    BY <2>2 DEF ScopeOK, PlansOK, PhaseOK, planned
  <2>5. ResultsOK'
    BY <2>2 DEF ResultsOK, planned
  <2> QED
    BY <2>2, <2>3, <2>4, <2>5
<1>19. CASE Rerun
  <2> USE <1>19 DEF Rerun
  <2>1. current' = Idle
    BY DEF CourseOK
  <2>2. CurrentOK' /\ CourseOK'
    BY <2>1, NobodyType
  <2>3. ScopeOK' /\ OutcomeOK' /\ PhaseOK'
    BY DEF ScopeOK, OutcomeOK, PhaseOK
  <2>4. PlansOK' /\ ResultsOK'
    BY <2>1 DEF PlansOK, ResultsOK, Nothing
  <2> QED
    BY <2>2, <2>3, <2>4
<1>20. CASE Drift
  <2> USE <1>20 DEF Drift, planned
  <2>1. ScopeOK' /\ PlansOK' /\ ResultsOK' /\ CurrentOK' /\ CourseOK' /\ PhaseOK'
    BY DEF ScopeOK, PlansOK, ResultsOK, CurrentOK, CourseOK, PhaseOK
  <2>2. OutcomeOK'
    BY DEF OutcomeOK, ScopeOK
  <2> QED
    BY <2>1, <2>2
<1>21. CASE UNCHANGED vars
  BY <1>21 DEF vars, planned, history, ScopeOK, PlansOK, ResultsOK, OutcomeOK, CurrentOK, CourseOK, PhaseOK
<1> QED
  BY <1>1, <1>2, <1>3, <1>4, <1>5, <1>6, <1>7, <1>8, <1>9, <1>10, <1>11, <1>12, <1>13, <1>14, <1>15,
     <1>16, <1>17, <1>18, <1>19, <1>20, <1>21 DEF Next, Step

THEOREM TypeCorrect == Spec => []TypeOK
<1>1. TypeInv => TypeOK
  BY DEF TypeInv
<1> QED
  BY <1>1, TypeInit, TypeNext, PTL DEF Spec

-----------------------------------------------------------------------------
LEMMA DropInit == Init => DropOK
  BY IdleType DEF Init, DropOK

LEMMA DropNext == TypeInv /\ DropOK /\ [Next]_vars => DropOK'
<1> SUFFICES ASSUME TypeInv, DropOK, [Next]_vars PROVE DropOK'
  OBVIOUS
<1> USE DEF DropOK, TypeInv, TypeOK
\* The stages before the first statement on a table.
<1>1. CASE ListSource \/ ListDestination \/ CompareTable \/ NothingToCompare \/ PlanTable
  <2>1. current.step = "idle" /\ current'.step = "idle" /\ phase' \notin {"apply", "drop"}
    BY <1>1, IdleType
    DEF CourseOK, PhaseOK, End, ListSource, ListDestination, CompareTable, NothingToCompare, PlanTable
  <2>2. UNCHANGED extra \/ (extra' = ExtraTables(tables) /\ setting.named = {})
    BY <1>1 DEF ListSource, ListDestination, CompareTable, NothingToCompare, PlanTable, planned
  <2>3. UNCHANGED setting /\ (phase' = "listDestination" => setting.named = {})
    BY <1>1 DEF End, ListSource, ListDestination, CompareTable, NothingToCompare, PlanTable
  <2> QED
    BY <2>1, <2>2, <2>3 DEF ExtraTables, Bases
<1>2. CASE Confirm
  <2> USE <1>2 DEF Confirm, planned
  <2>1. current.step = "idle" /\ current'.step = "idle"
    BY IdleType DEF CourseOK, End
  <2>2. phase' \in {"apply", "drop"} => lacked' = {t \in Tables : db["src"][t] = Absent}
    BY DEF End
  <2> QED
    BY <2>1, <2>2 DEF End
\* A statement, a plan or the comparison of a table to create or alter.
<1>3. CASE StartTable \/ ExecStatement \/ FailStatement \/ Replan \/ Converge
  <2>1. UNCHANGED <<setting, phase, extra, lacked>> /\ db'["src"] = db["src"]
    BY <1>3 DEF ScopeOK, Sides, StartTable, ExecStatement, FailStatement, Replan, Converge,
                Takes, planned, history
  <2>2. phase = "apply"
    BY <1>3, IdleType DEF CourseOK, StartTable, ExecStatement, FailStatement, Replan, Converge
  <2>3. current'.step \in ApplySteps \cup {"idle"}
    <3>1. CourseOK'
      BY <1>3, TypeNext DEF Next, Step
    <3> QED
      BY <2>1, <2>2, <3>1, IdleType DEF CourseOK, ApplySteps
  <2> QED
    BY <2>1, <2>2, <2>3 DEF ApplySteps
<1>4. CASE StartDrops
  BY <1>4, IdleType DEF StartDrops, planned, history
<1>5. CASE StartDrop
  <2>1. current'.step = "probeSource"
    BY <1>5, IdleType, Retyped DEF StartDrop, FirstProbe
  <2> QED
    BY <1>5, <2>1 DEF StartDrop, planned, history
<1>6. CASE ProbeSource
  <2> USE <1>6 DEF ProbeSource, Probe
  <2>1. UNCHANGED <<setting, phase, extra, lacked, db>> /\ phase = "drop" /\ current.table \in extra
    BY IdleType DEF planned, history, CourseOK
  <2>2. CASE ~There("src") /\ current' = [current EXCEPT !.step = "probeDestination"]
    <3>1. current.table \in lacked
      BY <2>1, <2>2 DEF There
    <3>2. current'.table = current.table
      BY <2>2, Retyped DEF CurrentOK, StepNames
    <3> QED
      BY <2>1, <3>1, <3>2
  <2>3. CASE current' = Idle
    BY <2>1, <2>3, IdleType
  <2> QED
    BY <2>2, <2>3 DEF Finish
<1>7. CASE ProbeDestination \/ DropTable \/ CheckDropped
  <2>1. /\ UNCHANGED <<setting, phase, extra, lacked>> /\ db'["src"] = db["src"] /\ phase = "drop"
        /\ current.step \in {"probeDestination", "dropTable", "check"}
    BY <1>7, IdleType DEF ProbeDestination, Probe, DropTable, CheckDropped, Takes, planned, history,
                          CourseOK, ScopeOK, Sides
  <2>2. current'.table = current.table \/ current' = Idle
    <3>1. \/ current' = [current EXCEPT !.step = "dropTable"] \/ current' = [current EXCEPT !.step = "check"]
          \/ current' = Idle
      BY <1>7 DEF ProbeDestination, Probe, DropTable, CheckDropped, Finish
    <3>2. CASE current' = [current EXCEPT !.step = "dropTable"]
      BY <3>2, Retyped DEF CurrentOK, StepNames
    <3>3. CASE current' = [current EXCEPT !.step = "check"]
      BY <3>3, Retyped DEF CurrentOK, StepNames
    <3> QED
      BY <3>1, <3>2, <3>3
  <2> QED
    BY <2>1, <2>2, IdleType
<1>8. CASE Verify \/ Rerun
  <2>1. current' = Idle /\ phase' \notin {"apply", "drop", "listDestination"} /\ UNCHANGED setting
    BY <1>8 DEF Verify, Rerun, End, CourseOK
  <2>2. extra' \subseteq extra
    BY <1>8 DEF Verify, Rerun, planned
  <2> QED
    BY <2>1, <2>2, IdleType
\* The history variable keeps what another session takes from the source.
<1>9. CASE Drift
  BY <1>9 DEF Drift, planned
<1>10. CASE UNCHANGED vars
  BY <1>10 DEF vars, planned, history
<1> QED
  BY <1>1, <1>2, <1>3, <1>4, <1>5, <1>6, <1>7, <1>8, <1>9, <1>10 DEF Next, Step

\* The run drops a table only if the source was without it at some moment
\* after the confirmation, never an excluded one, and none in a filtered run
\* or beside named tables.
THEOREM DropsCorrect == Spec => DropsOnlyLacked
<1>1. Init => TypeInv /\ DropOK
  BY TypeInit, DropInit
<1>2. TypeInv /\ DropOK /\ [Next]_vars => (TypeInv /\ DropOK)'
  BY TypeNext, DropNext
<1>3. TypeInv /\ DropOK =>
        (current.step = "dropTable" /\ db' # db =>
           /\ current.table \in (lacked \cap extra) \ setting.excluded
           /\ ~setting.filtered /\ setting.named = {})
  BY IdleType DEF TypeInv, CourseOK, DropOK
<1> QED
  BY <1>1, <1>2, <1>3, PTL DEF Spec, DropsOnlyLacked

-----------------------------------------------------------------------------
(***************************************************************************)
(* The structures stay structures, and the statements in hand are those of *)
(* some plan, whatever other sessions do.                                  *)
(***************************************************************************)
IsEntry(x) == x \in {Absent, View} \/ IsStruct(x)

DbOK ==
  /\ DOMAIN db = Sides
  /\ \A e \in Sides : DOMAIN db[e] = Tables /\ \A t \in Tables : IsEntry(db[e][t])

Statements(ss, q) == \E S : q \in Seq(S) /\ \A x \in S : StmtOK(ss, x)

DdlOK ==
  /\ current.step = "ALTER" => \E ss : Listed(ss) /\ Statements(ss, current.ddl)
  /\ current.step = "CREATE" =>
       \/ current.ddl = <<>>
       \/ \E s : IsStruct(s) /\ current.ddl = <<Visible(s, setting.ignore)>>

StructInv == DbOK /\ DdlOK

LEMMA TableIsStruct ==
  ASSUME NEW x, IsEntry(x)
  PROVE  IsTable(x) <=> IsStruct(x)
  BY DatabaseAssumption DEF IsEntry, IsTable, IsStruct

LEMMA StructIsTable ==
  ASSUME NEW x, IsStruct(x)
  PROVE  IsTable(x) /\ x # Absent /\ IsEntry(x)
  BY DatabaseAssumption DEF IsEntry, IsTable, IsStruct

LEMMA BothPair ==
  ASSUME DbOK, NEW t \in Tables, BothThere(t)
  PROVE  Pair(db["src"][t], db["dst"][t], setting.ignore, Seen("src", t), Seen("dst", t))
  BY TableIsStruct, VisibleIs DEF DbOK, BothThere, Seen, Pair, Sides

StructureChanges(t) == Changes(Seen("src", t), Seen("dst", t), setting.defaults)

LEMMA PlanRendered ==
  ASSUME NEW t
  PROVE  StructurePlan(t) = RenderDDL(StructureChanges(t))
  BY DEF StructurePlan, StructureChanges

LEMMA PlanStatements ==
  ASSUME NEW ss, NEW ch, IsChanges(ch), StmtOK(ss, Early(ch)), StmtOK(ss, Late(ch))
  PROVE  Statements(ss, RenderDDL(ch))
<1> DEFINE S == {Early(ch), Late(ch)}
<1>1. \A c \in S : <<c>> \in Seq(S) /\ <<>> \in Seq(S)
  OBVIOUS
<1>2. Clauses(Late(ch)) \in Seq(S) /\ <<Early(ch)>> \in Seq(S) /\ <<>> \in Seq(S)
  BY <1>1 DEF Clauses
<1>3. \A x \in S : StmtOK(ss, x)
  OBVIOUS
<1> HIDE DEF S
<1>4. <<Early(ch)>> \o Clauses(Late(ch)) \in Seq(S)
  BY <1>2
<1>5. RenderDDL(ch) \in Seq(S)
  BY <1>2, <1>4, RenderIs
<1> QED
  BY <1>3, <1>5 DEF Statements

LEMMA PlannedStatements ==
  ASSUME DbOK, NEW t \in Tables, BothThere(t)
  PROVE  Listed(Seen("src", t).cols) /\ Statements(Seen("src", t).cols, StructurePlan(t))
<1>1. Pair(db["src"][t], db["dst"][t], setting.ignore, Seen("src", t), Seen("dst", t))
  BY BothPair
<1>2. PlanFacts(Seen("src", t), Seen("dst", t), setting.defaults, StructureChanges(t))
  BY <1>1, PlanIs DEF StructureChanges
<1>3. Statements(Seen("src", t).cols, RenderDDL(StructureChanges(t)))
  BY <1>2, PlanStatements DEF PlanFacts
<1> QED
  BY <1>1, <1>3, PlanRendered DEF Pair, VisibleFacts

\* What the decision for a table says of the structures.
DecideFacts(t, d) ==
  /\ d.mode \in {"CREATE", "ALTER", "ARGUMENT", "ERROR", "SKIP"}
  /\ d.mode = "CREATE" => /\ ~compared[t] /\ db["dst"][t] = Absent /\ IsTable(db["src"][t])
                          /\ d.ddl = <<Seen("src", t)>> /\ setting.schema
                          /\ \A c \in ToSet(Seen("src", t).cols) : c.gen = Plain
  /\ d.mode \in {"ALTER", "ARGUMENT"} => BothThere(t) /\ ~Refuses(t) /\ setting.schema
  /\ d.mode = "ALTER" => d.ddl = StructurePlan(t)
  /\ d.mode = "ARGUMENT" => setting.filtered
  /\ d.mode = "SKIP" => /\ compared[t]
                        /\ setting.schema => BothThere(t) /\ ~Refuses(t) /\ StructurePlan(t) = <<>>

LEMMA DecideIs ==
  ASSUME NEW t
  PROVE  DecideFacts(t, Decide(t))
<1>1. \A mode, ddl : Plan(mode, ddl).mode = mode /\ Plan(mode, ddl).ddl = ddl
  BY DEF Plan
<1>2. CASE ~compared[t] /\ db["dst"][t] = Absent /\ IsTable(db["src"][t])
  <2>1. Decide(t) = DecideCreate(t)
    BY <1>2 DEF Decide
  <2>2. CASE setting.schema /\ ~setting.filtered /\ \A c \in ToSet(Seen("src", t).cols) : c.gen = Plain
    <3>1. DecideCreate(t) = Plan("CREATE", <<Seen("src", t)>>)
      BY <2>2 DEF DecideCreate
    <3> QED
      BY <1>1, <1>2, <2>1, <2>2, <3>1 DEF DecideFacts
  <2>3. CASE ~(setting.schema /\ ~setting.filtered /\ \A c \in ToSet(Seen("src", t).cols) : c.gen = Plain)
    <3>1. DecideCreate(t) = Plan("ERROR", <<>>)
      BY <2>3 DEF DecideCreate
    <3> QED
      BY <1>1, <2>1, <3>1 DEF DecideFacts
  <2> QED
    BY <2>2, <2>3
<1>3. CASE ~(~compared[t] /\ db["dst"][t] = Absent /\ IsTable(db["src"][t]))
  <2>1. CASE setting.schema /\ ~BothThere(t)
    <3>1. Decide(t) = Plan("ERROR", <<>>)
      BY <1>3, <2>1 DEF Decide
    <3> QED
      BY <1>1, <3>1 DEF DecideFacts
  <2>2. CASE setting.schema /\ BothThere(t) /\ (Refuses(t) \/ StructurePlan(t) # <<>>)
    <3>1. Decide(t) = DecideAlter(t)
      BY <1>3, <2>2 DEF Decide
    <3>2. CASE Refuses(t)
      <4>1. Decide(t) = Plan("ERROR", <<>>)
        BY <3>1, <3>2 DEF DecideAlter
      <4> QED
        BY <1>1, <4>1 DEF DecideFacts
    <3>3. CASE ~Refuses(t) /\ setting.filtered
      <4>1. Decide(t) = Plan("ARGUMENT", <<>>)
        BY <3>1, <3>3 DEF DecideAlter
      <4> QED
        BY <1>1, <2>2, <3>3, <4>1 DEF DecideFacts
    <3>4. CASE ~Refuses(t) /\ ~setting.filtered
      <4>1. Decide(t) = Plan("ALTER", StructurePlan(t))
        BY <3>1, <3>4 DEF DecideAlter
      <4> QED
        BY <1>1, <2>2, <3>4, <4>1 DEF DecideFacts
    <3> QED
      BY <3>2, <3>3, <3>4
  <2>3. CASE ~(setting.schema /\ ~BothThere(t)) /\ ~(setting.schema /\ (Refuses(t) \/ StructurePlan(t) # <<>>))
    <3>1. Decide(t) = Plan(IF compared[t] THEN "SKIP" ELSE "ERROR", <<>>)
      BY <1>3, <2>3 DEF Decide
    <3> QED
      BY <1>1, <2>3, <3>1 DEF DecideFacts
  <2> QED
    BY <2>1, <2>2, <2>3
<1> QED
  BY <1>2, <1>3

\* What a statement makes of a table is a structure.
LEMMA EffectIs ==
  ASSUME TypeInv, StructInv, current.step \in {"CREATE", "ALTER"}, current.ddl # <<>>, Effect # Absent
  PROVE  IsStruct(Effect) /\ current.table \in Tables
<1>1. current.table \in tables /\ tables \subseteq Tables /\ phase = "apply"
  <2>1. current # Idle
    BY IdleType
  <2> QED
    BY <2>1 DEF TypeInv, TypeOK, CourseOK, ScopeOK
<1>2. CASE current.step = "CREATE"
  <2>1. PICK s : IsStruct(s) /\ current.ddl = <<Visible(s, setting.ignore)>>
    BY <1>2 DEF StructInv, DdlOK
  <2>2. Statement = Visible(s, setting.ignore)
    BY <2>1 DEF Statement
  <2>3. Effect = Created(Statement) /\ ~Impossible(Created(Statement))
    BY <1>2 DEF Effect
  <2>4. CreatedFacts(s, Statement, Created(Statement))
    BY <2>1, <2>2, VisibleIs, CreatedIs
  <2> QED
    BY <1>1, <2>3, <2>4 DEF CreatedFacts
<1>3. CASE current.step = "ALTER"
  <2>1. PICK ss : Listed(ss) /\ Statements(ss, current.ddl)
    BY <1>3 DEF StructInv, DdlOK
  <2>2. PICK S : current.ddl \in Seq(S) /\ \A x \in S : StmtOK(ss, x)
    BY <2>1 DEF Statements
  <2>3. Statement \in S
    BY <2>2 DEF Statement
  <2>4. /\ IsTable(db["dst"][current.table]) /\ ~Rejected(db["dst"][current.table], Statement)
        /\ Effect = Altered(db["dst"][current.table], Statement)
    BY <1>3 DEF Effect
  <2>5. IsStruct(db["dst"][current.table])
    BY <1>1, <2>4, TableIsStruct DEF StructInv, DbOK, Sides
  <2> QED
    BY <1>1, <2>1, <2>2, <2>3, <2>4, <2>5, AlteredStruct
<1> QED
  BY <1>2, <1>3

\* One table of the destination changes.
LEMMA TakesIs ==
  ASSUME DbOK, NEW t \in Tables, t = current.table, NEW x, IsEntry(x), Takes(x)
  PROVE  /\ DbOK' /\ db'["dst"][t] = x /\ db'["src"] = db["src"]
         /\ \A u \in Tables \ {t} : db'["dst"][u] = db["dst"][u]
<1>1. "src" \in Sides /\ "dst" \in Sides /\ "src" # "dst"
  BY DEF Sides
<1>2. db' = [db EXCEPT !["dst"][t] = x]
  BY DEF Takes
<1>3. DOMAIN db' = Sides /\ db'["dst"] = [db["dst"] EXCEPT ![t] = x] /\ db'["src"] = db["src"]
  BY <1>1, <1>2 DEF DbOK
<1>4. DOMAIN db["dst"] = Tables
  BY <1>1 DEF DbOK
<1>5. /\ DOMAIN db'["dst"] = Tables /\ db'["dst"][t] = x
      /\ \A u \in Tables \ {t} : db'["dst"][u] = db["dst"][u]
  BY <1>3, <1>4
<1>6. ASSUME NEW e \in Sides, NEW u \in Tables PROVE DOMAIN db'[e] = Tables /\ IsEntry(db'[e][u])
  BY <1>3, <1>5 DEF Sides, DbOK
<1>7. DbOK'
  BY <1>3, <1>6 DEF DbOK
<1> QED
  BY <1>3, <1>5, <1>7

LEMMA SameDb ==
  ASSUME DbOK, UNCHANGED db
  PROVE  DbOK'
  BY DEF DbOK

\* Steps to another part of the work need no statements.
LEMMA OtherStep ==
  ASSUME current'.step \notin {"CREATE", "ALTER"}
  PROVE  DdlOK'
  BY DEF DdlOK

LEMMA StructInit == Init => StructInv
<1> SUFFICES ASSUME Init PROVE StructInv
  OBVIOUS
<1>1. PICK n \in DOMAIN Databases : db \in Databases[n]
  BY DatabaseAssumption DEF Init
<1>2. /\ db \in [Sides -> [Tables -> {db[e][t] : e \in Sides, t \in Tables}]]
      /\ \A e \in Sides, t \in Tables : db[e][t] \in {Absent, View} \/ IsStruct(db[e][t])
  BY <1>1, DatabaseAssumption
<1>3. DbOK
  BY <1>2 DEF DbOK, IsEntry
<1>4. DdlOK
  BY IdleType DEF DdlOK, Init
<1> QED
  BY <1>3, <1>4 DEF StructInv

LEMMA StructNext == TypeInv /\ StructInv /\ [Next]_vars => StructInv'
<1> SUFFICES ASSUME TypeInv, StructInv, [Next]_vars PROVE StructInv'
  OBVIOUS
<1> USE DEF StructInv
<1>1. ASSUME UNCHANGED <<setting, db, current>> PROVE StructInv'
  <2>1. DdlOK'
    BY <1>1 DEF DdlOK
  <2> QED
    BY <1>1, <2>1, SameDb
<1>2. ASSUME UNCHANGED <<setting, db>>, current' = Idle PROVE StructInv'
  BY <1>2, SameDb, OtherStep, IdleType
<1>3. ASSUME NEW code, End(code), UNCHANGED <<setting, db>> PROVE StructInv'
  BY <1>2, <1>3 DEF End
<1>4. ASSUME NEW status, Finish(status), UNCHANGED <<setting, db>> PROVE StructInv'
  BY <1>2, <1>4 DEF Finish
<1>5. CASE ListSource
  BY <1>1, <1>3, <1>5 DEF ListSource
<1>6. CASE ListDestination
  BY <1>1, <1>3, <1>6 DEF ListDestination
<1>7. CASE CompareTable
  BY <1>1, <1>7 DEF CompareTable
<1>8. CASE NothingToCompare
  BY <1>1, <1>8 DEF NothingToCompare
<1>9. CASE PlanTable
  BY <1>1, <1>9 DEF PlanTable
<1>10. CASE Confirm
  BY <1>1, <1>3, <1>10 DEF Confirm, planned
<1>11. CASE StartTable
  <2>1. PICK t : t \in {Pick(todo)} /\ todo # {} /\ UNCHANGED <<setting, db>> /\ phase = "apply"
           /\ \/ \E d \in {Decide(t)} :
                   \/ /\ d.mode \in {"CREATE", "ALTER"}
                      /\ current' = [Idle EXCEPT !.table = t, !.step = d.mode, !.ddl = d.ddl]
                   \/ UNCHANGED current
              \/ UNCHANGED current
    BY <1>11 DEF StartTable
  <2>2. t \in Tables
    BY <2>1, Picked DEF TypeInv, TypeOK, ScopeOK
  <2>3. CASE UNCHANGED current
    BY <1>1, <2>1, <2>3
  <2>4. ASSUME NEW d, d = Decide(t), d.mode \in {"CREATE", "ALTER"},
               current' = [Idle EXCEPT !.table = t, !.step = d.mode, !.ddl = d.ddl]
        PROVE  StructInv'
    <3>1. current'.step = d.mode /\ current'.ddl = d.ddl
      BY <2>4 DEF Idle
    <3>2. DecideFacts(t, d)
      BY <2>4, DecideIs
    <3>3. ASSUME d.mode = "ALTER" PROVE \E ss : Listed(ss) /\ Statements(ss, d.ddl)
      BY <2>2, <3>2, <3>3, PlannedStatements DEF DecideFacts
    <3>4. ASSUME d.mode = "CREATE" PROVE \E s : IsStruct(s) /\ d.ddl = <<Visible(s, setting.ignore)>>
      BY <2>2, <3>2, <3>4, TableIsStruct DEF DecideFacts, Seen, DbOK, Sides
    <3>5. DdlOK'
      BY <2>1, <3>1, <3>3, <3>4 DEF DdlOK
    <3> QED
      BY <2>1, <3>5, SameDb
  <2> QED
    BY <2>1, <2>3, <2>4
<1>12. CASE ExecStatement
  <2>1. /\ current.step \in {"CREATE", "ALTER"} /\ current.ddl # <<>> /\ Effect # Absent
        /\ Takes(Effect) /\ current' = [current EXCEPT !.ddl = Tail(@)] /\ UNCHANGED setting
    BY <1>12 DEF ExecStatement
  <2>2. IsStruct(Effect) /\ current.table \in Tables
    BY <2>1, EffectIs
  <2>3. DbOK'
    BY <2>1, <2>2, TakesIs DEF IsEntry
  <2>4. current'.step = current.step /\ current'.ddl = Tail(current.ddl)
    BY <2>1 DEF TypeInv, CurrentOK
  <2>5. CASE current.step = "CREATE"
    <3>1. PICK s : current.ddl = <<s>>
      BY <2>1, <2>5 DEF DdlOK
    <3>2. Tail(<<s>>) = <<>>
      OBVIOUS
    <3>3. current'.ddl = <<>>
      BY <2>4, <3>1, <3>2
    <3> QED
      BY <2>3, <2>4, <2>5, <3>3 DEF DdlOK
  <2>6. CASE current.step = "ALTER"
    <3>1. PICK ss : Listed(ss) /\ Statements(ss, current.ddl)
      BY <2>6 DEF DdlOK
    <3>2. Statements(ss, Tail(current.ddl))
      BY <2>1, <3>1 DEF Statements
    <3> QED
      BY <2>3, <2>4, <2>6, <3>1, <3>2 DEF DdlOK
  <2> QED
    BY <2>1, <2>5, <2>6
<1>13. CASE FailStatement
  <2>1. /\ current.step \in {"CREATE", "ALTER"} /\ current.ddl # <<>> /\ UNCHANGED setting
        /\ UNCHANGED db \/ (Effect # Absent /\ Takes(Effect))
        /\ \/ current' = [current EXCEPT !.step = "truncate"] \/ Finish("FAILED")
    BY <1>13 DEF FailStatement
  <2>2. DbOK'
    BY <2>1, EffectIs, TakesIs, SameDb DEF IsEntry
  <2>3. current'.step \notin {"CREATE", "ALTER"}
    BY <2>1, IdleType DEF Finish, TypeInv, CurrentOK
  <2> QED
    BY <2>2, <2>3, OtherStep
<1>14. CASE Replan
  <2>1. /\ current.step = "truncate" /\ UNCHANGED <<setting, db>>
        /\ \/ /\ BothThere(current.table)
              /\ current' = [current EXCEPT !.step = "ALTER", !.ddl = Remaining(current.table), !.replanned = TRUE]
           \/ Finish("FAILED")
    BY <1>14 DEF Replan
  <2>2. CASE /\ BothThere(current.table)
             /\ current' = [current EXCEPT !.step = "ALTER", !.ddl = Remaining(current.table),
                                           !.replanned = TRUE]
    <3>1. current'.step = "ALTER" /\ current'.ddl = StructurePlan(current.table)
      BY <2>2 DEF Remaining, TypeInv, CurrentOK
    <3>2. current.table \in Tables
      BY <2>1, IdleType DEF TypeInv, TypeOK, CourseOK, ScopeOK
    <3>3. \E ss : Listed(ss) /\ Statements(ss, current'.ddl)
      BY <2>2, <3>1, <3>2, PlannedStatements
    <3>4. DdlOK'
      BY <3>1, <3>3 DEF DdlOK
    <3> QED
      BY <2>1, <3>4, SameDb
  <2> QED
    BY <1>4, <2>1, <2>2
<1>15. CASE Converge
  BY <1>4, <1>15 DEF Converge
<1>16. CASE StartDrops
  BY <1>1, <1>16 DEF StartDrops
<1>17. CASE StartDrop
  <2>1. current'.step = "probeSource" /\ UNCHANGED db
    BY <1>17 DEF StartDrop, FirstProbe, Idle
  <2> QED
    BY <2>1, SameDb, OtherStep
<1>18. ASSUME NEW step, NEW stop, NEW status, NEW next, next \notin {"CREATE", "ALTER"},
              Probe(step, stop, status, next)
       PROVE  StructInv'
  <2>1. /\ UNCHANGED <<setting, db>>
        /\ \/ Finish(status) \/ Finish("FAILED") \/ current' = [current EXCEPT !.step = next]
    BY <1>18 DEF Probe
  <2>2. CASE current' = [current EXCEPT !.step = next]
    <3>1. current'.step = next
      BY <2>2 DEF TypeInv, CurrentOK
    <3> QED
      BY <1>18, <2>1, <3>1, SameDb, OtherStep
  <2> QED
    BY <1>4, <2>1, <2>2
<1>19. CASE ProbeSource
  BY <1>18, <1>19 DEF ProbeSource
<1>20. CASE ProbeDestination
  BY <1>18, <1>20 DEF ProbeDestination
<1>21. CASE DropTable
  <2>1. /\ current.step = "dropTable" /\ UNCHANGED setting
        /\ \/ Takes(Absent) \/ UNCHANGED db
        /\ \/ current' = [current EXCEPT !.step = "check"] \/ Finish("FAILED")
    BY <1>21 DEF DropTable
  <2>2. current.table \in Tables
    BY <2>1, IdleType DEF TypeInv, TypeOK, CourseOK, ScopeOK
  <2>3. DbOK'
    BY <2>1, <2>2, TakesIs, SameDb DEF IsEntry
  <2>4. current'.step \notin {"CREATE", "ALTER"}
    BY <2>1, IdleType DEF Finish, TypeInv, CurrentOK
  <2> QED
    BY <2>3, <2>4, OtherStep
<1>22. CASE CheckDropped
  BY <1>4, <1>22 DEF CheckDropped
<1>23. CASE Verify
  BY <1>3, <1>23 DEF Verify
<1>24. CASE Rerun
  BY <1>1, <1>24 DEF Rerun
<1>25. CASE Drift
  <2>1. PICK d \in Sides, t \in Tables, x \in Shapes : db' = [db EXCEPT ![d][t] = x]
    BY <1>25 DEF Drift
  <2>2. IsEntry(x) /\ UNCHANGED <<setting, current>>
    BY <1>25, DatabaseAssumption DEF Drift, IsEntry
  <2>3. DOMAIN db' = Sides /\ \A e \in Sides : db'[e] = IF e = d THEN [db[e] EXCEPT ![t] = x] ELSE db[e]
    BY <2>1 DEF DbOK
  <2>4. ASSUME NEW e \in Sides, NEW u \in Tables PROVE DOMAIN db'[e] = Tables /\ IsEntry(db'[e][u])
    <3>1. DOMAIN db[e] = Tables /\ IsEntry(db[e][u])
      BY DEF DbOK
    <3>2. CASE e = d
      BY <2>2, <2>3, <3>1, <3>2
    <3>3. CASE e # d
      BY <2>3, <3>1, <3>3
    <3> QED
      BY <3>2, <3>3
  <2>5. DbOK'
    BY <2>3, <2>4 DEF DbOK
  <2>6. DdlOK'
    BY <2>2 DEF DdlOK
  <2> QED
    BY <2>5, <2>6
<1>26. CASE UNCHANGED vars
  BY <1>1, <1>26 DEF vars
<1> QED
  BY <1>5, <1>6, <1>7, <1>8, <1>9, <1>10, <1>11, <1>12, <1>13, <1>14, <1>15, <1>16, <1>17,
     <1>19, <1>20, <1>21, <1>22, <1>23, <1>24, <1>25, <1>26 DEF Next, Step

-----------------------------------------------------------------------------
(***************************************************************************)
(* What the run may take from a structure of the destination: was is how   *)
(* it found it, is how it is now.                                          *)
(***************************************************************************)
Lacked(src, was, ignore) == Names(Visible(was, ignore)) \ Names(Visible(src, ignore))

Unmatched(k, src, ignore) == k.cols \notin KeySeqs(Visible(src, ignore)) /\ ~Refs(k, ignore)

Bound(src, was, is, ignore) ==
  /\ Names(was) \ Names(is) \subseteq Lacked(src, was, ignore)
  /\ Names(is) \subseteq Names(was) \cup Names(Visible(src, ignore))
  /\ \A k \in was.keys :
       k.cols \in KeySeqs(is) \/ Unmatched(k, src, ignore) \/ Refs(k, Lacked(src, was, ignore))

\* A statement that takes no more.
Narrow(stmt, src, was, ignore) ==
  /\ stmt.dropCol \subseteq Lacked(src, was, ignore)
  /\ \A k \in stmt.dropKey : Unmatched(k, src, ignore)
  /\ AddNames(stmt) \subseteq Names(Visible(src, ignore))

LEMMA BoundFirst ==
  ASSUME NEW src, NEW was, NEW ignore
  PROVE  Bound(src, was, was, ignore)
  BY DEF Bound, KeySeqs

LEMMA PlanNarrow ==
  ASSUME NEW src, IsStruct(src), NEW was, IsStruct(was), NEW is, IsStruct(is), NEW ignore,
         Bound(src, was, is, ignore), NEW defaults,
         NEW ch, ch = Changes(Visible(src, ignore), Visible(is, ignore), defaults)
  PROVE  Narrow(Early(ch), src, was, ignore) /\ Narrow(Late(ch), src, was, ignore)
<1> DEFINE s == Visible(src, ignore)
           v == Visible(is, ignore)
           w == Visible(was, ignore)
<1>1. VisibleFacts(src, ignore, s) /\ VisibleFacts(is, ignore, v) /\ VisibleFacts(was, ignore, w)
  BY VisibleIs
<1>2. /\ Lacked(src, was, ignore) = Names(w) \ Names(s)
      /\ \A k : Unmatched(k, src, ignore) <=> k.cols \notin KeySeqs(s) /\ ~Refs(k, ignore)
  BY DEF Lacked, Unmatched
<1> HIDE DEF s, v, w
<1>3. PlanFacts(s, v, defaults, ch)
  BY <1>1, PlanIs DEF Pair, s, v
<1>4. /\ ch.dropCol = Names(v) \ Names(s) /\ AddNames(ch) \subseteq Names(s)
      /\ ch.dropKey = {k \in v.keys : k.cols \notin KeySeqs(s)}
  BY <1>3 DEF PlanFacts
<1>5. Names(v) = Names(is) \ ignore /\ Names(w) = Names(was) \ ignore
      /\ \A k \in v.keys : ~Refs(k, ignore)
  BY <1>1 DEF VisibleFacts
<1>6. ch.dropCol \subseteq Names(w) \ Names(s)
  BY <1>4, <1>5 DEF Bound, s
<1>7. EarlyDrops(ch) \subseteq ch.dropKey /\ LateDrops(ch) \subseteq ch.dropKey
  BY DEF EarlyDrops, LateDrops
<1>8. \A k \in ch.dropKey : Unmatched(k, src, ignore)
  BY <1>2, <1>4, <1>5
<1> QED
  BY <1>2, <1>4, <1>6, <1>7, <1>8, StatementFields DEF Narrow, s

LEMMA BoundKept ==
  ASSUME NEW src, IsStruct(src), NEW was, NEW is, IsStruct(is), NEW ignore,
         Bound(src, was, is, ignore), NEW stmt, Narrow(stmt, src, was, ignore),
         StmtOK(Visible(src, ignore).cols, stmt), ~Rejected(is, stmt)
  PROVE  Bound(src, was, Altered(is, stmt), ignore)
<1> DEFINE e == Altered(is, stmt)
           ss == Visible(src, ignore).cols
<1>1. Listed(ss)
  BY VisibleIs DEF VisibleFacts
<1>2. AlteredFacts(ss, is, stmt, e)
  BY <1>1, AlteredStruct
<1> HIDE DEF e, ss
<1>3. Names(e) = (Names(is) \ stmt.dropCol) \cup AddNames(stmt) /\ e.keys = KeysAfter(is, stmt)
  BY <1>2 DEF AlteredFacts
<1>4. Names(was) \ Names(e) \subseteq Lacked(src, was, ignore)
  BY <1>3 DEF Bound, Narrow
<1>5. Names(e) \subseteq Names(was) \cup Names(Visible(src, ignore))
  BY <1>3 DEF Bound, Narrow
<1>6. ASSUME NEW k \in was.keys, k.cols \in KeySeqs(is)
      PROVE  k.cols \in KeySeqs(e) \/ Unmatched(k, src, ignore) \/ Refs(k, Lacked(src, was, ignore))
  <2>1. PICK l \in is.keys : l.cols = k.cols
    BY <1>6 DEF KeySeqs
  <2>2. CASE l \in stmt.dropKey
    BY <2>1, <2>2 DEF Narrow, Unmatched, Refs
  <2>3. CASE Refs(l, stmt.dropCol)
    BY <2>1, <2>3 DEF Narrow, Refs
  <2>4. CASE l \notin stmt.dropKey /\ ~Refs(l, stmt.dropCol)
    <3>1. l \in KeptKeys(is, stmt)
      BY <2>4, KeptKeysAre
    <3> QED
      BY <1>3, <2>1, <3>1 DEF KeysAfter, KeySeqs
  <2> QED
    BY <2>2, <2>3, <2>4
<1>7. Bound(src, was, e, ignore)
  BY <1>4, <1>5, <1>6 DEF Bound
<1> QED
  BY <1>7 DEF e

\* The destructive statements of a plan.
Plans(src, was, ignore, defaults) == RenderDDL(Changes(Visible(src, ignore), Visible(was, ignore), defaults))
Harmful(ddl) == {x \in ToSet(ddl) : Destructive(x)}

LEMMA JoinedOne ==
  ASSUME NEW x
  PROVE  x \in ToSet(<<x>> \o <<>>)
<1>1. <<x>> \o <<>> = <<x>>
  OBVIOUS
<1> QED
  BY <1>1 DEF ToSet

LEMMA JoinedTwo ==
  ASSUME NEW x, NEW y
  PROVE  x \in ToSet(<<x>> \o <<y>>) /\ y \in ToSet(<<x>> \o <<y>>)
<1> DEFINE S == {x, y}
           q == <<x>> \o <<y>>
<1>1. <<x>> \in Seq(S) /\ <<y>> \in Seq(S) /\ Len(<<x>>) = 1 /\ Len(<<y>>) = 1
  OBVIOUS
<1> HIDE DEF S
<1>2. Len(q) = 2 /\ q \in Seq(S) /\ q[1] = <<x>>[1] /\ q[2] = <<y>>[1]
  BY <1>1
<1>3. DOMAIN q = 1..2
  BY <1>2
<1>4. <<x>>[1] = x /\ <<y>>[1] = y
  OBVIOUS
<1> QED
  BY <1>2, <1>3, <1>4 DEF ToSet

\* The plan made at the start shows what is taken.
LEMMA LossShown ==
  ASSUME NEW src, IsStruct(src), NEW was, IsStruct(was), NEW ignore, NEW defaults
  PROVE  LET ddl == Plans(src, was, ignore, defaults)
         IN  /\ Lacked(src, was, ignore) \subseteq UNION {x.dropCol : x \in Harmful(ddl)}
             /\ \A k \in was.keys : Unmatched(k, src, ignore) /\ ~Refs(k, Lacked(src, was, ignore)) =>
                   k \in UNION {x.dropKey : x \in Harmful(ddl)}
<1> DEFINE s == Visible(src, ignore)
           w == Visible(was, ignore)
           ch == Changes(s, w, defaults)
           ddl == RenderDDL(ch)
<1>1. Plans(src, was, ignore, defaults) = ddl
  BY DEF Plans
<1>2. VisibleFacts(src, ignore, s) /\ VisibleFacts(was, ignore, w)
  BY VisibleIs
<1>3. /\ Lacked(src, was, ignore) = Names(w) \ Names(s)
      /\ \A k : Unmatched(k, src, ignore) <=> k.cols \notin KeySeqs(s) /\ ~Refs(k, ignore)
  BY DEF Lacked, Unmatched
<1> HIDE DEF s, w
<1>4. PlanFacts(s, w, defaults, ch)
  BY <1>2, PlanIs DEF Pair, s, w
<1> HIDE DEF ch, ddl
<1>5. /\ ch.dropCol = Names(w) \ Names(s) /\ IsChanges(ch)
      /\ ch.dropKey = {k \in w.keys : k.cols \notin KeySeqs(s)}
      /\ w.keys = {k \in was.keys : ~Refs(k, ignore)}
  BY <1>2, <1>4 DEF PlanFacts, VisibleFacts
<1>6. /\ Early(ch) # NoChanges => Early(ch) \in ToSet(ddl)
      /\ Late(ch) # NoChanges => Early(ch) # NoChanges /\ Late(ch) \in ToSet(ddl)
  <2>1. ddl = IF Early(ch) = NoChanges THEN <<>> ELSE <<Early(ch)>> \o Clauses(Late(ch))
    BY <1>5, RenderIs DEF ddl
  <2>2. Late(ch) # NoChanges => Early(ch) # NoChanges
    <3>1. ASSUME Early(ch) = NoChanges PROVE Late(ch) = NoChanges
      <4>1. ch.add = <<>> /\ ch.modify = {}
        BY <3>1 DEF NoChanges, Early, ChangesOf
      <4>2. Touched(ch) = {}
        BY <4>1 DEF Touched
      <4>3. LateAdds(ch) = {} /\ LateDrops(ch) = {}
        BY <4>2 DEF Refs, LateAdds, LateDrops
      <4> QED
        BY <4>3 DEF NoChanges, Late, ChangesOf
    <3> QED
      BY <3>1
  <2>3. CASE Early(ch) = NoChanges
    BY <2>2, <2>3
  <2>4. CASE Early(ch) # NoChanges /\ Late(ch) = NoChanges
    <3>1. ddl = <<Early(ch)>> \o <<>>
      BY <2>1, <2>4 DEF Clauses
    <3> QED
      BY <2>4, <3>1, JoinedOne
  <2>5. CASE Early(ch) # NoChanges /\ Late(ch) # NoChanges
    <3>1. ddl = <<Early(ch)>> \o <<Late(ch)>>
      BY <2>1, <2>5 DEF Clauses
    <3> QED
      BY <2>5, <3>1, JoinedTwo
  <2> QED
    BY <2>3, <2>4, <2>5
<1>7. ASSUME NEW n \in Lacked(src, was, ignore) PROVE n \in UNION {x.dropCol : x \in Harmful(ddl)}
  <2>1. n \in Early(ch).dropCol
    BY <1>3, <1>5, StatementFields
  <2>2. Early(ch) # NoChanges
    BY <2>1 DEF NoChanges
  <2>3. Destructive(Early(ch))
    BY <2>1 DEF Destructive
  <2> QED
    BY <1>6, <2>1, <2>2, <2>3 DEF Harmful
<1>8. ASSUME NEW k \in was.keys, Unmatched(k, src, ignore), ~Refs(k, Lacked(src, was, ignore))
      PROVE  k \in UNION {x.dropKey : x \in Harmful(ddl)}
  <2>1. k \in ch.dropKey /\ ~Refs(k, ch.dropCol)
    BY <1>3, <1>5, <1>8
  <2>2. k \in EarlyDrops(ch) \/ k \in LateDrops(ch)
    BY <2>1 DEF EarlyDrops, LateDrops
  <2>3. k \in Early(ch).dropKey \/ k \in Late(ch).dropKey
    BY <2>2, StatementFields
  <2>4. \A x : k \in x.dropKey => x # NoChanges /\ Destructive(x)
    BY DEF NoChanges, Destructive
  <2> QED
    BY <1>6, <2>3, <2>4 DEF Harmful
<1> QED
  BY <1>1, <1>7, <1>8

-----------------------------------------------------------------------------
(***************************************************************************)
(* What a repair keeps, and what is in hand on the way.                    *)
(***************************************************************************)
\* The structures are no exception of ExitZeroMeansMirrored; they can be
\* repaired; their repair is refused.
Fit(src, x, set) ==
  NoKeyShrinks(Visible(src, set.ignore), Visible(x, set.ignore)) /\ PrimaryNotNull(Visible(src, set.ignore), x)
Heals(src, x, set) ==
  Mends(src, x, set.ignore, Visible(src, set.ignore), Visible(x, set.ignore), set.defaults)
Refusal(src, x, set) == Refused(Visible(src, set.ignore), Visible(x, set.ignore), set.defaults)
Needed(src, x, set)  == Plans(src, x, set.ignore, set.defaults)

\* was is what the run found, is what it has made of it.
Keeps(src, was, is, set) ==
  /\ IsTable(was) /\ is # was /\ is # Absent => IsTable(src) /\ IsTable(is)
  /\ IsTable(src) /\ IsTable(was) /\ IsTable(is) =>
       /\ Fit(src, was, set) => Fit(src, is, set)
       /\ Heals(src, was, set) => Heals(src, is, set)
       /\ Bound(src, was, is, set.ignore)

\* The statements ddl are left to repair the table.
Altering(ddl, src, was, is, set) ==
  /\ IsTable(src) /\ IsTable(was) /\ IsTable(is)
  /\ \E S : /\ ddl \in Seq(S)
            /\ \A x \in S : Narrow(x, src, was, set.ignore) /\ StmtOK(Visible(src, set.ignore).cols, x)
  /\ Fit(src, was, set) => ddl = Needed(src, is, set) /\ ~Refusal(src, is, set)

\* The table is to be created, or has been.
Creating(ddl, src, was, is, set) ==
  /\ IsTable(src) /\ was = Absent /\ \A c \in ToSet(Visible(src, set.ignore).cols) : c.gen = Plain
  /\ \/ ddl = <<Visible(src, set.ignore)>> /\ is = Absent
     \/ ddl = <<>> /\ is = Created(Visible(src, set.ignore)) /\ IsStruct(is)

LEMMA KeepsFirst ==
  ASSUME NEW src, NEW was, NEW set
  PROVE  Keeps(src, was, was, set)
  BY BoundFirst DEF Keeps

LEMMA PairOf ==
  ASSUME NEW src, IsStruct(src), NEW x, IsStruct(x), NEW ignore
  PROVE  Pair(src, x, ignore, Visible(src, ignore), Visible(x, ignore))
  BY VisibleIs DEF Pair

LEMMA HealsFit ==
  ASSUME NEW src, IsStruct(src), NEW x, IsStruct(x), NEW set, Heals(src, x, set)
  PROVE  Fit(src, x, set)
<1>1. Pair(src, x, set.ignore, Visible(src, set.ignore), Visible(x, set.ignore))
  BY PairOf
<1>2. /\ AllSeen(src, set.ignore) /\ AllSeen(x, set.ignore)
      /\ NoKeyShrinks(Visible(src, set.ignore), Visible(x, set.ignore))
      /\ PrimaryNotNull(Visible(src, set.ignore), Visible(x, set.ignore))
  BY DEF Heals, Mends, Repairable
<1> QED
  BY <1>1, <1>2, SeenWhole DEF Fit

LEMMA AlteringStarts ==
  ASSUME NEW src, IsStruct(src), NEW was, IsStruct(was), NEW is, IsStruct(is), NEW set,
         Keeps(src, was, is, set), ~Refusal(src, is, set)
  PROVE  Altering(Needed(src, is, set), src, was, is, set)
<1> DEFINE ch == Changes(Visible(src, set.ignore), Visible(is, set.ignore), set.defaults)
           S == {Early(ch), Late(ch)}
<1>1. IsTable(src) /\ IsTable(was) /\ IsTable(is)
  BY StructIsTable
<1>2. Bound(src, was, is, set.ignore)
  BY <1>1 DEF Keeps
<1>3. Narrow(Early(ch), src, was, set.ignore) /\ Narrow(Late(ch), src, was, set.ignore)
  BY <1>2, PlanNarrow
<1>4. PlanFacts(Visible(src, set.ignore), Visible(is, set.ignore), set.defaults, ch)
  BY PairOf, PlanIs
<1>5. /\ IsChanges(ch)
      /\ StmtOK(Visible(src, set.ignore).cols, Early(ch)) /\ StmtOK(Visible(src, set.ignore).cols, Late(ch))
  BY <1>4 DEF PlanFacts
<1>6. Needed(src, is, set) = RenderDDL(ch)
  BY DEF Needed, Plans
<1> HIDE DEF ch
<1>7. RenderDDL(ch) \in Seq(S)
  <2>1. \A c \in S : <<c>> \in Seq(S) /\ <<>> \in Seq(S)
    OBVIOUS
  <2>2. Clauses(Late(ch)) \in Seq(S) /\ <<Early(ch)>> \in Seq(S) /\ <<>> \in Seq(S)
    BY <2>1 DEF Clauses
  <2> HIDE DEF S
  <2>3. <<Early(ch)>> \o Clauses(Late(ch)) \in Seq(S)
    BY <2>2
  <2> QED
    BY <1>5, <2>2, <2>3, RenderIs
<1>8. \A x \in S : Narrow(x, src, was, set.ignore) /\ StmtOK(Visible(src, set.ignore).cols, x)
  BY <1>3, <1>5
<1> QED
  BY <1>1, <1>6, <1>7, <1>8 DEF Altering

\* The statement at hand is the first one of the plan of the moment.
LEMMA InHand ==
  ASSUME NEW src, IsStruct(src), NEW is, IsStruct(is), NEW set,
         NEW ddl, ddl = Needed(src, is, set), ddl # <<>>,
         NEW ch, ch = Changes(Visible(src, set.ignore), Visible(is, set.ignore), set.defaults)
  PROVE  Head(ddl) = Early(ch) /\ Tail(ddl) = Clauses(Late(ch))
<1>1. IsChanges(ch)
  BY PairOf, PlanIs DEF PlanFacts
<1> QED
  BY <1>1, RenderIs DEF Needed, Plans

LEMMA AlteringAccepted ==
  ASSUME NEW src, IsEntry(src), NEW was, IsEntry(was), NEW is, IsEntry(is), NEW set,
         NEW ddl, Altering(ddl, src, was, is, set), ddl # <<>>, Keeps(src, was, is, set),
         Heals(src, was, set)
  PROVE  ~Rejected(is, Head(ddl))
<1>1. IsStruct(src) /\ IsStruct(was) /\ IsStruct(is)
  BY TableIsStruct DEF Altering
<1>2. ddl = Needed(src, is, set)
  BY <1>1, HealsFit DEF Altering
<1>3. Heals(src, is, set)
  BY DEF Altering, Keeps
<1>4. ~Rejected(is, Early(Changes(Visible(src, set.ignore), Visible(is, set.ignore), set.defaults)))
  BY <1>1, <1>3, PairOf, FirstAccepted DEF Heals
<1> QED
  BY <1>1, <1>2, <1>4, InHand

LEMMA AlteringGoesOn ==
  ASSUME NEW src, IsEntry(src), NEW was, IsEntry(was), NEW is, IsEntry(is), NEW set,
         NEW ddl, Altering(ddl, src, was, is, set), ddl # <<>>, Keeps(src, was, is, set),
         ~Rejected(is, Head(ddl)), NEW e, e = Altered(is, Head(ddl))
  PROVE  IsStruct(e) /\ Keeps(src, was, e, set) /\ Altering(Tail(ddl), src, was, e, set)
<1> DEFINE s == Visible(src, set.ignore)
           v == Visible(is, set.ignore)
           w == Visible(e, set.ignore)
           ch == Changes(s, v, set.defaults)
<1>1. IsStruct(src) /\ IsStruct(was) /\ IsStruct(is) /\ IsTable(src) /\ IsTable(was) /\ IsTable(is)
  BY TableIsStruct DEF Altering
<1>2. PICK S : /\ ddl \in Seq(S)
               /\ \A x \in S : Narrow(x, src, was, set.ignore) /\ StmtOK(s.cols, x)
  BY DEF Altering
<1>3. Head(ddl) \in S /\ Tail(ddl) \in Seq(S)
  BY <1>2
<1>4. Narrow(Head(ddl), src, was, set.ignore) /\ StmtOK(s.cols, Head(ddl))
  BY <1>2, <1>3
<1>5. Bound(src, was, is, set.ignore)
  BY <1>1 DEF Keeps
<1>6. IsStruct(e) /\ IsTable(e) /\ Bound(src, was, e, set.ignore)
  <2>1. Listed(s.cols)
    BY <1>1, VisibleIs DEF VisibleFacts
  <2>2. IsStruct(e)
    BY <1>1, <1>4, <2>1, AlteredStruct
  <2> QED
    BY <1>1, <1>4, <1>5, <2>2, BoundKept, StructIsTable
<1>7. Pair(src, is, set.ignore, s, v)
  BY <1>1, PairOf
<1>8. ASSUME Fit(src, was, set)
      PROVE  Fit(src, e, set) /\ Tail(ddl) = Needed(src, e, set) /\ ~Refusal(src, e, set)
  <2>1. Head(ddl) = Early(ch) /\ Tail(ddl) = Clauses(Late(ch))
    BY <1>1, <1>8, InHand DEF Altering
  <2>2. NoKeyShrinks(s, v) /\ PrimaryNotNull(s, is) /\ ~Refused(s, v, set.defaults)
    BY <1>1, <1>8 DEF Keeps, Fit, Altering, Refusal
  <2> HIDE DEF s, v, ch
  <2>3. RestFacts(src, e, set.ignore, s, Visible(e, set.ignore), set.defaults, ch)
    BY <1>7, <2>1, <2>2, Repaired DEF ch
  <2>4. Changes(s, w, set.defaults) = Late(ch) /\ NoKeyShrinks(s, w) /\ PrimaryNotNull(s, e)
        /\ ~Refused(s, w, set.defaults)
    BY <2>3 DEF RestFacts
  <2>5. Needed(src, e, set) = Clauses(Late(ch))
    BY <2>4, LateAlone DEF Needed, Plans, s
  <2> QED
    BY <2>1, <2>4, <2>5 DEF Fit, Refusal, s
<1>9. ASSUME Heals(src, was, set) PROVE Heals(src, e, set)
  <2>1. Heals(src, is, set) /\ Fit(src, was, set)
    BY <1>1, <1>9, HealsFit DEF Keeps
  <2>2. Head(ddl) = Early(ch)
    BY <1>1, <2>1, InHand DEF Altering
  <2> QED
    BY <1>7, <2>1, <2>2, MendsKept DEF Heals
<1>10. Keeps(src, was, e, set)
  BY <1>1, <1>6, <1>8, <1>9 DEF Keeps
<1>11. Altering(Tail(ddl), src, was, e, set)
  BY <1>1, <1>2, <1>3, <1>6, <1>8 DEF Altering
<1> QED
  BY <1>6, <1>10, <1>11

LEMMA CreatingGoesOn ==
  ASSUME NEW src, IsEntry(src), NEW was, NEW is, NEW set,
         NEW ddl, Creating(ddl, src, was, is, set), ddl # <<>>, ~Impossible(Created(Head(ddl))),
         NEW e, e = Created(Head(ddl))
  PROVE  IsStruct(e) /\ Keeps(src, was, e, set) /\ Creating(Tail(ddl), src, was, e, set)
<1>1. IsStruct(src) /\ was = Absent /\ ddl = <<Visible(src, set.ignore)>>
  BY TableIsStruct DEF Creating
<1>2. Head(ddl) = Visible(src, set.ignore) /\ Tail(ddl) = <<>>
  BY <1>1
<1>3. CreatedFacts(src, Visible(src, set.ignore), e)
  BY <1>1, <1>2, VisibleIs, CreatedIs
<1>4. IsStruct(e)
  BY <1>3 DEF CreatedFacts
<1>5. Keeps(src, was, e, set)
  BY <1>1 DEF Keeps, IsTable
<1> QED
  BY <1>2, <1>4, <1>5 DEF Creating

-----------------------------------------------------------------------------
(***************************************************************************)
(* The invariant of a run nobody disturbs.                                 *)
(***************************************************************************)
\* What the run found is made of structures too.
StartOK ==
  /\ DOMAIN start = Sides
  /\ \A e \in Sides : DOMAIN start[e] = Tables /\ \A t \in Tables : IsEntry(start[e][t])

\* A table not yet worked on is as it was.
UntouchedOK ==
  \A t \in Tables :
    t \notin DOMAIN results /\ (current = Idle \/ t # current.table) => db["dst"][t] = start["dst"][t]

KeepsOK ==
  \A t \in Tables : Keeps(start["src"][t], start["dst"][t], db["dst"][t], setting)

WorkOK ==
  LET t == current.table
  IN  /\ current.step = "ALTER" =>
           Altering(current.ddl, start["src"][t], start["dst"][t], db["dst"][t], setting)
      /\ current.step = "truncate" =>
           IsTable(start["src"][t]) /\ IsTable(start["dst"][t]) /\ IsTable(db["dst"][t])
      /\ current.step = "CREATE" =>
           Creating(current.ddl, start["src"][t], start["dst"][t], db["dst"][t], setting)

\* A table is missing only if it was among those to drop.
AbsentOK ==
  \A t \in Tables : db["dst"][t] = Absent /\ start["dst"][t] # Absent => t \in extra

Calm == db["src"] = start["src"] /\ UntouchedOK /\ KeepsOK /\ WorkOK /\ AbsentOK

CalmInv == StartOK /\ (~disturbed => Calm)

LEMMA CalmStill ==
  ASSUME CalmInv, UNCHANGED <<setting, db, start, disturbed, current, results, extra>>
  PROVE  CalmInv'
<1>1. StartOK'
  BY DEF CalmInv, StartOK
<1>2. Calm => Calm'
  BY DEF Calm, UntouchedOK, KeepsOK, WorkOK, AbsentOK
<1> QED
  BY <1>1, <1>2 DEF CalmInv

\* Nothing is worked on any more, and what was worked on has its result.
LEMMA CalmIdle ==
  ASSUME CalmInv, UNCHANGED <<setting, db, start, disturbed>>, current' = Idle, extra \subseteq extra',
         DOMAIN results \subseteq DOMAIN results', current = Idle \/ current.table \in DOMAIN results'
  PROVE  CalmInv'
<1>1. StartOK'
  BY DEF CalmInv, StartOK
<1>2. ASSUME Calm PROVE Calm'
  <2>1. db'["src"] = start'["src"] /\ KeepsOK' /\ AbsentOK'
    BY <1>2 DEF Calm, KeepsOK, AbsentOK
  <2>2. WorkOK'
    BY IdleType DEF WorkOK
  <2>3. UntouchedOK'
    BY <1>2 DEF Calm, UntouchedOK
  <2> QED
    BY <2>1, <2>2, <2>3 DEF Calm
<1> QED
  BY <1>1, <1>2 DEF CalmInv

LEMMA CalmEnd ==
  ASSUME CalmInv, UNCHANGED <<setting, db, start, disturbed, results>>, current = Idle, current' = Idle,
         extra \subseteq extra'
  PROVE  CalmInv'
  BY CalmIdle

LEMMA CalmFinish ==
  ASSUME CalmInv, UNCHANGED <<setting, db, start, disturbed, extra>>, NEW status, Finish(status)
  PROVE  CalmInv'
<1>1. DOMAIN results' = DOMAIN results \cup {current.table} /\ current' = Idle
  BY DEF Finish, Put
<1> QED
  BY <1>1, CalmIdle

\* Work goes on at the same table.
LEMMA CalmMove ==
  ASSUME CalmInv, UNCHANGED <<setting, db, start, disturbed, results, extra>>, current'.table = current.table,
         current # Idle, current' # Idle, ~disturbed => WorkOK'
  PROVE  CalmInv'
<1>1. StartOK'
  BY DEF CalmInv, StartOK
<1>2. ASSUME Calm, WorkOK' PROVE Calm'
  <2>1. db'["src"] = start'["src"] /\ KeepsOK' /\ AbsentOK'
    BY <1>2 DEF Calm, KeepsOK, AbsentOK
  <2>2. UntouchedOK'
    BY <1>2 DEF Calm, UntouchedOK
  <2> QED
    BY <1>2, <2>1, <2>2 DEF Calm
<1> QED
  BY <1>1, <1>2 DEF CalmInv

\* The table at hand changes.
LEMMA CalmTakes ==
  ASSUME CalmInv, DbOK, UNCHANGED <<setting, start, disturbed, extra>>, NEW t \in Tables, t = current.table,
         current # Idle,
         NEW x, IsEntry(x), Takes(x), ~disturbed => Keeps(start["src"][t], start["dst"][t], x, setting),
         x = Absent => t \in extra, ~disturbed => WorkOK',
         \/ current'.table = t /\ current' # Idle /\ UNCHANGED results
         \/ current' = Idle /\ DOMAIN results' = DOMAIN results \cup {t}
  PROVE  CalmInv'
<1>1. StartOK'
  BY DEF CalmInv, StartOK
<1>2. /\ db'["dst"][t] = x /\ db'["src"] = db["src"]
      /\ \A u \in Tables \ {t} : db'["dst"][u] = db["dst"][u]
  BY TakesIs
<1>3. ASSUME ~disturbed PROVE Calm'
  <2>0. Calm
    BY <1>3 DEF CalmInv
  <2>1. db'["src"] = start'["src"]
    BY <1>2, <2>0 DEF Calm
  <2>2. KeepsOK'
    BY <1>2, <1>3, <2>0 DEF Calm, KeepsOK
  <2>3. UntouchedOK'
    BY <1>2, <2>0 DEF Calm, UntouchedOK
  <2>4. AbsentOK'
    BY <1>2, <2>0 DEF Calm, AbsentOK
  <2> QED
    BY <1>3, <2>1, <2>2, <2>3, <2>4 DEF Calm
<1> QED
  BY <1>1, <1>3 DEF CalmInv

\* A table is taken up.
LEMMA CalmStart ==
  ASSUME CalmInv, UNCHANGED <<setting, db, start, disturbed, results, extra>>, current = Idle,
         ~disturbed => WorkOK'
  PROVE  CalmInv'
<1>1. StartOK'
  BY DEF CalmInv, StartOK
<1>2. ASSUME Calm, WorkOK' PROVE Calm'
  <2>1. db'["src"] = start'["src"] /\ KeepsOK' /\ AbsentOK'
    BY <1>2 DEF Calm, KeepsOK, AbsentOK
  <2>2. UntouchedOK'
    BY <1>2 DEF Calm, UntouchedOK
  <2> QED
    BY <1>2, <2>1, <2>2 DEF Calm
<1> QED
  BY <1>1, <1>2 DEF CalmInv

LEMMA CalmDrops ==
  ASSUME current'.step \notin {"ALTER", "truncate", "CREATE"}
  PROVE  WorkOK'
  BY DEF WorkOK

LEMMA CalmInit == Init => CalmInv
<1> SUFFICES ASSUME Init PROVE CalmInv
  OBVIOUS
<1>1. start = db /\ current = Idle
  BY DEF Init
<1>2. StartOK
  BY <1>1, StructInit DEF StructInv, DbOK, StartOK
<1>3. KeepsOK /\ AbsentOK
  BY <1>1, KeepsFirst DEF KeepsOK, AbsentOK
<1>4. WorkOK
  BY <1>1, IdleType DEF WorkOK
<1>5. Calm
  BY <1>1, <1>3, <1>4 DEF Calm, UntouchedOK
<1> QED
  BY <1>2, <1>5 DEF CalmInv

LEMMA NeededIs ==
  ASSUME NEW t, db["src"] = start["src"]
  PROVE  /\ StructurePlan(t) = Needed(start["src"][t], db["dst"][t], setting)
         /\ Refuses(t) <=> Refusal(start["src"][t], db["dst"][t], setting)
  BY PlanRendered DEF StructureChanges, Needed, Plans, Refuses, Refusal, Seen

\* What the statement at hand does.
LEMMA CalmEffect ==
  ASSUME TypeInv, StructInv, CalmInv, ~disturbed, current.step \in {"CREATE", "ALTER"}, current.ddl # <<>>,
         Effect # Absent, NEW t, t = current.table
  PROVE  /\ t \in Tables /\ IsStruct(Effect) /\ Keeps(start["src"][t], start["dst"][t], Effect, setting)
         /\ current.step = "ALTER" =>
              Altering(Tail(current.ddl), start["src"][t], start["dst"][t], Effect, setting)
         /\ current.step = "CREATE" =>
              Creating(Tail(current.ddl), start["src"][t], start["dst"][t], Effect, setting)
<1>1. t \in Tables /\ IsStruct(Effect)
  BY EffectIs
<1>2. /\ IsEntry(start["src"][t]) /\ IsEntry(start["dst"][t]) /\ IsEntry(db["dst"][t])
      /\ Keeps(start["src"][t], start["dst"][t], db["dst"][t], setting) /\ WorkOK
  BY <1>1 DEF CalmInv, Calm, StartOK, StructInv, DbOK, Sides, KeepsOK
<1>3. CASE current.step = "ALTER"
  <2>1. ~Rejected(db["dst"][t], Head(current.ddl)) /\ Effect = Altered(db["dst"][t], Head(current.ddl))
    BY <1>3 DEF Effect, Statement
  <2>2. Altering(current.ddl, start["src"][t], start["dst"][t], db["dst"][t], setting)
    BY <1>2, <1>3 DEF WorkOK
  <2>3. /\ Keeps(start["src"][t], start["dst"][t], Effect, setting)
        /\ Altering(Tail(current.ddl), start["src"][t], start["dst"][t], Effect, setting)
    BY <1>2, <2>1, <2>2, AlteringGoesOn
  <2> QED
    BY <1>1, <1>3, <2>3
<1>4. CASE current.step = "CREATE"
  <2>1. Effect = Created(Head(current.ddl)) /\ ~Impossible(Created(Head(current.ddl)))
    BY <1>4 DEF Effect, Statement
  <2>2. Creating(current.ddl, start["src"][t], start["dst"][t], db["dst"][t], setting)
    BY <1>2, <1>4 DEF WorkOK
  <2>3. /\ Keeps(start["src"][t], start["dst"][t], Effect, setting)
        /\ Creating(Tail(current.ddl), start["src"][t], start["dst"][t], Effect, setting)
    BY <1>2, <2>1, <2>2, CreatingGoesOn
  <2> QED
    BY <1>1, <1>4, <2>3
<1> QED
  BY <1>3, <1>4

LEMMA CalmNext == TypeInv /\ StructInv /\ CalmInv /\ [Next]_vars => CalmInv'
<1> SUFFICES ASSUME TypeInv, StructInv, CalmInv, [Next]_vars PROVE CalmInv'
  OBVIOUS
<1>0. DbOK /\ DdlOK
  BY DEF StructInv
<1>1. \A x : [current EXCEPT !.step = x].step = x /\ [current EXCEPT !.step = x].table = current.table
  BY DEF TypeInv, CurrentOK
<1>2. \A c : c.step # "idle" => c # Idle
  BY IdleType
<1>3. current.step # "idle" => current.table \in tables \cup extra /\ current.table \in Tables
  BY IdleType DEF TypeInv, TypeOK, CourseOK, ScopeOK
<1>4. CASE ListSource
  <2>1. current = Idle /\ current' = Idle /\ UNCHANGED <<setting, db, start, disturbed, results, extra>>
    BY <1>4 DEF ListSource, End, TypeInv, CourseOK, history
  <2> QED
    BY <2>1, CalmEnd
<1>5. CASE ListDestination
  <2>1. /\ current = Idle /\ current' = Idle /\ UNCHANGED <<setting, db, start, disturbed, results>>
        /\ extra \subseteq extra'
    BY <1>5 DEF ListDestination, End, TypeInv, CourseOK, PhaseOK, history
  <2> QED
    BY <2>1, CalmEnd
<1>6. CASE CompareTable
  BY <1>6, CalmStill DEF CompareTable, history
<1>7. CASE NothingToCompare
  BY <1>7, CalmStill DEF NothingToCompare, history, planned
<1>8. CASE PlanTable
  BY <1>8, CalmStill DEF PlanTable, history
<1>9. CASE Confirm
  <2>1. /\ current = Idle /\ results = Nothing /\ UNCHANGED <<setting, db, start, disturbed, extra>>
        /\ current' = Idle
    BY <1>9 DEF Confirm, End, TypeInv, CourseOK, PhaseOK, planned
  <2>2. DOMAIN results = {}
    BY <2>1 DEF Nothing
  <2> QED
    BY <2>1, <2>2, CalmIdle
<1>10. CASE StartTable
  <2>1. PICK t : t \in {Pick(todo)} /\ todo # {} /\ todo' = todo \ {t} /\ current = Idle
           /\ UNCHANGED <<setting, db, start, disturbed, extra>> /\ phase = "apply"
           /\ \/ \E d \in {Decide(t)} :
                   IF d.mode \in {"CREATE", "ALTER"}
                   THEN /\ current' = [Idle EXCEPT !.table = t, !.step = d.mode, !.ddl = d.ddl]
                        /\ UNCHANGED results
                   ELSE /\ results' = Put(results, t, IF d.mode = "SKIP" THEN "SKIPPED" ELSE "FAILED")
                        /\ UNCHANGED current
              \/ results' = Put(results, t, "FAILED") /\ UNCHANGED current
    BY <1>10 DEF StartTable, planned, history
  <2>2. t \in Tables /\ t \in todo
    BY <2>1, Picked DEF TypeInv, TypeOK, ScopeOK
  <2>3. ASSUME NEW x, results' = Put(results, t, x), UNCHANGED current PROVE CalmInv'
    <3>1. DOMAIN results' = DOMAIN results \cup {t}
      BY <2>3 DEF Put
    <3> QED
      BY <2>1, <2>3, <3>1, CalmIdle
  <2>4. ASSUME NEW d, d = Decide(t), d.mode \in {"CREATE", "ALTER"}, UNCHANGED results,
               current' = [Idle EXCEPT !.table = t, !.step = d.mode, !.ddl = d.ddl]
        PROVE  CalmInv'
    <3>1. current'.step = d.mode /\ current'.ddl = d.ddl /\ current'.table = t
      BY <2>4 DEF Idle
    <3>2. DecideFacts(t, d)
      BY <2>4, DecideIs
    <3>3. ASSUME ~disturbed PROVE WorkOK'
      <4>1. db["src"] = start["src"] /\ KeepsOK /\ UntouchedOK /\ StartOK
        BY <3>3 DEF CalmInv, Calm
      <4>2. t \notin DOMAIN results
        BY <2>2 DEF TypeInv, TypeOK, ResultsOK
      <4>3. db["dst"][t] = start["dst"][t]
        BY <2>1, <2>2, <4>1, <4>2 DEF UntouchedOK
      <4>4. IsEntry(start["src"][t]) /\ IsEntry(start["dst"][t])
        BY <2>2, <4>1 DEF StartOK, Sides
      <4>5. ASSUME d.mode = "ALTER"
            PROVE  Altering(d.ddl, start["src"][t], start["dst"][t], db["dst"][t], setting)
        <5>1. IsTable(start["src"][t]) /\ IsTable(start["dst"][t]) /\ ~Refuses(t) /\ d.ddl = StructurePlan(t)
          BY <3>2, <4>1, <4>3, <4>5 DEF DecideFacts, BothThere
        <5>2. IsStruct(start["src"][t]) /\ IsStruct(start["dst"][t])
          BY <4>4, <5>1, TableIsStruct
        <5>3. Keeps(start["src"][t], start["dst"][t], db["dst"][t], setting)
          BY <2>2, <4>1 DEF KeepsOK
        <5> QED
          BY <4>1, <4>3, <5>1, <5>2, <5>3, NeededIs, AlteringStarts
      <4>6. ASSUME d.mode = "CREATE"
            PROVE  Creating(d.ddl, start["src"][t], start["dst"][t], db["dst"][t], setting)
        BY <3>2, <4>1, <4>3, <4>6 DEF DecideFacts, Creating, Seen
      <4> QED
        BY <2>1, <2>4, <3>1, <4>5, <4>6 DEF WorkOK
    <3> QED
      BY <2>1, <2>4, <3>3, CalmStart
  <2> QED
    BY <2>1, <2>3, <2>4
<1>11. CASE ExecStatement
  <2> DEFINE t == current.table
  <2>1. /\ current.step \in {"CREATE", "ALTER"} /\ current.ddl # <<>> /\ Effect # Absent /\ Takes(Effect)
        /\ current' = [current EXCEPT !.ddl = Tail(@)]
        /\ UNCHANGED <<setting, start, disturbed, results, extra>>
    BY <1>11 DEF ExecStatement, planned, history
  <2>2. /\ current'.step = current.step /\ current'.table = t /\ current'.ddl = Tail(current.ddl)
    BY <2>1 DEF TypeInv, CurrentOK
  <2>3. current # Idle /\ current' # Idle /\ t \in Tables
    BY <1>2, <1>3, <2>1, <2>2
  <2>4. IsStruct(Effect) /\ IsEntry(Effect)
    BY <2>1, EffectIs DEF IsEntry
  <2>5. ASSUME ~disturbed
        PROVE  /\ Keeps(start["src"][t], start["dst"][t], Effect, setting)
               /\ current.step = "ALTER" =>
                    Altering(Tail(current.ddl), start["src"][t], start["dst"][t], Effect, setting)
               /\ current.step = "CREATE" =>
                    Creating(Tail(current.ddl), start["src"][t], start["dst"][t], Effect, setting)
    BY <2>1, <2>5, CalmEffect
  <2>6. db'["dst"][t] = Effect
    BY <1>0, <2>1, <2>3, <2>4, TakesIs
  <2>7. ASSUME ~disturbed PROVE WorkOK'
    BY <2>1, <2>2, <2>5, <2>6, <2>7 DEF WorkOK
  <2> QED
    BY <1>0, <2>1, <2>2, <2>3, <2>4, <2>5, <2>7, CalmTakes
<1>12. CASE FailStatement
  <2> DEFINE t == current.table
  <2>1. /\ current.step \in {"CREATE", "ALTER"} /\ current.ddl # <<>>
        /\ UNCHANGED <<setting, start, disturbed, extra>>
        /\ UNCHANGED db \/ (Effect # Absent /\ Takes(Effect))
        /\ \/ /\ current.step = "ALTER" /\ current' = [current EXCEPT !.step = "truncate"]
              /\ UNCHANGED results
           \/ Finish("FAILED")
    BY <1>12 DEF FailStatement, planned, history
  <2>2. current # Idle /\ t \in Tables
    BY <1>2, <1>3, <2>1
  <2>3. CASE UNCHANGED db /\ Finish("FAILED")
    BY <2>1, <2>3, CalmFinish
  <2>4. CASE /\ UNCHANGED <<db, results>> /\ current.step = "ALTER"
             /\ current' = [current EXCEPT !.step = "truncate"]
    <3>1. current'.step = "truncate" /\ current'.table = t /\ current' # Idle
      BY <1>1, <1>2, <2>4
    <3>2. ASSUME ~disturbed PROVE WorkOK'
      <4>1. IsTable(start["src"][t]) /\ IsTable(start["dst"][t]) /\ IsTable(db["dst"][t])
        BY <2>4, <3>2 DEF CalmInv, Calm, WorkOK, Altering
      <4> QED
        BY <2>1, <2>4, <3>1, <4>1 DEF WorkOK
    <3> QED
      BY <2>1, <2>2, <2>4, <3>1, <3>2, CalmMove
  <2>5. CASE Effect # Absent /\ Takes(Effect)
    <3>1. IsStruct(Effect) /\ IsEntry(Effect) /\ IsTable(Effect)
      BY <2>1, <2>5, EffectIs, StructIsTable
    <3>2. ASSUME ~disturbed PROVE Keeps(start["src"][t], start["dst"][t], Effect, setting)
      BY <2>1, <2>5, <3>2, CalmEffect
    <3>3. CASE Finish("FAILED")
      <4>1. current' = Idle /\ DOMAIN results' = DOMAIN results \cup {t}
        BY <3>3 DEF Finish, Put
      <4>2. WorkOK'
        BY <4>1, IdleType, CalmDrops
      <4> QED
        BY <1>0, <2>1, <2>2, <2>5, <3>1, <3>2, <4>1, <4>2, CalmTakes
    <3>4. CASE current.step = "ALTER" /\ current' = [current EXCEPT !.step = "truncate"] /\ UNCHANGED results
      <4>1. current'.step = "truncate" /\ current'.table = t /\ current' # Idle
        BY <1>1, <1>2, <3>4
      <4>2. ASSUME ~disturbed PROVE WorkOK'
        <5>1. IsTable(start["src"][t]) /\ IsTable(start["dst"][t])
          BY <3>4, <4>2 DEF CalmInv, Calm, WorkOK, Altering
        <5>2. db'["dst"][t] = Effect
          BY <1>0, <2>2, <2>5, <3>1, TakesIs
        <5> QED
          BY <2>1, <3>1, <4>1, <5>1, <5>2 DEF WorkOK
      <4> QED
        BY <1>0, <2>1, <2>2, <2>5, <3>1, <3>2, <3>4, <4>1, <4>2, CalmTakes
    <3> QED
      BY <2>1, <3>3, <3>4
  <2> QED
    BY <2>1, <2>3, <2>4, <2>5
<1>13. CASE Replan
  <2> DEFINE t == current.table
  <2>1. /\ current.step = "truncate" /\ UNCHANGED <<setting, db, start, disturbed, extra>>
        /\ \/ /\ BothThere(t) /\ ~Refuses(t) /\ UNCHANGED results
              /\ current' = [current EXCEPT !.step = "ALTER", !.ddl = Remaining(t), !.replanned = TRUE]
           \/ Finish("FAILED")
    BY <1>13 DEF Replan, planned, history
  <2>2. current # Idle /\ t \in Tables
    BY <1>2, <1>3, <2>1
  <2>3. CASE /\ BothThere(t) /\ ~Refuses(t) /\ UNCHANGED results
             /\ current' = [current EXCEPT !.step = "ALTER", !.ddl = Remaining(t), !.replanned = TRUE]
    <3>1. current'.step = "ALTER" /\ current'.ddl = StructurePlan(t) /\ current'.table = t
      BY <2>3 DEF Remaining, TypeInv, CurrentOK
    <3>2. current' # Idle
      BY <1>2, <3>1
    <3>3. ASSUME ~disturbed PROVE WorkOK'
      <4>1. db["src"] = start["src"] /\ KeepsOK /\ StartOK /\ WorkOK
        BY <3>3 DEF CalmInv, Calm
      <4>2. IsEntry(start["src"][t]) /\ IsEntry(start["dst"][t]) /\ IsEntry(db["dst"][t])
        BY <1>0, <2>2, <4>1 DEF StartOK, Sides, DbOK
      <4>3. IsTable(start["src"][t]) /\ IsTable(start["dst"][t]) /\ IsTable(db["dst"][t])
        BY <2>1, <4>1 DEF WorkOK
      <4>4. IsStruct(start["src"][t]) /\ IsStruct(start["dst"][t]) /\ IsStruct(db["dst"][t])
        BY <4>2, <4>3, TableIsStruct
      <4>5. Keeps(start["src"][t], start["dst"][t], db["dst"][t], setting)
        BY <2>2, <4>1 DEF KeepsOK
      <4>6. Altering(StructurePlan(t), start["src"][t], start["dst"][t], db["dst"][t], setting)
        BY <2>3, <4>1, <4>4, <4>5, NeededIs, AlteringStarts
      <4> QED
        BY <2>1, <3>1, <4>6 DEF WorkOK
    <3> QED
      BY <2>1, <2>2, <2>3, <3>1, <3>2, <3>3, CalmMove
  <2> QED
    BY <2>1, <2>3, CalmFinish
<1>14. CASE Converge
  BY <1>14, CalmFinish DEF Converge, planned, history
<1>15. CASE StartDrops
  BY <1>15, CalmStill DEF StartDrops, planned, history
<1>16. CASE StartDrop
  <2>1. /\ current = Idle /\ UNCHANGED <<setting, db, start, disturbed, results, extra>>
        /\ current' = [Idle EXCEPT !.table = Pick(todo), !.step = FirstProbe]
    BY <1>16 DEF StartDrop, planned, history
  <2>2. current'.step = "probeSource"
    BY <2>1 DEF Idle, FirstProbe
  <2> QED
    BY <2>1, <2>2, CalmDrops, CalmStart
<1>17. ASSUME NEW step, step # "idle", NEW stop, NEW status, NEW next,
              next \notin {"CREATE", "ALTER", "truncate", "idle"}, Probe(step, stop, status, next)
       PROVE  CalmInv'
  <2>1. /\ UNCHANGED <<setting, db, start, disturbed, extra>> /\ current.step = step
        /\ \/ Finish(status) \/ Finish("FAILED")
           \/ current' = [current EXCEPT !.step = next] /\ UNCHANGED results
    BY <1>17 DEF Probe, planned, history
  <2>2. CASE current' = [current EXCEPT !.step = next] /\ UNCHANGED results
    <3>1. current'.step = next /\ current'.table = current.table /\ current # Idle /\ current' # Idle
      BY <1>1, <1>2, <1>17, <2>1, <2>2
    <3> QED
      BY <1>17, <2>1, <2>2, <3>1, CalmDrops, CalmMove
  <2> QED
    BY <2>1, <2>2, CalmFinish
<1>18. CASE ProbeSource
  BY <1>17, <1>18 DEF ProbeSource
<1>19. CASE ProbeDestination
  BY <1>17, <1>19 DEF ProbeDestination
<1>20. CASE DropTable
  <2> DEFINE t == current.table
  <2>1. /\ current.step = "dropTable" /\ UNCHANGED <<setting, start, disturbed, extra>>
        /\ Takes(Absent) \/ UNCHANGED db
        /\ \/ current' = [current EXCEPT !.step = "check"] /\ UNCHANGED results /\ Takes(Absent)
           \/ Finish("FAILED")
    BY <1>20 DEF DropTable, planned, history
  <2>2. current # Idle /\ t \in Tables /\ t \in extra
    BY <1>2, <1>3, <2>1 DEF TypeInv, CourseOK
  <2>3. CASE UNCHANGED db /\ Finish("FAILED")
    BY <2>1, <2>3, CalmFinish
  <2>4. CASE Takes(Absent)
    <3>1. IsEntry(Absent) /\ Keeps(start["src"][t], start["dst"][t], Absent, setting)
      BY DEF IsEntry, Keeps, IsTable
    <3>2. current'.step \notin {"ALTER", "truncate", "CREATE"}
      BY <1>1, <2>1, IdleType DEF Finish
    <3>3. WorkOK'
      BY <3>2, CalmDrops
    <3>4. \/ current'.table = t /\ current' # Idle /\ UNCHANGED results
          \/ current' = Idle /\ DOMAIN results' = DOMAIN results \cup {t}
      BY <1>1, <1>2, <2>1 DEF Finish, Put
    <3> QED
      BY <1>0, <2>1, <2>2, <2>4, <3>1, <3>3, <3>4, CalmTakes
  <2> QED
    BY <2>1, <2>3, <2>4
<1>21. CASE CheckDropped
  BY <1>21, CalmFinish DEF CheckDropped, planned, history
<1>22. CASE Verify
  <2>1. current = Idle /\ current' = Idle /\ UNCHANGED <<setting, db, start, disturbed, results, extra>>
    BY <1>22 DEF Verify, End, planned, history
  <2> QED
    BY <2>1, CalmEnd
<1>23. CASE Rerun
  <2>1. start' = db /\ db' = db /\ setting' = setting /\ current = Idle /\ current' = Idle
    BY <1>23 DEF Rerun, TypeInv, CourseOK
  <2>2. StartOK'
    BY <1>0, <2>1 DEF DbOK, StartOK
  <2>3. KeepsOK' /\ AbsentOK'
    BY <2>1, KeepsFirst DEF KeepsOK, AbsentOK
  <2>4. WorkOK'
    BY <2>1, IdleType DEF WorkOK
  <2>5. Calm'
    BY <2>1, <2>3, <2>4 DEF Calm, UntouchedOK
  <2> QED
    BY <2>2, <2>5 DEF CalmInv
<1>24. CASE Drift
  <2>1. disturbed' /\ UNCHANGED start
    BY <1>24 DEF Drift
  <2>2. StartOK'
    BY <2>1 DEF CalmInv, StartOK
  <2> QED
    BY <2>1, <2>2 DEF CalmInv
<1>25. CASE UNCHANGED vars
  BY <1>25, CalmStill DEF vars, planned, history
<1> QED
  BY <1>4, <1>5, <1>6, <1>7, <1>8, <1>9, <1>10, <1>11, <1>12, <1>13, <1>14, <1>15, <1>16,
     <1>18, <1>19, <1>20, <1>21, <1>22, <1>23, <1>24, <1>25 DEF Next, Step

LEMMA HealsIs ==
  ASSUME NEW src, NEW x
  PROVE  Mendable(src, x) <=> Heals(src, x, setting)
  BY DEF Mendable, Heals, Mends, InSight, AllSeen

LEMMA RepairedStill == CalmInv => RepairStaysRepairable
<1> SUFFICES ASSUME CalmInv, ~disturbed, NEW t \in Tables,
                    IsTable(start["src"][t]), IsTable(db["dst"][t]), IsTable(start["dst"][t]),
                    Mendable(start["src"][t], start["dst"][t])
             PROVE  Mendable(db["src"][t], db["dst"][t])
  BY DEF RepairStaysRepairable
<1>1. db["src"] = start["src"] /\ Keeps(start["src"][t], start["dst"][t], db["dst"][t], setting)
  BY DEF CalmInv, Calm, KeepsOK
<1>2. Heals(start["src"][t], db["dst"][t], setting)
  BY <1>1, HealsIs DEF Keeps
<1> QED
  BY <1>1, <1>2, HealsIs

LEMMA AcceptedStill == TypeInv /\ StructInv /\ CalmInv => RepairIsAccepted
<1> SUFFICES ASSUME TypeInv, StructInv, CalmInv, ~disturbed, NEW t, t = current.table,
                    current.step \in {"CREATE", "ALTER"}, current.ddl # <<>>,
                    current.step = "CREATE" => InSight(start["src"][t]),
                    current.step = "ALTER" => Mendable(start["src"][t], start["dst"][t])
             PROVE  Effect # Absent
  BY DEF RepairIsAccepted
<1>1. t \in Tables
  BY IdleType DEF TypeInv, TypeOK, CourseOK, ScopeOK
<1>2. /\ IsEntry(start["src"][t]) /\ IsEntry(start["dst"][t]) /\ IsEntry(db["dst"][t])
      /\ Keeps(start["src"][t], start["dst"][t], db["dst"][t], setting) /\ WorkOK
  BY <1>1 DEF CalmInv, Calm, StartOK, StructInv, DbOK, Sides, KeepsOK
<1>3. CASE current.step = "ALTER"
  <2>1. Altering(current.ddl, start["src"][t], start["dst"][t], db["dst"][t], setting)
    BY <1>2, <1>3 DEF WorkOK
  <2>2. Heals(start["src"][t], start["dst"][t], setting)
    BY <1>3, HealsIs
  <2>3. ~Rejected(db["dst"][t], Statement)
    BY <1>2, <2>1, <2>2, AlteringAccepted DEF Statement
  <2>4. IsStruct(Altered(db["dst"][t], Statement))
    BY <1>2, <2>1, <2>3, AlteringGoesOn DEF Statement
  <2>5. IsTable(db["dst"][t]) /\ Altered(db["dst"][t], Statement) # Absent
    BY <2>1, <2>4, StructIsTable DEF Altering
  <2> QED
    BY <1>3, <2>3, <2>5 DEF Effect
<1>4. CASE current.step = "CREATE"
  <2>1. Creating(current.ddl, start["src"][t], start["dst"][t], db["dst"][t], setting)
    BY <1>2, <1>4 DEF WorkOK
  <2>2. /\ IsStruct(start["src"][t]) /\ current.ddl = <<Visible(start["src"][t], setting.ignore)>>
        /\ db["dst"][t] = Absent
    BY <1>2, <2>1, TableIsStruct DEF Creating
  <2>3. AllSeen(start["src"][t], setting.ignore)
    BY <1>4 DEF InSight, AllSeen
  <2>4. Statement = Visible(start["src"][t], setting.ignore)
    BY <2>2 DEF Statement
  <2>5. VisibleFacts(start["src"][t], setting.ignore, Statement)
    BY <2>2, <2>4, VisibleIs
  <2>6. ~Impossible(Created(Statement))
    BY <2>2, <2>3, <2>5, CreateAccepted
  <2>7. IsStruct(Created(Statement))
    BY <1>2, <2>1, <2>4, <2>6, CreatingGoesOn DEF Statement
  <2> QED
    BY <1>4, <2>2, <2>6, <2>7, StructIsTable DEF Effect
<1> QED
  BY <1>3, <1>4

LEMMA RepairInit == Init => TypeInv /\ StructInv /\ CalmInv
  BY TypeInit, StructInit, CalmInit

LEMMA RepairNext == TypeInv /\ StructInv /\ CalmInv /\ [Next]_vars => (TypeInv /\ StructInv /\ CalmInv)'
  BY TypeNext, StructNext, CalmNext

\* A repair interrupted between its statements, however often, leaves
\* structures that can still be repaired.
THEOREM RepairableStays == Spec => []RepairStaysRepairable
<1>1. TypeInv /\ StructInv /\ CalmInv => RepairStaysRepairable
  BY RepairedStill
<1> QED
  BY <1>1, RepairInit, RepairNext, PTL DEF Spec

\* No statement for a table that can be repaired is rejected by the server,
\* the statements planned again after a failure half way included.
THEOREM RepairAccepted == Spec => []RepairIsAccepted
<1>1. TypeInv /\ StructInv /\ CalmInv => RepairIsAccepted
  BY AcceptedStill
<1> QED
  BY <1>1, RepairInit, RepairNext, PTL DEF Spec

-----------------------------------------------------------------------------
(***************************************************************************)
(* What a run shows before it takes something.                             *)
(***************************************************************************)
Untouched(t) == t \notin DOMAIN results /\ (current = Idle \/ t # current.table)

\* Every table has its plan when the operator is asked.
PlansKept ==
  /\ phase = "compare" => plans = Nothing /\ (todo = {} => tables = {})
  /\ phase = "plan" => tables \subseteq DOMAIN plans \cup todo
  /\ phase \in {"apply", "drop"} => tables \subseteq DOMAIN plans

\* A table altered now, or altered before, has a plan of that mode, if its
\* preflight did not fail.
AlterShown(t) == t \in DOMAIN plans /\ plans[t].mode \in {"ALTER", "ERROR"}

PlansTrue ==
  \A t \in DOMAIN plans : plans[t].mode = "ALTER" =>
    /\ IsTable(start["src"][t]) /\ IsTable(start["dst"][t])
    /\ plans[t].ddl = Needed(start["src"][t], start["dst"][t], setting)

StillDecided == \A t \in DOMAIN plans : Untouched(t) => plans[t].mode = "ERROR" \/ plans[t] = Decide(t)

WorkShown == current.step \in {"ALTER", "truncate"} => AlterShown(current.table)

ChangeShown ==
  \A t \in Tables :
    IsTable(start["dst"][t]) /\ db["dst"][t] \notin {start["dst"][t], Absent} => AlterShown(t)

Shows == PlansTrue /\ StillDecided /\ WorkShown /\ ChangeShown

PlansInv == PlansKept /\ (~disturbed => Shows)

RepairInv == TypeInv /\ StructInv /\ CalmInv

LEMMA DecideSame ==
  ASSUME NEW t, UNCHANGED setting, compared'[t] = compared[t], db'["src"][t] = db["src"][t],
         db'["dst"][t] = db["dst"][t]
  PROVE  Decide(t)' = Decide(t)
<1>1. Seen("src", t)' = Seen("src", t) /\ Seen("dst", t)' = Seen("dst", t)
  BY DEF Seen
<1>2. StructurePlan(t)' = StructurePlan(t)
  BY <1>1 DEF StructurePlan
<1>3. Refuses(t)' = Refuses(t) /\ BothThere(t)' = BothThere(t)
  BY <1>1 DEF Refuses, BothThere
<1>4. DecideCreate(t)' = DecideCreate(t)
  BY <1>1 DEF DecideCreate
<1>5. DecideAlter(t)' = DecideAlter(t)
  BY <1>2, <1>3 DEF DecideAlter
<1> QED
  BY <1>2, <1>3, <1>4, <1>5 DEF Decide

\* A step that plans nothing.
LEMMA ShowsOn ==
  ASSUME TypeInv, Shows, Calm, Calm', UNCHANGED <<setting, plans, compared, start>>,
         \A t \in Tables : Untouched(t)' => Untouched(t), WorkShown', ChangeShown'
  PROVE  Shows'
<1>1. DOMAIN plans \subseteq Tables
  BY DEF TypeInv, TypeOK, PlansOK, ScopeOK
<1>2. PlansTrue'
  BY DEF Shows, PlansTrue
<1>3. ASSUME NEW t \in DOMAIN plans, Untouched(t)', plans[t].mode # "ERROR" PROVE plans[t] = Decide(t)'
  <2>1. Untouched(t) /\ t \in Tables
    BY <1>1, <1>3
  <2>2. db["dst"][t] = start["dst"][t] /\ db'["dst"][t] = start["dst"][t]
    BY <1>3, <2>1 DEF Calm, UntouchedOK, Untouched
  <2>3. db'["src"] = db["src"]
    BY DEF Calm
  <2>4. plans[t] = Decide(t)
    BY <1>3, <2>1 DEF Shows, StillDecided
  <2> QED
    BY <2>2, <2>3, <2>4, DecideSame
<1>4. StillDecided'
  BY <1>3 DEF StillDecided
<1> QED
  BY <1>2, <1>4 DEF Shows

LEMMA ChangeStill ==
  ASSUME Shows, UNCHANGED <<db, start, plans>>
  PROVE  ChangeShown'
  BY DEF Shows, ChangeShown, AlterShown

LEMMA ChangeTaken ==
  ASSUME Shows, StructInv, UNCHANGED <<start, plans>>, NEW t \in Tables, t = current.table,
         NEW x, IsEntry(x), Takes(x), x = Absent \/ ~IsTable(start["dst"][t]) \/ AlterShown(t)
  PROVE  ChangeShown'
<1>1. db'["dst"][t] = x /\ \A u \in Tables \ {t} : db'["dst"][u] = db["dst"][u]
  BY TakesIs DEF StructInv
<1> QED
  BY <1>1 DEF Shows, ChangeShown, AlterShown

LEMMA PlansInit == Init => PlansInv
<1> SUFFICES ASSUME Init PROVE PlansInv
  OBVIOUS
<1>1. start = db /\ current = Idle /\ plans = Nothing /\ DOMAIN plans = {} /\ phase = "listSource"
  BY DEF Init, Nothing
<1>2. PlansKept
  BY <1>1 DEF PlansKept
<1>3. Shows
  BY <1>1, IdleType DEF Shows, PlansTrue, StillDecided, WorkShown, ChangeShown
<1> QED
  BY <1>2, <1>3 DEF PlansInv

LEMMA PlansNext == RepairInv /\ RepairInv' /\ PlansInv /\ [Next]_vars => PlansInv'
<1> SUFFICES ASSUME RepairInv, RepairInv', PlansInv, [Next]_vars PROVE PlansInv'
  OBVIOUS
<1>0. TypeInv /\ StructInv /\ CalmInv /\ CalmInv' /\ PlansKept
  BY DEF RepairInv, PlansInv
<1>1. \A x : [current EXCEPT !.step = x].step = x /\ [current EXCEPT !.step = x].table = current.table
  BY <1>0 DEF TypeInv, CurrentOK
<1>2. \A c : c.step # "idle" => c # Idle
  BY IdleType
<1>3. current.step # "idle" => current.table \in tables \cup extra /\ current.table \in Tables
  BY <1>0, IdleType DEF TypeInv, TypeOK, CourseOK, ScopeOK
\* What most steps have in common.
<1>4. ASSUME UNCHANGED <<setting, plans, compared, start, disturbed>>, PlansKept',
             \A t \in Tables : Untouched(t)' => Untouched(t),
             ~disturbed /\ Shows => WorkShown' /\ ChangeShown'
      PROVE  PlansInv'
  <2>1. ASSUME ~disturbed PROVE Shows'
    <3>1. Shows /\ Calm /\ Calm'
      BY <1>0, <1>4, <2>1 DEF PlansInv, CalmInv
    <3>2. WorkShown' /\ ChangeShown'
      BY <1>4, <2>1, <3>1
    <3> QED
      BY <1>0, <1>4, <3>1, <3>2, ShowsOn
  <2> QED
    BY <1>4, <2>1 DEF PlansInv
<1>5. ASSUME UNCHANGED <<setting, plans, compared, start, disturbed, db, results>>, PlansKept',
             current' = Idle, current = Idle
      PROVE  PlansInv'
  <2>1. \A t \in Tables : Untouched(t)' => Untouched(t)
    BY <1>5 DEF Untouched
  <2>2. WorkShown'
    BY <1>5, IdleType DEF WorkShown
  <2>3. Shows => ChangeShown'
    BY <1>5, ChangeStill
  <2> QED
    BY <1>4, <1>5, <2>1, <2>2, <2>3
\* A table is done.
<1>6. ASSUME UNCHANGED <<setting, plans, compared, start, disturbed, db>>, PlansKept', NEW status, Finish(status)
      PROVE  PlansInv'
  <2>1. DOMAIN results' = DOMAIN results \cup {current.table} /\ current' = Idle
    BY <1>6 DEF Finish, Put
  <2>2. \A t \in Tables : Untouched(t)' => Untouched(t)
    BY <2>1 DEF Untouched
  <2>3. WorkShown'
    BY <2>1, IdleType DEF WorkShown
  <2>4. Shows => ChangeShown'
    BY <1>6, ChangeStill
  <2> QED
    BY <1>4, <1>6, <2>2, <2>3, <2>4
\* Work goes on at the same table.
<1>7. ASSUME UNCHANGED <<setting, plans, compared, start, disturbed, results>>, PlansKept',
             current # Idle, current' # Idle, current'.table = current.table,
             ~disturbed /\ Shows => WorkShown' /\ ChangeShown'
      PROVE  PlansInv'
  <2>1. \A t \in Tables : Untouched(t)' => Untouched(t)
    BY <1>7 DEF Untouched
  <2> QED
    BY <1>4, <1>7, <2>1
<1>8. CASE ListSource
  <2>1. /\ current = Idle /\ current' = Idle
        /\ UNCHANGED <<setting, plans, compared, start, disturbed, db, results>>
        /\ plans = Nothing
    BY <1>0, <1>8 DEF ListSource, End, TypeInv, CourseOK, PhaseOK, history
  <2>2. PlansKept'
    BY <1>8, <2>1 DEF ListSource, End, PlansKept
  <2> QED
    BY <1>5, <2>1, <2>2
<1>9. CASE ListDestination
  <2>1. /\ current = Idle /\ current' = Idle
        /\ UNCHANGED <<setting, plans, compared, start, disturbed, db, results>>
        /\ plans = Nothing
    BY <1>0, <1>9 DEF ListDestination, End, TypeInv, CourseOK, PhaseOK, history
  <2>2. PlansKept'
    BY <1>9, <2>1 DEF ListDestination, End, PlansKept
  <2> QED
    BY <1>5, <2>1, <2>2
<1>10. CASE CompareTable
  <2>1. /\ UNCHANGED <<setting, db, tables, plans, current, results, start, disturbed>> /\ plans = Nothing
        /\ \/ phase' = "plan" /\ todo' = tables
           \/ phase' = "compare" /\ todo' = todo \ {Pick(todo)} /\ todo # {Pick(todo)}
        /\ todo # {} /\ current = Idle
    BY <1>0, <1>10 DEF CompareTable, PlansKept, history, TypeInv, CourseOK
  <2>2. DOMAIN plans = {}
    BY <2>1 DEF Nothing
  <2>3. PlansKept'
    BY <2>1, <2>2, Picked DEF PlansKept
  <2>4. Shows => Shows'
    BY <2>1, <2>2, IdleType DEF Shows, PlansTrue, StillDecided, WorkShown, ChangeShown, AlterShown
  <2> QED
    BY <2>1, <2>3, <2>4 DEF PlansInv
<1>11. CASE NothingToCompare
  <2>1. /\ current = Idle /\ current' = Idle
        /\ UNCHANGED <<setting, plans, compared, start, disturbed, db, results, tables, todo>>
        /\ phase' = "plan" /\ tables = {}
    BY <1>0, <1>11 DEF NothingToCompare, TypeInv, CourseOK, PlansKept, planned, history
  <2>2. PlansKept'
    BY <2>1 DEF PlansKept
  <2> QED
    BY <1>5, <2>1, <2>2
<1>12. CASE PlanTable
  <2>1. PICK t : /\ t = Pick(todo) /\ todo' = todo \ {t} /\ todo # {}
                 /\ \/ plans' = Put(plans, t, Decide(t))
                    \/ plans' = Put(plans, t, Plan("ERROR", <<>>))
                 /\ UNCHANGED <<setting, db, phase, tables, compared, current, results, start, disturbed>>
                 /\ phase = "plan" /\ current = Idle
    BY <1>0, <1>12 DEF PlanTable, history, TypeInv, CourseOK
  <2>2. t \in todo /\ t \in Tables /\ results = Nothing
    BY <1>0, <2>1, Picked DEF TypeInv, TypeOK, ScopeOK, PhaseOK
  <2>3. PICK d : plans' = Put(plans, t, d) /\ (d = Decide(t) \/ d.mode = "ERROR")
    BY <2>1 DEF Plan
  <2>4. DOMAIN plans' = DOMAIN plans \cup {t} /\ plans'[t] = d /\ \A u \in DOMAIN plans \ {t} : plans'[u] = plans[u]
    BY <2>3 DEF Put
  <2>5. PlansKept'
    BY <1>0, <2>1, <2>4 DEF PlansKept
  <2>6. ASSUME ~disturbed PROVE Shows'
    <3>1. Shows /\ Calm
      BY <1>0, <2>6 DEF PlansInv, CalmInv
    <3>2. db["src"] = start["src"] /\ db["dst"][t] = start["dst"][t]
      BY <2>1, <2>2, <3>1 DEF Calm, UntouchedOK, Nothing
    <3>3. d.mode = "ALTER" => /\ IsTable(start["src"][t]) /\ IsTable(start["dst"][t])
                              /\ d.ddl = Needed(start["src"][t], start["dst"][t], setting)
      BY <2>3, <3>2, DecideIs, NeededIs DEF DecideFacts, BothThere
    <3>4. PlansTrue'
      BY <2>1, <2>4, <3>1, <3>3 DEF Shows, PlansTrue
    <3>5. \A u : Decide(u)' = Decide(u)
      BY <2>1, DecideSame
    <3>6. StillDecided'
      BY <2>1, <2>3, <2>4, <3>1, <3>5 DEF Shows, StillDecided, Untouched
    <3>7. WorkShown'
      BY <2>1, IdleType DEF WorkShown
    <3>8. ChangeShown'
      BY <2>1, <2>4, <3>1, <3>2 DEF Shows, ChangeShown, AlterShown
    <3> QED
      BY <3>4, <3>6, <3>7, <3>8 DEF Shows
  <2> QED
    BY <2>1, <2>5, <2>6 DEF PlansInv
<1>13. CASE Confirm
  <2>1. /\ current = Idle /\ current' = Idle /\ UNCHANGED <<setting, plans, compared, start, disturbed, db, tables>>
        /\ results = Nothing /\ phase = "plan" /\ todo = {} /\ phase' \in {"apply", "ended"}
    BY <1>0, <1>13 DEF Confirm, End, TypeInv, CourseOK, PhaseOK, planned
  <2>2. PlansKept'
    BY <1>0, <2>1 DEF PlansKept
  <2>3. \A t \in Tables : Untouched(t)' => Untouched(t)
    BY <2>1 DEF Untouched, Nothing
  <2>4. WorkShown'
    BY <2>1, IdleType DEF WorkShown
  <2>5. Shows => ChangeShown'
    BY <2>1, ChangeStill
  <2> QED
    BY <1>4, <2>1, <2>2, <2>3, <2>4, <2>5
<1>14. CASE StartTable
  <2>1. PICK t : t \in {Pick(todo)} /\ todo # {} /\ todo' = todo \ {t} /\ current = Idle
           /\ UNCHANGED <<setting, db, start, disturbed, plans, compared, tables>>
           /\ phase = "apply" /\ phase' = phase
           /\ \/ \E d \in {Decide(t)} :
                   IF d.mode \in {"CREATE", "ALTER"}
                   THEN /\ current' = [Idle EXCEPT !.table = t, !.step = d.mode, !.ddl = d.ddl]
                        /\ UNCHANGED results
                   ELSE /\ results' = Put(results, t, IF d.mode = "SKIP" THEN "SKIPPED" ELSE "FAILED")
                        /\ UNCHANGED current
              \/ results' = Put(results, t, "FAILED") /\ UNCHANGED current
    BY <1>14 DEF StartTable, planned, history
  <2>2. t \in Tables /\ t \in tables /\ t \notin DOMAIN results
    BY <1>0, <2>1, Picked DEF TypeInv, TypeOK, ScopeOK, PhaseOK, ResultsOK
  <2>3. PlansKept'
    BY <1>0, <2>1 DEF PlansKept
  <2>4. Shows => ChangeShown'
    BY <2>1, ChangeStill
  <2>5. ASSUME NEW x, results' = Put(results, t, x), UNCHANGED current PROVE PlansInv'
    <3>1. DOMAIN results' = DOMAIN results \cup {t}
      BY <2>5 DEF Put
    <3>2. \A u \in Tables : Untouched(u)' => Untouched(u)
      BY <2>5, <3>1 DEF Untouched
    <3>3. WorkShown'
      BY <2>1, <2>5, IdleType DEF WorkShown
    <3> QED
      BY <1>4, <2>1, <2>3, <2>4, <3>2, <3>3
  <2>6. ASSUME NEW d, d = Decide(t), d.mode \in {"CREATE", "ALTER"}, UNCHANGED results,
               current' = [Idle EXCEPT !.table = t, !.step = d.mode, !.ddl = d.ddl]
        PROVE  PlansInv'
    <3>1. current'.step = d.mode /\ current'.table = t
      BY <2>6 DEF Idle
    <3>2. \A u \in Tables : Untouched(u)' => Untouched(u)
      BY <2>1, <2>6 DEF Untouched
    <3>3. ASSUME Shows PROVE WorkShown'
      <4>1. Untouched(t) /\ t \in DOMAIN plans
        BY <1>0, <2>1, <2>2 DEF Untouched, PlansKept
      <4>2. plans[t].mode = "ERROR" \/ plans[t] = d
        BY <2>6, <3>3, <4>1 DEF Shows, StillDecided
      <4>3. UNCHANGED plans
        BY <2>1
      <4> QED
        BY <2>6, <3>1, <4>1, <4>2, <4>3 DEF WorkShown, AlterShown
    <3> QED
      BY <1>4, <2>1, <2>3, <2>4, <3>2, <3>3
  <2> QED
    BY <2>1, <2>5, <2>6
<1>15. CASE ExecStatement
  <2> DEFINE t == current.table
  <2>1. /\ current.step \in {"CREATE", "ALTER"} /\ current.ddl # <<>> /\ Effect # Absent /\ Takes(Effect)
        /\ current' = [current EXCEPT !.ddl = Tail(@)]
        /\ UNCHANGED <<setting, start, disturbed, results, plans, compared, tables, phase, todo>>
    BY <1>15 DEF ExecStatement, planned, history
  <2>2. /\ current'.step = current.step /\ current'.table = t
    BY <1>0, <2>1 DEF TypeInv, CurrentOK
  <2>3. current # Idle /\ current' # Idle /\ t \in Tables /\ IsEntry(Effect)
    BY <1>0, <1>2, <1>3, <2>1, <2>2, EffectIs DEF IsEntry
  <2>4. PlansKept'
    BY <1>0, <2>1 DEF PlansKept
  <2>5. ASSUME ~disturbed, Shows PROVE WorkShown' /\ ChangeShown'
    <3>1. WorkShown'
      BY <2>1, <2>2, <2>5 DEF Shows, WorkShown, AlterShown
    <3>2. ~IsTable(start["dst"][t]) \/ AlterShown(t)
      BY <1>0, <2>1, <2>5 DEF CalmInv, Calm, WorkOK, Creating, IsTable, Shows, WorkShown
    <3> QED
      BY <1>0, <2>1, <2>3, <2>5, <3>1, <3>2, ChangeTaken
  <2> QED
    BY <1>7, <2>1, <2>2, <2>3, <2>4, <2>5
<1>16. CASE FailStatement
  <2> DEFINE t == current.table
  <2>1. /\ current.step \in {"CREATE", "ALTER"} /\ current.ddl # <<>>
        /\ UNCHANGED <<setting, start, disturbed, plans, compared, tables, phase, todo>>
        /\ (UNCHANGED db \/ (Effect # Absent /\ Takes(Effect)))
        /\ \/ /\ current.step = "ALTER" /\ current' = [current EXCEPT !.step = "truncate"]
              /\ UNCHANGED results
           \/ Finish("FAILED")
    BY <1>16 DEF FailStatement, planned, history
  <2>2. current # Idle /\ t \in Tables
    BY <1>2, <1>3, <2>1
  <2>3. PlansKept'
    BY <1>0, <2>1 DEF PlansKept
  <2>4. ASSUME ~disturbed, Shows PROVE ChangeShown'
    <3>1. CASE UNCHANGED db
      BY <2>1, <2>4, <3>1, ChangeStill
    <3>2. CASE Effect # Absent /\ Takes(Effect)
      <4>1. IsEntry(Effect)
        BY <1>0, <2>1, <3>2, EffectIs DEF IsEntry
      <4>2. ~IsTable(start["dst"][t]) \/ AlterShown(t)
        BY <1>0, <2>1, <2>4 DEF CalmInv, Calm, WorkOK, Creating, IsTable, Shows, WorkShown
      <4> QED
        BY <1>0, <2>1, <2>2, <2>4, <3>2, <4>1, <4>2, ChangeTaken
    <3> QED
      BY <2>1, <3>1, <3>2
  <2>5. CASE Finish("FAILED")
    <3>1. DOMAIN results' = DOMAIN results \cup {t} /\ current' = Idle
      BY <2>5 DEF Finish, Put
    <3>2. \A u \in Tables : Untouched(u)' => Untouched(u)
      BY <3>1 DEF Untouched
    <3>3. WorkShown'
      BY <3>1, IdleType DEF WorkShown
    <3> QED
      BY <1>4, <2>1, <2>3, <2>4, <3>2, <3>3
  <2>6. CASE current.step = "ALTER" /\ current' = [current EXCEPT !.step = "truncate"] /\ UNCHANGED results
    <3>1. current'.step = "truncate" /\ current'.table = t /\ current' # Idle
      BY <1>1, <1>2, <2>6
    <3>2. Shows => WorkShown'
      BY <2>1, <2>6, <3>1 DEF Shows, WorkShown, AlterShown
    <3> QED
      BY <1>7, <2>1, <2>2, <2>3, <2>4, <2>6, <3>1, <3>2
  <2> QED
    BY <2>1, <2>5, <2>6
<1>17. CASE Replan
  <2>1. /\ current.step = "truncate"
        /\ UNCHANGED <<setting, db, start, disturbed, plans, compared, tables, phase, todo>>
        /\ \/ /\ UNCHANGED results
              /\ current' = [current EXCEPT !.step = "ALTER", !.ddl = Remaining(current.table), !.replanned = TRUE]
           \/ Finish("FAILED")
    BY <1>17 DEF Replan, planned, history
  <2>2. PlansKept'
    BY <1>0, <2>1 DEF PlansKept
  <2>3. CASE /\ UNCHANGED results
             /\ current' = [current EXCEPT !.step = "ALTER", !.ddl = Remaining(current.table), !.replanned = TRUE]
    <3>1. current'.step = "ALTER" /\ current'.table = current.table
      BY <1>0, <2>3 DEF TypeInv, CurrentOK
    <3>2. current # Idle /\ current' # Idle
      BY <1>2, <2>1, <3>1
    <3>3. Shows => WorkShown' /\ ChangeShown'
      BY <2>1, <3>1, ChangeStill DEF Shows, WorkShown, AlterShown
    <3> QED
      BY <1>7, <2>1, <2>2, <2>3, <3>1, <3>2, <3>3
  <2> QED
    BY <1>6, <2>1, <2>2, <2>3
<1>18. CASE Converge
  <2>1. /\ UNCHANGED <<setting, db, start, disturbed, plans, compared, tables, phase, todo>>
        /\ \E status : Finish(status)
    BY <1>18 DEF Converge, planned, history
  <2>2. PlansKept'
    BY <1>0, <2>1 DEF PlansKept
  <2> QED
    BY <1>6, <2>1, <2>2
<1>19. CASE StartDrops
  <2>1. /\ UNCHANGED <<setting, db, start, disturbed, plans, compared, tables, results, current>>
        /\ current = Idle /\ phase = "apply" /\ phase' = "drop"
    BY <1>19 DEF StartDrops, planned, history
  <2>2. PlansKept'
    BY <1>0, <2>1 DEF PlansKept
  <2> QED
    BY <1>5, <2>1, <2>2
<1>20. CASE StartDrop
  <2>1. /\ current = Idle /\ UNCHANGED <<setting, db, start, disturbed, plans, compared, tables, results, phase>>
        /\ current' = [Idle EXCEPT !.table = Pick(todo), !.step = FirstProbe] /\ phase = "drop"
    BY <1>20 DEF StartDrop, planned, history
  <2>2. current'.step = "probeSource"
    BY <2>1 DEF Idle, FirstProbe
  <2>3. PlansKept'
    BY <1>0, <2>1 DEF PlansKept
  <2>4. \A u \in Tables : Untouched(u)' => Untouched(u)
    BY <2>1 DEF Untouched
  <2>5. WorkShown' /\ (Shows => ChangeShown')
    BY <2>1, <2>2, ChangeStill DEF WorkShown
  <2> QED
    BY <1>4, <2>1, <2>3, <2>4, <2>5
<1>21. ASSUME NEW step, step \in {"probeSource", "probeDestination"}, NEW stop, NEW status,
              NEW next, next \in {"probeDestination", "dropTable"}, Probe(step, stop, status, next)
       PROVE  PlansInv'
  <2>1. /\ UNCHANGED <<setting, db, start, disturbed, plans, compared, tables, phase, todo>> /\ current.step = step
        /\ \/ Finish(status) \/ Finish("FAILED")
           \/ current' = [current EXCEPT !.step = next] /\ UNCHANGED results
    BY <1>21 DEF Probe, planned, history
  <2>2. PlansKept'
    BY <1>0, <2>1 DEF PlansKept
  <2>3. CASE current' = [current EXCEPT !.step = next] /\ UNCHANGED results
    <3>1. current'.step = next /\ current'.table = current.table /\ current # Idle /\ current' # Idle
      BY <1>1, <1>2, <1>21, <2>1, <2>3
    <3>2. WorkShown' /\ (Shows => ChangeShown')
      BY <1>21, <2>1, <3>1, ChangeStill DEF WorkShown
    <3> QED
      BY <1>7, <2>1, <2>2, <2>3, <3>1, <3>2
  <2> QED
    BY <1>6, <2>1, <2>2, <2>3
<1>22. CASE ProbeSource
  BY <1>21, <1>22 DEF ProbeSource
<1>23. CASE ProbeDestination
  BY <1>21, <1>23 DEF ProbeDestination
<1>24. CASE DropTable
  <2> DEFINE t == current.table
  <2>1. /\ current.step = "dropTable"
        /\ UNCHANGED <<setting, start, disturbed, plans, compared, tables, phase, todo>>
        /\ (Takes(Absent) \/ UNCHANGED db)
        /\ \/ current' = [current EXCEPT !.step = "check"] /\ UNCHANGED results
           \/ Finish("FAILED")
    BY <1>24 DEF DropTable, planned, history
  <2>2. current # Idle /\ t \in Tables /\ IsEntry(Absent)
    BY <1>2, <1>3, <2>1 DEF IsEntry
  <2>3. PlansKept'
    BY <1>0, <2>1 DEF PlansKept
  <2>4. Shows => ChangeShown'
    BY <1>0, <2>1, <2>2, ChangeStill, ChangeTaken
  <2>5. CASE Finish("FAILED")
    <3>1. DOMAIN results' = DOMAIN results \cup {t} /\ current' = Idle
      BY <2>5 DEF Finish, Put
    <3>2. \A u \in Tables : Untouched(u)' => Untouched(u)
      BY <3>1 DEF Untouched
    <3>3. WorkShown'
      BY <3>1, IdleType DEF WorkShown
    <3> QED
      BY <1>4, <2>1, <2>3, <2>4, <3>2, <3>3
  <2>6. CASE current' = [current EXCEPT !.step = "check"] /\ UNCHANGED results
    <3>1. current'.step = "check" /\ current'.table = t /\ current' # Idle
      BY <1>1, <1>2, <2>6
    <3>2. WorkShown'
      BY <3>1 DEF WorkShown
    <3> QED
      BY <1>7, <2>1, <2>2, <2>3, <2>4, <2>6, <3>1, <3>2
  <2> QED
    BY <2>1, <2>5, <2>6
<1>25. CASE CheckDropped
  <2>1. /\ UNCHANGED <<setting, db, start, disturbed, plans, compared, tables, phase, todo>>
        /\ \E status : Finish(status)
    BY <1>25 DEF CheckDropped, planned, history
  <2>2. PlansKept'
    BY <1>0, <2>1 DEF PlansKept
  <2> QED
    BY <1>6, <2>1, <2>2
<1>26. CASE Verify
  <2>1. current = Idle /\ current' = Idle /\ UNCHANGED <<setting, plans, compared, start, disturbed, db, results>>
        /\ phase' = "ended"
    BY <1>26 DEF Verify, End, planned, history
  <2>2. PlansKept'
    BY <2>1 DEF PlansKept
  <2> QED
    BY <1>5, <2>1, <2>2
<1>27. CASE Rerun
  <2>1. start' = db /\ db' = db /\ current = Idle /\ current' = Idle /\ plans' = Nothing /\ phase' = "listSource"
    BY <1>0, <1>27 DEF Rerun, TypeInv, CourseOK
  <2>2. DOMAIN plans' = {}
    BY <2>1 DEF Nothing
  <2>3. PlansKept'
    BY <2>1 DEF PlansKept
  <2>4. Shows'
    BY <2>1, <2>2, IdleType DEF Shows, PlansTrue, StillDecided, WorkShown, ChangeShown
  <2> QED
    BY <2>3, <2>4 DEF PlansInv
<1>28. CASE Drift
  <2>1. disturbed' /\ UNCHANGED <<plans, phase, todo, tables>>
    BY <1>28 DEF Drift, planned
  <2>2. PlansKept'
    BY <1>0, <2>1 DEF PlansKept
  <2> QED
    BY <2>1, <2>2 DEF PlansInv
<1>29. CASE UNCHANGED vars
  <2>1. /\ UNCHANGED <<setting, plans, compared, start, disturbed, db, results, current, phase, todo, tables>>
    BY <1>29 DEF vars, planned, history
  <2>2. PlansKept'
    BY <1>0, <2>1 DEF PlansKept
  <2>3. \A u \in Tables : Untouched(u)' => Untouched(u)
    BY <2>1 DEF Untouched
  <2>4. Shows => WorkShown' /\ ChangeShown'
    BY <2>1, ChangeStill DEF Shows, WorkShown, AlterShown
  <2> QED
    BY <1>4, <2>1, <2>2, <2>3, <2>4
<1> QED
  BY <1>8, <1>9, <1>10, <1>11, <1>12, <1>13, <1>14, <1>15, <1>16, <1>17, <1>18, <1>19, <1>20,
     <1>22, <1>23, <1>24, <1>25, <1>26, <1>27, <1>28, <1>29 DEF Next, Step

LEMMA TakenShown == RepairInv /\ PlansInv => LossWasShown
<1> SUFFICES ASSUME RepairInv, PlansInv, ~disturbed, NEW t \in Tables,
                    t \in DOMAIN plans => plans[t].mode # "ERROR",
                    start["dst"][t] # db["dst"][t], IsTable(start["dst"][t])
             PROVE  IF db["dst"][t] = Absent THEN t \in extra
                    ELSE /\ Names(start["dst"][t]) \ Names(db["dst"][t])
                              \subseteq UNION {s.dropCol : s \in Shown(t)}
                         /\ \A k \in start["dst"][t].keys :
                              \/ k.cols \in KeySeqs(db["dst"][t])
                              \/ k \in UNION {s.dropKey : s \in Shown(t)}
                              \/ Refs(k, UNION {s.dropCol : s \in Shown(t)})
  BY DEF LossWasShown
<1> DEFINE src == start["src"][t]
           was == start["dst"][t]
           is  == db["dst"][t]
<1>1. /\ AbsentOK /\ KeepsOK /\ StartOK /\ Shows /\ IsEntry(src) /\ IsEntry(was)
  BY DEF RepairInv, CalmInv, Calm, PlansInv, StartOK, Sides
<1>2. CASE is = Absent
  BY <1>1, <1>2 DEF AbsentOK, IsTable
<1>3. CASE is # Absent
  <2>1. t \in DOMAIN plans /\ plans[t].mode = "ALTER"
    BY <1>1, <1>3 DEF Shows, ChangeShown, AlterShown
  <2>2. plans[t].ddl = Plans(src, was, setting.ignore, setting.defaults) /\ IsTable(src)
    BY <1>1, <2>1 DEF Shows, PlansTrue, Needed
  <2>3. IsStruct(src) /\ IsStruct(was)
    BY <1>1, <2>2, TableIsStruct
  <2>4. Keeps(src, was, is, setting)
    BY <1>1 DEF KeepsOK
  <2>5. Bound(src, was, is, setting.ignore)
    BY <1>3, <2>2, <2>4 DEF Keeps
  <2> DEFINE ddl == plans[t].ddl
             cols == UNION {s.dropCol : s \in Shown(t)}
             keys == UNION {s.dropKey : s \in Shown(t)}
  <2>6. Shown(t) = Harmful(ddl)
    BY <2>1 DEF Shown, Harmful
  <2>7. /\ Lacked(src, was, setting.ignore) \subseteq cols
        /\ \A k \in was.keys :
             Unmatched(k, src, setting.ignore) /\ ~Refs(k, Lacked(src, was, setting.ignore)) => k \in keys
    BY <2>2, <2>3, <2>6, LossShown
  <2> HIDE DEF src, was, is, ddl, cols, keys
  <2>8. Names(was) \ Names(is) \subseteq cols
    BY <2>5, <2>7 DEF Bound
  <2>9. ASSUME NEW k \in was.keys PROVE k.cols \in KeySeqs(is) \/ k \in keys \/ Refs(k, cols)
    BY <2>5, <2>7 DEF Bound, Refs
  <2> QED
    BY <1>3, <2>8, <2>9 DEF src, was, is, cols, keys
<1> QED
  BY <1>2, <1>3

LEMMA ShowInit == Init => RepairInv /\ PlansInv
  BY RepairInit, PlansInit DEF RepairInv

LEMMA ShowNext == RepairInv /\ PlansInv /\ [Next]_vars => (RepairInv /\ PlansInv)'
<1> SUFFICES ASSUME RepairInv, PlansInv, [Next]_vars PROVE RepairInv' /\ PlansInv'
  OBVIOUS
<1>1. RepairInv'
  BY RepairNext DEF RepairInv
<1> QED
  BY <1>1, PlansNext

\* Nothing is lost that was not shown: no table, no column and no key of the
\* destination (but a key goes with a column that was shown).
THEOREM LossesShown == Spec => []LossWasShown
<1>1. RepairInv /\ PlansInv => LossWasShown
  BY TakenShown
<1> QED
  BY <1>1, ShowInit, ShowNext, PTL DEF Spec

-----------------------------------------------------------------------------
(***************************************************************************)
(* What exit code 0 says.                                                  *)
(***************************************************************************)
AtWork == IF current = Idle THEN {} ELSE {current.table}

\* No table is forgotten.
BookOK ==
  /\ phase = "compare" => tables \subseteq DOMAIN compared \cup todo
  /\ phase \in {"plan", "apply", "drop"} => tables \subseteq DOMAIN compared
  /\ phase = "apply" => tables \subseteq DOMAIN results \cup todo \cup AtWork
  /\ phase = "drop" => tables \subseteq DOMAIN results /\ extra \subseteq DOMAIN results \cup todo \cup AtWork
  /\ \A t \in DOMAIN results :
       results[t] \in {"APPLIED", "FAILED", "SKIPPED"} /\ (t \in extra => results[t] # "SKIPPED")

LEMMA BookFinish ==
  ASSUME BookOK, NEW status \in {"APPLIED", "FAILED"}, Finish(status),
         UNCHANGED <<phase, tables, extra, compared, todo>>
  PROVE  BookOK'
<1>1. /\ current' = Idle /\ DOMAIN results' = DOMAIN results \cup {current.table}
      /\ \A t \in DOMAIN results' : results'[t] = IF t = current.table THEN status ELSE results[t]
  BY DEF Finish, Put
<1>2. AtWork' = {} /\ AtWork \subseteq {current.table}
  BY <1>1 DEF AtWork
<1> QED
  BY <1>1, <1>2 DEF BookOK

LEMMA BookMove ==
  ASSUME BookOK, UNCHANGED <<phase, tables, extra, compared, todo, results>>, AtWork' = AtWork
  PROVE  BookOK'
  BY DEF BookOK

LEMMA BookInit == Init => BookOK
<1> SUFFICES ASSUME Init PROVE BookOK
  OBVIOUS
<1>1. phase = "listSource" /\ DOMAIN results = {}
  BY DEF Init, Nothing
<1> QED
  BY <1>1 DEF BookOK

LEMMA BookNext == TypeInv /\ BookOK /\ [Next]_vars => BookOK'
<1> SUFFICES ASSUME TypeInv, BookOK, [Next]_vars PROVE BookOK'
  OBVIOUS
<1>1. \A x : [current EXCEPT !.step = x].step = x /\ [current EXCEPT !.step = x].table = current.table
  BY DEF TypeInv, CurrentOK
<1>2. \A c : c.step # "idle" => c # Idle
  BY IdleType
<1>3. CASE ListSource
  <2>1. /\ phase' \in {"compare", "listDestination", "ended"} /\ (phase' = "compare" => todo' = tables')
        /\ results' = Nothing
    BY <1>3 DEF ListSource, End, TypeInv, PhaseOK
  <2> QED
    BY <2>1 DEF BookOK, Nothing
<1>4. CASE ListDestination
  <2>1. /\ phase' \in {"compare", "ended", "listDestination"} /\ (phase' = "compare" => todo' = tables')
        /\ results' = Nothing
    BY <1>4 DEF ListDestination, End, TypeInv, PhaseOK
  <2> QED
    BY <2>1 DEF BookOK, Nothing
<1>5. CASE CompareTable
  <2>1. /\ \E x : compared' = Put(compared, Pick(todo), x)
        /\ phase = "compare" /\ UNCHANGED tables /\ results' = Nothing
        /\ \/ todo = {Pick(todo)} /\ phase' = "plan"
           \/ todo' = todo \ {Pick(todo)} /\ phase' = "compare"
    BY <1>5 DEF CompareTable, TypeInv, PhaseOK
  <2>2. DOMAIN compared' = DOMAIN compared \cup {Pick(todo)}
    BY <2>1 DEF Put
  <2> QED
    BY <2>1, <2>2 DEF BookOK, Nothing
<1>6. CASE NothingToCompare
  <2>1. /\ phase = "compare" /\ todo = {} /\ phase' = "plan" /\ UNCHANGED <<tables, compared>> /\ results' = Nothing
    BY <1>6 DEF NothingToCompare, planned, TypeInv, PhaseOK
  <2> QED
    BY <2>1 DEF BookOK, Nothing
<1>7. CASE PlanTable
  <2>1. /\ phase = "plan" /\ phase' = "plan" /\ UNCHANGED <<tables, compared>> /\ results' = Nothing
    BY <1>7 DEF PlanTable, TypeInv, PhaseOK
  <2> QED
    BY <2>1 DEF BookOK, Nothing
<1>8. CASE Confirm
  <2>1. /\ phase = "plan" /\ UNCHANGED <<tables, compared, extra>> /\ results = Nothing
        /\ \/ phase' = "ended" /\ results' = Nothing
           \/ /\ phase' = "apply" /\ todo' = {t \in tables : plans[t].mode # "SKIP"}
              /\ results' = [t \in {u \in tables : plans[u].mode = "SKIP"} |-> "SKIPPED"]
    BY <1>8 DEF Confirm, End, planned, TypeInv, PhaseOK
  <2>2. CASE phase' = "ended" /\ results' = Nothing
    BY <2>2 DEF BookOK, Nothing
  <2>3. CASE /\ phase' = "apply" /\ todo' = {t \in tables : plans[t].mode # "SKIP"}
             /\ results' = [t \in {u \in tables : plans[u].mode = "SKIP"} |-> "SKIPPED"]
    <3>1. /\ DOMAIN results' = {u \in tables : plans[u].mode = "SKIP"}
          /\ \A t \in DOMAIN results' : results'[t] = "SKIPPED"
      BY <2>3
    <3>2. tables \cap extra = {}
      BY DEF TypeInv, TypeOK, ScopeOK
    <3>3. tables \subseteq DOMAIN results' \cup todo'
      BY <2>3, <3>1
    <3> QED
      BY <2>1, <2>3, <3>1, <3>2, <3>3 DEF BookOK
  <2> QED
    BY <2>1, <2>2, <2>3
<1>9. CASE StartTable
  <2>1. PICK t : t \in {Pick(todo)} /\ todo # {} /\ todo' = todo \ {t} /\ current = Idle
           /\ UNCHANGED <<compared, tables, extra>> /\ phase = "apply" /\ phase' = phase
           /\ \/ \E d \in {Decide(t)} :
                   IF d.mode \in {"CREATE", "ALTER"}
                   THEN /\ current' = [Idle EXCEPT !.table = t, !.step = d.mode, !.ddl = d.ddl]
                        /\ UNCHANGED results
                   ELSE /\ results' = Put(results, t, IF d.mode = "SKIP" THEN "SKIPPED" ELSE "FAILED")
                        /\ UNCHANGED current
              \/ results' = Put(results, t, "FAILED") /\ UNCHANGED current
    BY <1>9 DEF StartTable, planned
  <2>2. t \in todo /\ t \in tables /\ t \notin extra /\ AtWork = {}
    BY <2>1, Picked DEF TypeInv, TypeOK, ScopeOK, PhaseOK, AtWork
  <2>3. ASSUME UNCHANGED results, current'.step # "idle", current'.table = t
        PROVE  BookOK'
    <3>1. AtWork' = {t}
      BY <1>2, <2>3 DEF AtWork
    <3> QED
      BY <2>1, <2>2, <2>3, <3>1 DEF BookOK
  <2>4. ASSUME NEW x \in {"FAILED", "SKIPPED"}, results' = Put(results, t, x), UNCHANGED current PROVE BookOK'
    <3>1. /\ DOMAIN results' = DOMAIN results \cup {t}
          /\ \A u \in DOMAIN results' : results'[u] = IF u = t THEN x ELSE results[u]
      BY <2>4 DEF Put
    <3>2. AtWork' = {}
      BY <2>1, <2>4 DEF AtWork
    <3> QED
      BY <2>1, <2>2, <2>4, <3>1, <3>2 DEF BookOK
  <2>5. \/ \E d : /\ d.mode \in {"CREATE", "ALTER"} /\ UNCHANGED results
                 /\ current' = [Idle EXCEPT !.table = t, !.step = d.mode, !.ddl = d.ddl]
        \/ UNCHANGED current /\ \E x \in {"FAILED", "SKIPPED"} : results' = Put(results, t, x)
    BY <2>1, Zenon
  <2>6. CASE UNCHANGED current /\ \E x \in {"FAILED", "SKIPPED"} : results' = Put(results, t, x)
    BY <2>4, <2>6, Zenon
  <2>7. CASE \E d : /\ d.mode \in {"CREATE", "ALTER"} /\ UNCHANGED results
                   /\ current' = [Idle EXCEPT !.table = t, !.step = d.mode, !.ddl = d.ddl]
    <3>1. PICK d : /\ d.mode \in {"CREATE", "ALTER"} /\ UNCHANGED results
                   /\ current' = [Idle EXCEPT !.table = t, !.step = d.mode, !.ddl = d.ddl]
      BY <2>7
    <3>2. current'.step # "idle" /\ current'.table = t
      BY <3>1 DEF Idle
    <3> QED
      BY <2>3, <3>1, <3>2
  <2> QED
    BY <2>5, <2>6, <2>7, Zenon
<1>10. ASSUME UNCHANGED <<phase, tables, extra, compared, todo>>,
              \/ Finish("FAILED") \/ Finish("APPLIED")
              \/ UNCHANGED results /\ current # Idle /\ current' # Idle /\ current'.table = current.table
       PROVE  BookOK'
  BY <1>10, BookFinish, BookMove DEF AtWork
<1>11. CASE ExecStatement
  <2>1. current'.step = current.step /\ current'.table = current.table /\ current.step # "idle"
    BY <1>11 DEF ExecStatement, TypeInv, CurrentOK
  <2> QED
    BY <1>2, <1>10, <1>11, <2>1 DEF ExecStatement, planned
<1>12. CASE FailStatement
  <2>1. /\ UNCHANGED <<phase, tables, extra, compared, todo>> /\ current.step # "idle"
        /\ Finish("FAILED") \/ (UNCHANGED results /\ current' = [current EXCEPT !.step = "truncate"])
    BY <1>12 DEF FailStatement, planned
  <2> QED
    BY <1>1, <1>2, <1>10, <2>1
<1>13. CASE Replan
  <2>1. /\ UNCHANGED <<phase, tables, extra, compared, todo>> /\ current.step # "idle"
        /\ \/ Finish("FAILED")
           \/ /\ UNCHANGED results
              /\ current' = [current EXCEPT !.step = "ALTER", !.ddl = Remaining(current.table), !.replanned = TRUE]
    BY <1>13 DEF Replan, planned
  <2>2. CASE /\ UNCHANGED results
             /\ current' = [current EXCEPT !.step = "ALTER", !.ddl = Remaining(current.table), !.replanned = TRUE]
    <3>1. current'.step = "ALTER" /\ current'.table = current.table
      BY <2>2 DEF TypeInv, CurrentOK
    <3> QED
      BY <1>2, <1>10, <2>1, <2>2, <3>1
  <2> QED
    BY <1>10, <2>1, <2>2
<1>14. CASE Converge
  BY <1>10, <1>14 DEF Converge, planned
<1>15. CASE StartDrops
  <2>1. /\ phase = "apply" /\ todo = {} /\ current = Idle /\ phase' = "drop" /\ todo' = extra
        /\ UNCHANGED <<tables, extra, compared, results, current>>
    BY <1>15 DEF StartDrops, planned
  <2>2. AtWork = {}
    BY <2>1 DEF AtWork
  <2> QED
    BY <2>1, <2>2 DEF BookOK
<1>16. CASE StartDrop
  <2>1. /\ phase = "drop" /\ phase' = "drop" /\ current = Idle /\ todo' = todo \ {Pick(todo)}
        /\ UNCHANGED <<tables, extra, compared, results>>
        /\ current' = [Idle EXCEPT !.table = Pick(todo), !.step = FirstProbe]
    BY <1>16 DEF StartDrop, planned
  <2>2. current'.step = "probeSource" /\ current'.table = Pick(todo)
    BY <2>1 DEF Idle, FirstProbe
  <2>3. AtWork = {} /\ AtWork' = {Pick(todo)}
    BY <1>2, <2>1, <2>2 DEF AtWork
  <2> QED
    BY <2>1, <2>3 DEF BookOK
<1>17. ASSUME NEW step, step # "idle", NEW stop, NEW status, NEW next, next # "idle",
              status \in {"APPLIED", "FAILED"}, Probe(step, stop, status, next)
       PROVE  BookOK'
  <2>1. /\ UNCHANGED <<phase, tables, extra, compared, todo>> /\ current.step # "idle"
        /\ Finish("FAILED") \/ Finish("APPLIED") \/ (UNCHANGED results /\ current' = [current EXCEPT !.step = next])
    BY <1>17 DEF Probe, planned
  <2> QED
    BY <1>1, <1>2, <1>10, <1>17, <2>1
<1>18. CASE ProbeSource
  BY <1>17, <1>18 DEF ProbeSource
<1>19. CASE ProbeDestination
  BY <1>17, <1>19 DEF ProbeDestination
<1>20. CASE DropTable
  <2>1. /\ UNCHANGED <<phase, tables, extra, compared, todo>> /\ current.step # "idle"
        /\ Finish("FAILED") \/ (UNCHANGED results /\ current' = [current EXCEPT !.step = "check"])
    BY <1>20 DEF DropTable, planned
  <2> QED
    BY <1>1, <1>2, <1>10, <2>1
<1>21. CASE CheckDropped
  BY <1>10, <1>21 DEF CheckDropped, planned
<1>22. CASE Verify
  <2>1. phase' = "ended" /\ UNCHANGED <<results, extra>>
    BY <1>22 DEF Verify, End, planned
  <2> QED
    BY <2>1 DEF BookOK
<1>23. CASE Rerun
  <2>1. phase' = "listSource" /\ DOMAIN results' = {}
    BY <1>23 DEF Rerun, Nothing
  <2> QED
    BY <2>1 DEF BookOK
<1>24. CASE Drift
  BY <1>24 DEF Drift, planned, BookOK, AtWork
<1>25. CASE UNCHANGED vars
  BY <1>25 DEF vars, planned, BookOK, AtWork
<1> QED
  BY <1>3, <1>4, <1>5, <1>6, <1>7, <1>8, <1>9, <1>11, <1>12, <1>13, <1>14, <1>15, <1>16,
     <1>18, <1>19, <1>20, <1>21, <1>22, <1>23, <1>24, <1>25 DEF Next, Step

Found(e) == {t \in Tables : IsTable(start[e][t])}

Working == {"compare", "plan", "apply", "drop"}

ListOK ==
  /\ phase = "listDestination" => tables = Found("src")
  /\ phase \in Working => tables = Found("src") /\ extra = Found("dst") \ Found("src")

\* Nothing is left to do for the table.
Clean(t) == CanCompare(t) /\ StructurePlan(t) = <<>>

\* One of the exceptions of ExitZeroMeansMirrored.
Excused(t) ==
  /\ IsTable(start["src"][t]) /\ IsTable(start["dst"][t])
  /\ ~Fit(start["src"][t], start["dst"][t], setting)

Verdict(t, status) ==
  /\ t \in tables /\ status = "SKIPPED" => Clean(t)
  /\ t \in tables /\ status = "APPLIED" => StructurePlan(t) = <<>> \/ Excused(t)
  /\ t \in extra /\ status = "APPLIED" => db["dst"][t] = Absent

ComparedTrue == \A t \in DOMAIN compared : compared[t] /\ Untouched(t) => CanCompare(t)

DoneTrue == \A t \in DOMAIN results : Verdict(t, results[t])

Ends == exit = 0 => \A t \in Tables : Mirrored(t) \/ Excused(t)

Complete == ListOK /\ ComparedTrue /\ DoneTrue /\ Ends

DoneInv == BookOK /\ (~disturbed /\ WholeDatabase => Complete)

LEMMA CleanSame ==
  ASSUME NEW t, UNCHANGED setting, db'["src"][t] = db["src"][t], db'["dst"][t] = db["dst"][t]
  PROVE  /\ CanCompare(t)' <=> CanCompare(t)
         /\ StructurePlan(t)' = StructurePlan(t)
<1>1. Seen("src", t)' = Seen("src", t) /\ Seen("dst", t)' = Seen("dst", t)
  BY DEF Seen
<1>2. StructurePlan(t)' = StructurePlan(t)
  BY <1>1 DEF StructurePlan
<1>3. CanCompare(t)' <=> CanCompare(t)
  BY <1>1 DEF CanCompare, Comparable, CompatibleCol
<1> QED
  BY <1>2, <1>3

LEMMA VerdictSame ==
  ASSUME NEW t, NEW status, UNCHANGED <<setting, start, tables, extra>>,
         db'["src"][t] = db["src"][t], db'["dst"][t] = db["dst"][t], Verdict(t, status)
  PROVE  Verdict(t, status)'
  BY CleanSame DEF Verdict, Clean, Excused

LEMMA DoneStill ==
  ASSUME DoneTrue, UNCHANGED <<setting, start, tables, extra, results>>,
         db'["src"] = db["src"], \A t \in DOMAIN results : db'["dst"][t] = db["dst"][t]
  PROVE  DoneTrue'
  BY VerdictSame DEF DoneTrue

LEMMA DoneFinish ==
  ASSUME DoneTrue, UNCHANGED <<setting, start, tables, extra>>, db'["src"] = db["src"],
         NEW t, NEW status, results' = Put(results, t, status), Verdict(t, status)',
         \A u \in DOMAIN results : u # t => db'["dst"][u] = db["dst"][u]
  PROVE  DoneTrue'
<1>1. /\ DOMAIN results' = DOMAIN results \cup {t} /\ results'[t] = status
      /\ \A u \in DOMAIN results : u # t => results'[u] = results[u]
  BY DEF Put
<1>2. ASSUME NEW u \in DOMAIN results, u # t, NEW x, x = results[u] PROVE Verdict(u, x)'
  BY <1>2, VerdictSame DEF DoneTrue
<1>3. ASSUME NEW u \in DOMAIN results', NEW x, x = results'[u] PROVE Verdict(u, x)'
  BY <1>1, <1>2, <1>3
<1> QED
  BY <1>3 DEF DoneTrue, Verdict

LEMMA CompleteOn ==
  ASSUME Complete, Calm, Calm', DOMAIN compared \subseteq Tables,
         UNCHANGED <<setting, start, tables, extra, compared>>, phase' \in Working => phase \in Working,
         phase' # "listDestination", exit' # 0, \A t \in Tables : Untouched(t)' => Untouched(t), DoneTrue'
  PROVE  Complete'
<1>1. ListOK'
  BY DEF Complete, ListOK, Found, Working
<1>2. ASSUME NEW t \in DOMAIN compared, compared[t], Untouched(t)' PROVE CanCompare(t)'
  <2>1. Untouched(t) /\ t \in Tables
    BY <1>2
  <2>2. db["dst"][t] = start["dst"][t] /\ db'["dst"][t] = start["dst"][t] /\ db'["src"] = db["src"]
    BY <1>2, <2>1 DEF Calm, UntouchedOK, Untouched
  <2>3. CanCompare(t)
    BY <1>2, <2>1 DEF Complete, ComparedTrue
  <2> QED
    BY <2>2, <2>3, CleanSame
<1>3. ComparedTrue'
  BY <1>2 DEF ComparedTrue
<1>4. Ends'
  BY DEF Ends
<1> QED
  BY <1>1, <1>3, <1>4 DEF Complete

\* A table that can be compared and has no plan is mirrored.
LEMMA CleanMirrored ==
  ASSUME DbOK, NEW t \in Tables, Clean(t)
  PROVE  Mirrored(t)
<1>1. BothThere(t) /\ Comparable(Seen("src", t), Seen("dst", t)) /\ RenderDDL(StructureChanges(t)) = <<>>
  BY PlanRendered DEF Clean, CanCompare, BothThere
<1>2. Aligned(Seen("src", t), Seen("dst", t), setting.defaults)
  BY <1>1, BothPair, NothingLeft DEF StructureChanges
<1>3. ASSUME setting.ignore = {} PROVE OrderAgrees(db["src"][t], db["dst"][t])
  <2> DEFINE s == db["src"][t]
             d == db["dst"][t]
  <2>1. Seen("src", t) = s /\ Seen("dst", t) = d
    BY <1>3 DEF Seen, Visible
  <2>2. [i \in DOMAIN s.cols |-> s.cols[i].name] = [i \in DOMAIN d.cols |-> d.cols[i].name]
    BY <1>1, <1>3, <2>1 DEF Comparable
  <2> HIDE DEF s, d
  <2>3. DOMAIN s.cols = DOMAIN d.cols /\ \A i \in DOMAIN s.cols : s.cols[i].name = d.cols[i].name
    BY <2>2
  <2>4. \A m, n : Before(s, m, n) <=> Before(d, m, n)
    BY <2>3 DEF Before
  <2>5. OrderAgrees(s, d)
    BY <2>4 DEF OrderAgrees
  <2> QED
    BY <2>5 DEF s, d
<1>4. HasTimePair(Seen("src", t), Seen("dst", t)) => setting.tzSwap
  <2> DEFINE s == Seen("src", t)
             d == Seen("dst", t)
  <2> SUFFICES ASSUME NEW n \in Names(s), TimePair(Col(s, n), Col(d, n)) PROVE setting.tzSwap
    BY DEF HasTimePair
  <2>1. CompatibleCol(Col(s, n), Col(d, n))
    BY <1>1 DEF Comparable
  <2>2. /\ Family[Col(s, n).def] # Family[Col(d, n).def]
        /\ Family[Col(s, n).def] \notin Numeric
    BY DEF TimePair, IsTime, Numeric
  <2> QED
    BY <2>1, <2>2 DEF CompatibleCol
<1> QED
  BY <1>1, <1>2, <1>3, <1>4 DEF Mirrored, BothThere

\* A table neither side has.
LEMMA NeitherMirrored ==
  ASSUME Calm, NEW t \in Tables, ~IsTable(start["src"][t]), ~IsTable(db["dst"][t])
  PROVE  Mirrored(t)
  BY DEF Calm, Mirrored

\* A table to be skipped needs nothing.
LEMMA SkipClean ==
  ASSUME BookOK, Complete, WholeDatabase, phase \in {"plan", "apply"}, NEW t \in tables, Untouched(t),
         Decide(t).mode = "SKIP"
  PROVE  Clean(t)
<1>1. setting.schema
  BY DEF WholeDatabase
<1>2. compared[t] /\ BothThere(t) /\ StructurePlan(t) = <<>>
  BY <1>1, DecideIs DEF DecideFacts
<1>3. t \in DOMAIN compared
  BY DEF BookOK
<1> QED
  BY <1>2, <1>3 DEF Complete, ComparedTrue, Clean

\* The statements have all been executed.
LEMMA Converged ==
  ASSUME TypeInv, StructInv, CalmInv, ~disturbed, current.step \in {"CREATE", "ALTER"}, current.ddl = <<>>,
         NEW t, t = current.table
  PROVE  StructurePlan(t) = <<>> \/ Excused(t)
<1>1. t \in Tables
  BY IdleType DEF TypeInv, TypeOK, CourseOK, ScopeOK
<1>2. /\ IsEntry(start["src"][t]) /\ IsEntry(start["dst"][t]) /\ IsEntry(db["dst"][t])
      /\ WorkOK /\ db["src"] = start["src"]
  BY <1>1 DEF CalmInv, Calm, StartOK, StructInv, DbOK, Sides
<1>3. CASE current.step = "ALTER"
  <2>1. Altering(<<>>, start["src"][t], start["dst"][t], db["dst"][t], setting)
    BY <1>2, <1>3 DEF WorkOK
  <2> QED
    BY <1>2, <2>1, NeededIs DEF Altering, Excused
<1>4. CASE current.step = "CREATE"
  <2>1. Creating(<<>>, start["src"][t], start["dst"][t], db["dst"][t], setting)
    BY <1>2, <1>4 DEF WorkOK
  <2> DEFINE src == start["src"][t]
             s   == Visible(src, setting.ignore)
             e   == db["dst"][t]
  <2>2. /\ IsStruct(src) /\ e = Created(s) /\ IsStruct(e) /\ \A c \in ToSet(s.cols) : c.gen = Plain
    BY <1>2, <2>1, TableIsStruct DEF Creating
  <2>3. VisibleFacts(src, setting.ignore, s) /\ VisibleFacts(e, setting.ignore, Visible(e, setting.ignore))
    BY <2>2, VisibleIs
  <2>4. ~Impossible(Created(s))
    BY <2>2 DEF IsStruct
  <2>5. CreatedFacts(src, s, e)
    BY <2>2, <2>3, <2>4, CreatedIs
  <2>6. RenderDDL(Changes(s, Visible(e, setting.ignore), setting.defaults)) = <<>>
    BY <2>2, <2>3, <2>5, CreatedClean
  <2>7. StructurePlan(t) = RenderDDL(Changes(s, Visible(e, setting.ignore), setting.defaults))
    BY <1>2, NeededIs DEF Needed, Plans
  <2> QED
    BY <2>6, <2>7
<1> QED
  BY <1>3, <1>4

LEMMA ListComplete ==
  ASSUME RepairInv, RepairInv', ListSource \/ ListDestination, ~disturbed, WholeDatabase, Complete
  PROVE  Complete'
<1>1. /\ TypeInv /\ Calm
  BY DEF RepairInv, CalmInv
<1>2. /\ current = Idle /\ results = Nothing /\ compared = Nothing
      /\ UNCHANGED <<setting, db, start, compared, results>>
      /\ phase \in {"listSource", "listDestination"}
  BY <1>1 DEF ListSource, ListDestination, TypeInv, CourseOK, PhaseOK, history
<1>3. db["src"] = start["src"] /\ \A t \in Tables : db["dst"][t] = start["dst"][t]
  BY <1>1, <1>2 DEF Calm, UntouchedOK, Nothing
<1>4. /\ Bases("src") = Found("src") /\ Found("src")' = Found("src")
      /\ Bases("dst") = Found("dst") /\ Found("dst")' = Found("dst")
  BY <1>2, <1>3 DEF Bases, Found
<1>5. setting.named = {} /\ setting.excluded = {} /\ ~setting.filtered
  BY DEF WholeDatabase
<1>6. ComparedTrue' /\ DoneTrue'
  BY <1>2 DEF ComparedTrue, DoneTrue, Nothing
<1>7. exit = -1
  BY <1>1, <1>2 DEF TypeInv, TypeOK, OutcomeOK
<1>8. CASE ListSource
  <2>1. \/ tables' = Bases("src") /\ phase' = "listDestination" /\ exit' = exit
        \/ phase' = "ended" /\ exit' = 2
    BY <1>5, <1>8 DEF ListSource, End
  <2>2. ListOK' /\ exit' # 0
    BY <1>4, <1>7, <2>1 DEF ListOK, Working
  <2> QED
    BY <1>6, <2>2 DEF Complete, Ends
<1>9. CASE ListDestination
  <2>1. \/ /\ tables' = tables \ setting.excluded /\ extra' = ExtraTables(tables)
           /\ phase' \in {"compare", "ended"} /\ exit' \in {exit, 3}
        \/ phase' = "ended" /\ exit' = 2
    BY <1>9 DEF ListDestination, End
  <2>2. tables = Found("src")
    BY <1>9 DEF Complete, ListOK, ListDestination
  <2>3. tables \ setting.excluded = Found("src") /\ ExtraTables(tables) = Found("dst") \ Found("src")
    BY <1>4, <1>5, <2>2 DEF ExtraTables
  <2>4. ListOK' /\ exit' # 0
    BY <1>4, <1>7, <2>1, <2>3 DEF ListOK, Working
  <2> QED
    BY <1>6, <2>4 DEF Complete, Ends
<1> QED
  BY <1>8, <1>9

LEMMA CompareComplete ==
  ASSUME RepairInv, RepairInv', CompareTable \/ NothingToCompare, ~disturbed, WholeDatabase, Complete
  PROVE  Complete'
<1>1. TypeInv /\ TypeInv'
  BY DEF RepairInv
<1>2. /\ UNCHANGED <<setting, db, start, tables, extra, results, current>> /\ phase = "compare"
      /\ phase' \in {"compare", "plan"} /\ results = Nothing
      /\ \/ UNCHANGED compared
         \/ \E x \in {FALSE, CanCompare(Pick(todo))} : compared' = Put(compared, Pick(todo), x)
  BY <1>1 DEF CompareTable, NothingToCompare, planned, history, TypeInv, PhaseOK
<1>3. \A t : CanCompare(t)' <=> CanCompare(t)
  BY <1>2, CleanSame
<1>4. ListOK'
  BY <1>2 DEF Complete, ListOK, Working, Found
<1>5. DoneTrue'
  BY <1>2 DEF DoneTrue, Nothing
<1>6. exit' # 0
  BY <1>1, <1>2 DEF TypeInv, TypeOK, OutcomeOK
<1>7. ComparedTrue'
  <2>1. CASE UNCHANGED compared
    BY <1>2, <1>3, <2>1 DEF Complete, ComparedTrue, Untouched
  <2>2. ASSUME NEW x \in {FALSE, CanCompare(Pick(todo))}, compared' = Put(compared, Pick(todo), x)
        PROVE  ComparedTrue'
    <3>1. /\ DOMAIN compared' = DOMAIN compared \cup {Pick(todo)} /\ compared'[Pick(todo)] = x
          /\ \A t \in DOMAIN compared \ {Pick(todo)} : compared'[t] = compared[t]
      BY <2>2 DEF Put
    <3>2. \A t : Untouched(t)' => Untouched(t)
      BY <1>2 DEF Untouched
    <3> QED
      BY <1>3, <2>2, <3>1, <3>2 DEF Complete, ComparedTrue
  <2> QED
    BY <1>2, <2>1, <2>2
<1> QED
  BY <1>4, <1>5, <1>6, <1>7 DEF Complete, Ends

LEMMA PlanComplete ==
  ASSUME RepairInv, RepairInv', PlanTable, ~disturbed, WholeDatabase, Complete
  PROVE  Complete'
<1>1. TypeInv /\ TypeInv' /\ Calm /\ Calm'
  <2>1. ~disturbed'
    BY DEF PlanTable, history
  <2> QED
    BY <2>1 DEF RepairInv, CalmInv
<1>2. /\ UNCHANGED <<setting, db, start, tables, extra, compared, results, current>>
      /\ phase = "plan" /\ phase' = "plan"
  BY DEF PlanTable, history
<1>3. exit' # 0 /\ DOMAIN compared \subseteq Tables
  BY <1>1, <1>2 DEF TypeInv, TypeOK, OutcomeOK, PlansOK, ScopeOK
<1>4. DoneTrue'
  BY <1>2, DoneStill DEF Complete
<1>5. \A t \in Tables : Untouched(t)' => Untouched(t)
  BY <1>2 DEF Untouched
<1> QED
  BY <1>1, <1>2, <1>3, <1>4, <1>5, CompleteOn DEF Working

LEMMA ConfirmComplete ==
  ASSUME RepairInv, RepairInv', PlansInv, BookOK, Confirm, ~disturbed, WholeDatabase, Complete
  PROVE  Complete'
<1>1. /\ TypeInv /\ TypeInv' /\ Calm /\ Calm' /\ DbOK /\ Shows /\ PlansKept
  <2>1. ~disturbed'
    BY DEF Confirm
  <2> QED
    BY <2>1 DEF RepairInv, CalmInv, StructInv, PlansInv
<1>2. /\ UNCHANGED <<setting, db, start, tables, extra, compared>> /\ phase = "plan" /\ todo = {}
      /\ current = Idle /\ current' = Idle /\ results = Nothing
  BY <1>1 DEF Confirm, End, planned, TypeInv, CourseOK, PhaseOK
<1>3. \A t : Untouched(t)
  BY <1>2 DEF Untouched, Nothing
<1>4. ASSUME NEW t \in tables, plans[t].mode = "SKIP" PROVE Clean(t)
  <2>1. t \in DOMAIN plans
    BY <1>1, <1>2 DEF PlansKept
  <2>2. Decide(t).mode = "SKIP"
    BY <1>1, <1>3, <1>4, <2>1 DEF Shows, StillDecided
  <2> QED
    BY <1>2, <1>3, <1>4, <2>2, SkipClean
<1>5. \A t : Clean(t) => Clean(t)'
  BY <1>2, CleanSame DEF Clean
<1>6. tables \subseteq Tables /\ tables = Found("src") /\ extra = Found("dst") \ Found("src")
  BY <1>1, <1>2 DEF TypeInv, TypeOK, ScopeOK, Complete, ListOK, Working
<1>7. CASE /\ phase' = "apply"
           /\ results' = [t \in {u \in tables : plans[u].mode = "SKIP"} |-> "SKIPPED"]
  <2>1. \A t \in DOMAIN results' : results'[t] = "SKIPPED" /\ t \in tables /\ Clean(t)
    BY <1>4, <1>7
  <2>2. \A t \in DOMAIN results' : Verdict(t, "SKIPPED")'
    BY <1>5, <2>1 DEF Verdict
  <2>3. DoneTrue'
    BY <2>1, <2>2 DEF DoneTrue, Verdict
  <2>4. exit' # 0
    BY <1>1, <1>7 DEF TypeInv, TypeOK, OutcomeOK
  <2>5. DOMAIN compared \subseteq Tables
    BY <1>1, <1>6 DEF TypeInv, TypeOK, PlansOK
  <2> QED
    BY <1>1, <1>2, <1>3, <1>7, <2>3, <2>4, <2>5, CompleteOn DEF Working
<1>8. CASE phase' = "ended" /\ results' = results /\ exit' \in {0, 3}
  <2>1. DoneTrue' /\ ListOK'
    BY <1>2, <1>8 DEF DoneTrue, Nothing, ListOK, Working
  <2>2. ComparedTrue'
    BY <1>2, <1>3, CleanSame DEF Complete, ComparedTrue
  <2>3. ASSUME exit' = 0, NEW t \in Tables PROVE Mirrored(t)'
    <3>1. extra = {} /\ {plans[u].mode : u \in tables} = {"SKIP"}
      <4>1. exit = -1
        BY <1>1, <1>2 DEF TypeInv, TypeOK, OutcomeOK
      <4> QED
        BY <2>3, <4>1 DEF Confirm, End
    <3>2. CASE t \in tables
      <4>1. Clean(t)
        BY <1>4, <3>1, <3>2
      <4>2. Mirrored(t)
        BY <1>1, <4>1, CleanMirrored
      <4> QED
        BY <1>2, <4>2 DEF Mirrored, Seen
    <3>3. CASE t \notin tables
      <4>1. ~IsTable(start["src"][t]) /\ ~IsTable(start["dst"][t]) /\ db["dst"][t] = start["dst"][t]
        BY <1>1, <1>3, <1>6, <3>1, <3>3 DEF Found, Calm, UntouchedOK, Untouched
      <4>2. Mirrored(t)
        BY <1>1, <4>1, NeitherMirrored
      <4> QED
        BY <1>2, <4>2 DEF Mirrored, Seen
    <3> QED
      BY <3>2, <3>3
  <2> QED
    BY <2>1, <2>2, <2>3 DEF Complete, Ends
<1>9. \/ phase' = "ended" /\ results' = results /\ exit' \in {0, 3}
      \/ phase' = "apply" /\ results' = [t \in {u \in tables : plans[u].mode = "SKIP"} |-> "SKIPPED"]
  BY DEF Confirm, End
<1> QED
  BY <1>7, <1>8, <1>9

LEMMA VerifyComplete ==
  ASSUME RepairInv, RepairInv', BookOK, Verify, ~disturbed, WholeDatabase, Complete
  PROVE  Complete'
<1>1. /\ TypeInv /\ Calm /\ DbOK
  BY DEF RepairInv, CalmInv, StructInv
<1>2. /\ UNCHANGED <<setting, db, start, tables, extra, compared, results>> /\ phase = "drop" /\ todo = {}
      /\ current = Idle /\ current' = Idle /\ phase' = "ended"
      /\ \E V \in {[t \in {u \in tables : results[u] = "APPLIED"} |-> CanCompare(t)]}
                \cup {[t \in {u \in tables : results[u] = "APPLIED"} |-> t # lost /\ CanCompare(t)] :
                        lost \in tables} :
           exit' \in {ExitCode(V), 2}
  <2> DEFINE written == {u \in tables : results[u] = "APPLIED"}
             V       == [t \in written |-> CanCompare(t)]
             W(lost) == [t \in written |-> t # lost /\ CanCompare(t)]
  <2>1. exit' \in {ExitCode(V), 2} \/ \E lost \in written : exit' = ExitCode(W(lost))
    BY DEF Verify, End
  <2>2. \E X \in {V} \cup {W(lost) : lost \in tables} : exit' \in {ExitCode(X), 2}
    <3> HIDE DEF V, W
    <3> QED
      BY <2>1
  <2> QED
    BY <2>2 DEF Verify, End, planned, history
<1>3. DoneTrue' /\ ListOK'
  BY <1>2, DoneStill DEF Complete, ListOK, Working
<1>4. ComparedTrue'
  BY <1>2, CleanSame DEF Complete, ComparedTrue, Untouched
<1>5. /\ tables = Found("src") /\ extra = Found("dst") \ Found("src")
      /\ tables \subseteq DOMAIN results /\ extra \subseteq DOMAIN results
      /\ DOMAIN results \subseteq tables \cup extra
  BY <1>1, <1>2 DEF Complete, ListOK, Working, BookOK, AtWork, TypeInv, TypeOK, ResultsOK
<1>6. ASSUME exit' = 0, NEW t \in Tables PROVE (Mirrored(t) \/ Excused(t))'
  <2>1. /\ \A u \in DOMAIN results : results[u] # "FAILED"
        /\ \A u \in tables : results[u] = "APPLIED" => CanCompare(u)
    <3> DEFINE written == {u \in tables : results[u] = "APPLIED"}
               V       == [u \in written |-> CanCompare(u)]
               W(lost) == [u \in written |-> u # lost /\ CanCompare(u)]
    <3>0. PICK verified \in {V} \cup {W(lost) : lost \in tables} : exit' \in {ExitCode(verified), 2}
      BY <1>2
    <3>1. \A u \in tables : results[u] = "APPLIED" => u \in DOMAIN verified /\ (verified[u] => CanCompare(u))
      BY <3>0
    <3>2. ExitCode(verified) = 0
      BY <1>6, <3>0
    <3>3. \A u \in DOMAIN results : results[u] # "FAILED"
      BY <3>2 DEF ExitCode
    <3>4. \A u \in DOMAIN verified : verified[u]
      BY <3>2 DEF ExitCode
    <3> QED
      BY <3>1, <3>3, <3>4
  <2>2. CASE t \in tables
    <3>1. results[t] \in {"APPLIED", "SKIPPED"} /\ Verdict(t, results[t])
      BY <1>5, <2>1, <2>2 DEF BookOK, Complete, DoneTrue
    <3>2. Clean(t) \/ Excused(t)
      BY <2>1, <2>2, <3>1 DEF Verdict, Clean
    <3>3. Mirrored(t) \/ Excused(t)
      BY <1>1, <3>2, CleanMirrored
    <3> QED
      BY <1>2, <3>3 DEF Mirrored, Excused, Seen
  <2>3. CASE t \notin tables
    <3>1. ~IsTable(start["src"][t])
      BY <1>5, <2>3 DEF Found
    <3>2. ~IsTable(db["dst"][t])
      <4>1. CASE t \in extra
        <5>1. results[t] = "APPLIED" /\ Verdict(t, results[t])
          BY <1>5, <2>1, <4>1 DEF BookOK, Complete, DoneTrue
        <5> QED
          BY <4>1, <5>1 DEF Verdict, IsTable
      <4>2. CASE t \notin extra
        <5>1. ~IsTable(start["dst"][t]) /\ Untouched(t)
          BY <1>2, <1>5, <2>3, <4>2 DEF Found, Untouched
        <5> QED
          BY <1>1, <5>1 DEF Calm, UntouchedOK, Untouched
      <4> QED
        BY <4>1, <4>2
    <3>3. Mirrored(t)
      BY <1>1, <3>1, <3>2, NeitherMirrored
    <3> QED
      BY <1>2, <3>3 DEF Mirrored, Seen
  <2> QED
    BY <2>2, <2>3
<1>7. Ends'
  BY <1>6 DEF Ends
<1> QED
  BY <1>3, <1>4, <1>7 DEF Complete

\* The steps at one table.
LEMMA WorkComplete ==
  ASSUME RepairInv, RepairInv', PlansInv, BookOK, ~disturbed, WholeDatabase, Complete,
         \/ StartTable \/ ExecStatement \/ FailStatement \/ Replan \/ Converge
         \/ StartDrops \/ StartDrop \/ ProbeSource \/ ProbeDestination \/ DropTable \/ CheckDropped
  PROVE  Complete'
<1>1. /\ TypeInv /\ TypeInv' /\ StructInv /\ DbOK /\ CalmInv /\ CalmInv' /\ DoneTrue
  BY DEF RepairInv, StructInv, Complete
<1>2. /\ UNCHANGED <<setting, start, tables, extra, compared, disturbed>>
      /\ phase \in {"apply", "drop"} /\ phase' \in {"apply", "drop"}
  <2>1. /\ current.step \in {"CREATE", "ALTER", "truncate"} => phase = "apply"
        /\ current.step \in {"probeSource", "probeDestination", "dropTable", "check"} => phase = "drop"
    BY <1>1, IdleType DEF TypeInv, CourseOK
  <2> QED
    BY <2>1 DEF StartTable, ExecStatement, FailStatement, Replan, Converge, StartDrops, StartDrop,
       ProbeSource, ProbeDestination, Probe, DropTable, CheckDropped, planned, history
<1>3. exit' # 0 /\ DOMAIN compared \subseteq Tables /\ Calm /\ Calm' /\ Shows
  BY <1>1, <1>2 DEF TypeInv, TypeOK, OutcomeOK, PlansOK, ScopeOK, CalmInv, PlansInv
<1>4. db'["src"] = db["src"]
  BY <1>2, <1>3 DEF Calm
<1>5. current.step # "idle" => /\ current # Idle /\ current.table \in Tables /\ current.table \notin DOMAIN results
  BY <1>1, IdleType DEF TypeInv, TypeOK, CourseOK, ScopeOK, ResultsOK
<1>6. \A x : [current EXCEPT !.step = x].step = x /\ [current EXCEPT !.step = x].table = current.table
  BY <1>1 DEF TypeInv, CurrentOK
<1>7. ASSUME DoneTrue', \A t \in Tables : Untouched(t)' => Untouched(t) PROVE Complete'
  BY <1>2, <1>3, <1>7, CompleteOn DEF Working
\* No table gets its result.
<1>8. ASSUME UNCHANGED results, current = Idle \/ (current' # Idle /\ current'.table = current.table),
             \A u \in Tables : u # current.table \/ current = Idle => db'["dst"][u] = db["dst"][u]
      PROVE  Complete'
  <2>1. DOMAIN results \subseteq Tables
    BY <1>1 DEF TypeInv, TypeOK, ResultsOK, ScopeOK
  <2>2. \A u \in DOMAIN results : db'["dst"][u] = db["dst"][u]
    BY <1>1, <1>8, <2>1 DEF TypeInv, TypeOK, ResultsOK
  <2>3. DoneTrue'
    BY <1>1, <1>2, <1>4, <1>8, <2>2, DoneStill
  <2>4. \A t \in Tables : Untouched(t)' => Untouched(t)
    BY <1>8 DEF Untouched
  <2> QED
    BY <1>7, <2>3, <2>4
\* The table gets its result.
<1>9. ASSUME NEW t, t = current.table \/ (current = Idle /\ t \in Tables),
             NEW status, results' = Put(results, t, status), current' = Idle,
             Verdict(t, status)', \A u \in Tables : u # t => db'["dst"][u] = db["dst"][u]
      PROVE  Complete'
  <2>1. DOMAIN results' = DOMAIN results \cup {t}
    BY <1>9 DEF Put
  <2>2. DOMAIN results \subseteq Tables
    BY <1>1 DEF TypeInv, TypeOK, ResultsOK, ScopeOK
  <2>3. DoneTrue'
    BY <1>1, <1>2, <1>4, <1>9, <2>2, DoneFinish
  <2>4. \A u \in Tables : Untouched(u)' => Untouched(u)
    BY <1>9, <2>1 DEF Untouched
  <2> QED
    BY <1>7, <2>3, <2>4
<1>10. ASSUME Finish("FAILED"), \A u \in Tables : u # current.table => db'["dst"][u] = db["dst"][u]
       PROVE  Complete'
  <2>1. ASSUME NEW t, t = current.table PROVE Complete'
    <3>1. Verdict(t, "FAILED")'
      BY DEF Verdict
    <3> QED
      BY <1>9, <1>10, <2>1, <3>1 DEF Finish
  <2> QED
    BY <2>1
<1>11. ASSUME UNCHANGED db, Finish("APPLIED"),
              \A t : t = current.table => (t \in tables => StructurePlan(t) = <<>> \/ Excused(t)),
              \A t : t = current.table => (t \in extra => db["dst"][t] = Absent)
       PROVE  Complete'
  <2>1. ASSUME NEW t, t = current.table PROVE Complete'
    <3>1. Verdict(t, "APPLIED")
      BY <1>11, <2>1 DEF Verdict
    <3>2. Verdict(t, "APPLIED")'
      BY <1>2, <1>11, <3>1, VerdictSame
    <3> QED
      BY <1>9, <1>11, <2>1, <3>2 DEF Finish
  <2> QED
    BY <2>1
<1>12. ASSUME NEW x, Takes(x), IsEntry(x), current.step # "idle"
       PROVE  \A u \in Tables : u # current.table => db'["dst"][u] = db["dst"][u]
  BY <1>1, <1>5, <1>12, TakesIs
<1>13. CASE StartTable
  <2>1. PICK t : t \in {Pick(todo)} /\ todo # {} /\ current = Idle /\ UNCHANGED db /\ phase = "apply"
           /\ \/ \E d \in {Decide(t)} :
                   IF d.mode \in {"CREATE", "ALTER"}
                   THEN UNCHANGED results
                   ELSE /\ results' = Put(results, t, IF d.mode = "SKIP" THEN "SKIPPED" ELSE "FAILED")
                        /\ UNCHANGED current
              \/ results' = Put(results, t, "FAILED") /\ UNCHANGED current
    BY <1>13 DEF StartTable
  <2>2. t \in tables /\ t \in Tables /\ t \notin extra /\ t \notin DOMAIN results
    BY <1>1, <2>1, Picked DEF TypeInv, TypeOK, ScopeOK, PhaseOK, ResultsOK
  <2>3. CASE UNCHANGED results
    BY <1>8, <2>1, <2>3
  <2>4. CASE results' = Put(results, t, "FAILED") /\ UNCHANGED current
    <3>1. Verdict(t, "FAILED")'
      BY DEF Verdict
    <3> QED
      BY <1>9, <2>1, <2>2, <2>4, <3>1
  <2>5. CASE Decide(t).mode = "SKIP" /\ results' = Put(results, t, "SKIPPED") /\ UNCHANGED current
    <3>1. Untouched(t)
      BY <2>1, <2>2 DEF Untouched
    <3>2. Clean(t)
      BY <2>1, <2>2, <2>5, <3>1, SkipClean
    <3>3. Verdict(t, "SKIPPED")
      BY <2>2, <3>2 DEF Verdict
    <3>4. Verdict(t, "SKIPPED")'
      BY <1>2, <2>1, <3>3, VerdictSame
    <3> QED
      BY <1>9, <2>1, <2>2, <2>5, <3>4
  <2> QED
    BY <2>1, <2>3, <2>4, <2>5
<1>14. CASE ExecStatement
  <2>1. /\ current.step \in {"CREATE", "ALTER"} /\ current.ddl # <<>> /\ Effect # Absent /\ Takes(Effect)
        /\ current' = [current EXCEPT !.ddl = Tail(@)] /\ UNCHANGED results
    BY <1>14 DEF ExecStatement
  <2>2. current'.step = current.step /\ current'.table = current.table
    BY <1>1, <2>1 DEF TypeInv, CurrentOK
  <2>3. current # Idle /\ current' # Idle /\ IsEntry(Effect)
    BY <1>1, <2>1, <2>2, IdleType, EffectIs DEF IsEntry
  <2>4. \A u \in Tables : u # current.table => db'["dst"][u] = db["dst"][u]
    BY <1>12, <2>1, <2>3
  <2> QED
    BY <1>8, <2>1, <2>2, <2>3, <2>4
<1>15. CASE FailStatement
  <2>1. /\ current.step \in {"CREATE", "ALTER"} /\ current.ddl # <<>>
        /\ (UNCHANGED db \/ (Effect # Absent /\ Takes(Effect)))
        /\ \/ current' = [current EXCEPT !.step = "truncate"] /\ UNCHANGED results
           \/ Finish("FAILED")
    BY <1>15 DEF FailStatement
  <2>2. Effect # Absent => IsEntry(Effect)
    BY <1>1, <2>1, EffectIs DEF IsEntry
  <2>3. \A u \in Tables : u # current.table => db'["dst"][u] = db["dst"][u]
    BY <1>12, <2>1, <2>2
  <2>4. CASE current' = [current EXCEPT !.step = "truncate"] /\ UNCHANGED results
    <3>1. current # Idle /\ current' # Idle /\ current'.table = current.table
      BY <1>6, <2>1, <2>4, IdleType
    <3> QED
      BY <1>8, <2>3, <2>4, <3>1
  <2> QED
    BY <1>10, <2>1, <2>3, <2>4
<1>16. CASE Replan
  <2>1. /\ current.step = "truncate" /\ UNCHANGED db
        /\ \/ /\ UNCHANGED results
              /\ current' = [current EXCEPT !.step = "ALTER", !.ddl = Remaining(current.table), !.replanned = TRUE]
           \/ Finish("FAILED")
    BY <1>16 DEF Replan
  <2>2. CASE /\ UNCHANGED results
             /\ current' = [current EXCEPT !.step = "ALTER", !.ddl = Remaining(current.table), !.replanned = TRUE]
    <3>1. current'.step = "ALTER" /\ current'.table = current.table
      BY <1>1, <2>2 DEF TypeInv, CurrentOK
    <3>2. current # Idle /\ current' # Idle
      BY <2>1, <3>1, IdleType
    <3> QED
      BY <1>8, <2>1, <2>2, <3>1, <3>2
  <2> QED
    BY <1>10, <2>1, <2>2
<1>17. CASE Converge
  <2>1. /\ current.step \in {"CREATE", "ALTER"} /\ current.ddl = <<>> /\ UNCHANGED db
        /\ Finish("APPLIED") \/ Finish("FAILED")
    BY <1>17 DEF Converge
  <2>2. \A t : t = current.table => t \notin extra /\ (StructurePlan(t) = <<>> \/ Excused(t))
    BY <1>1, <2>1, Converged, IdleType DEF TypeInv, TypeOK, CourseOK, ScopeOK
  <2> QED
    BY <1>10, <1>11, <2>1, <2>2
<1>18. CASE StartDrops \/ StartDrop
  <2>1. current = Idle /\ UNCHANGED <<db, results>>
    BY <1>18 DEF StartDrops, StartDrop
  <2> QED
    BY <1>8, <2>1
<1>19. ASSUME current.step \in {"probeSource", "probeDestination", "dropTable", "check"}
       PROVE  \A t : t = current.table => t \notin tables
  BY <1>1, <1>19, IdleType DEF TypeInv, TypeOK, CourseOK, ScopeOK
<1>20. CASE ProbeSource
  <2>1. /\ current.step = "probeSource" /\ UNCHANGED db
        /\ Finish("FAILED") \/ (current' = [current EXCEPT !.step = "probeDestination"] /\ UNCHANGED results)
    BY <1>20 DEF ProbeSource, Probe
  <2>2. CASE current' = [current EXCEPT !.step = "probeDestination"] /\ UNCHANGED results
    <3>1. current # Idle /\ current' # Idle /\ current'.table = current.table
      BY <1>6, <2>1, <2>2, IdleType
    <3> QED
      BY <1>8, <2>1, <2>2, <3>1
  <2> QED
    BY <1>10, <2>1, <2>2
<1>21. CASE ProbeDestination
  <2>1. /\ current.step = "probeDestination" /\ UNCHANGED db
        /\ \/ Finish("FAILED") \/ (~There("dst") /\ Finish("APPLIED"))
           \/ current' = [current EXCEPT !.step = "dropTable"] /\ UNCHANGED results
    BY <1>21 DEF ProbeDestination, Probe
  <2>2. CASE current' = [current EXCEPT !.step = "dropTable"] /\ UNCHANGED results
    <3>1. current # Idle /\ current' # Idle /\ current'.table = current.table
      BY <1>6, <2>1, <2>2, IdleType
    <3> QED
      BY <1>8, <2>1, <2>2, <3>1
  <2>3. CASE ~There("dst") /\ Finish("APPLIED")
    BY <1>11, <1>19, <2>1, <2>3 DEF There
  <2> QED
    BY <1>10, <2>1, <2>2, <2>3
<1>22. CASE DropTable
  <2>1. /\ current.step = "dropTable"
        /\ (Takes(Absent) \/ UNCHANGED db)
        /\ \/ current' = [current EXCEPT !.step = "check"] /\ UNCHANGED results
           \/ Finish("FAILED")
    BY <1>22 DEF DropTable
  <2>2. \A u \in Tables : u # current.table => db'["dst"][u] = db["dst"][u]
    BY <1>12, <2>1 DEF IsEntry
  <2>3. CASE current' = [current EXCEPT !.step = "check"] /\ UNCHANGED results
    <3>1. current # Idle /\ current' # Idle /\ current'.table = current.table
      BY <1>6, <2>1, <2>3, IdleType
    <3> QED
      BY <1>8, <2>2, <2>3, <3>1
  <2> QED
    BY <1>10, <2>1, <2>2, <2>3
<1>23. CASE CheckDropped
  <2>1. /\ current.step = "check" /\ UNCHANGED db
        /\ Finish("FAILED") \/ (~There("dst") /\ Finish("APPLIED"))
    BY <1>23 DEF CheckDropped
  <2>2. CASE ~There("dst") /\ Finish("APPLIED")
    BY <1>11, <1>19, <2>1, <2>2 DEF There
  <2> QED
    BY <1>10, <2>1, <2>2
<1> QED
  BY <1>13, <1>14, <1>15, <1>16, <1>17, <1>18, <1>20, <1>21, <1>22, <1>23

LEMMA DoneInit == Init => DoneInv
<1> SUFFICES ASSUME Init PROVE DoneInv
  OBVIOUS
<1>1. DOMAIN results = {} /\ DOMAIN compared = {} /\ phase = "listSource" /\ exit = -1
  BY DEF Init, Nothing
<1>2. Complete
  BY <1>1 DEF Complete, ListOK, Working, ComparedTrue, DoneTrue, Ends
<1> QED
  BY <1>2, BookInit DEF DoneInv

LEMMA DoneNext == RepairInv /\ RepairInv' /\ PlansInv /\ DoneInv /\ [Next]_vars => DoneInv'
<1> SUFFICES ASSUME RepairInv, RepairInv', PlansInv, DoneInv, [Next]_vars PROVE DoneInv'
  OBVIOUS
<1>1. BookOK' /\ BookOK
  BY BookNext DEF RepairInv, DoneInv
<1>2. CASE Step
  <2>1. UNCHANGED <<setting, disturbed>>
    BY <1>2 DEF Step, ListSource, ListDestination, CompareTable, NothingToCompare, PlanTable, Confirm,
       StartTable, ExecStatement, FailStatement, Replan, Converge, StartDrops, StartDrop, ProbeSource,
       ProbeDestination, Probe, DropTable, CheckDropped, Verify, history
  <2>2. ASSUME ~disturbed, WholeDatabase PROVE Complete'
    <3>1. Complete
      BY <2>2 DEF DoneInv
    <3> QED
      BY <1>1, <1>2, <2>2, <3>1, ListComplete, CompareComplete, PlanComplete, ConfirmComplete,
         WorkComplete, VerifyComplete DEF Step
  <2>3. WholeDatabase' <=> WholeDatabase
    BY <2>1 DEF WholeDatabase
  <2> QED
    BY <1>1, <2>1, <2>2, <2>3 DEF DoneInv
<1>3. CASE Rerun
  <2>1. DOMAIN results' = {} /\ DOMAIN compared' = {} /\ phase' = "listSource" /\ exit' = -1
    BY <1>3 DEF Rerun, Nothing
  <2>2. Complete'
    BY <2>1 DEF Complete, ListOK, Working, ComparedTrue, DoneTrue, Ends
  <2> QED
    BY <1>1, <2>2 DEF DoneInv
<1>4. CASE Drift
  BY <1>1, <1>4 DEF Drift, DoneInv
<1>5. CASE UNCHANGED vars
  <2>1. UNCHANGED <<setting, db, phase, tables, extra, compared, current, results, exit, start, disturbed>>
    BY <1>5 DEF vars, planned, history
  <2>2. \A t : (CanCompare(t)' <=> CanCompare(t)) /\ \A status : Verdict(t, status) => Verdict(t, status)'
    BY <2>1, CleanSame, VerdictSame
  <2>3. ASSUME Complete PROVE Complete'
    <3>1. ListOK'
      BY <2>1, <2>3 DEF Complete, ListOK, Found
    <3>2. ComparedTrue'
      BY <2>1, <2>2, <2>3 DEF Complete, ComparedTrue, Untouched
    <3>3. DoneTrue'
      BY <2>1, <2>3, DoneStill DEF Complete
    <3>4. Ends'
      BY <2>1, <2>3 DEF Complete, Ends, Mirrored, Excused, Seen
    <3> QED
      BY <3>1, <3>2, <3>3, <3>4 DEF Complete
  <2>4. WholeDatabase' <=> WholeDatabase
    BY <2>1 DEF WholeDatabase
  <2> QED
    BY <1>1, <2>1, <2>3, <2>4 DEF DoneInv
<1> QED
  BY <1>2, <1>3, <1>4, <1>5 DEF Next

LEMMA EndsMirrored == RepairInv /\ DoneInv => ExitZeroMeansMirrored
<1> SUFFICES ASSUME RepairInv, DoneInv, exit = 0, ~disturbed, WholeDatabase, NEW t \in Tables, ~Mirrored(t)
             PROVE  /\ IsTable(start["src"][t]) /\ IsTable(start["dst"][t])
                    /\ \/ ~NoKeyShrinks(Seen("src", t), Visible(start["dst"][t], setting.ignore))
                       \/ ~PrimaryNotNull(Seen("src", t), start["dst"][t])
  BY DEF ExitZeroMeansMirrored
<1>1. Excused(t)
  BY DEF DoneInv, Complete, Ends
<1>2. db["src"] = start["src"]
  BY DEF RepairInv, CalmInv, Calm
<1> QED
  BY <1>1, <1>2 DEF Excused, Fit, Seen

LEMMA ExitInit == Init => RepairInv /\ PlansInv /\ DoneInv
  BY ShowInit, DoneInit

LEMMA ExitNext == RepairInv /\ PlansInv /\ DoneInv /\ [Next]_vars => (RepairInv /\ PlansInv /\ DoneInv)'
<1> SUFFICES ASSUME RepairInv, PlansInv, DoneInv, [Next]_vars PROVE RepairInv' /\ PlansInv' /\ DoneInv'
  OBVIOUS
<1>1. RepairInv' /\ PlansInv'
  BY ShowNext
<1> QED
  BY <1>1, DoneNext

\* Exit code 0 of a whole-database run nobody disturbed: both sides have the
\* same tables, and each table the same columns and keys, with the two
\* exceptions the property names.
THEOREM ExitZeroMirrors == Spec => []ExitZeroMeansMirrored
<1>1. RepairInv /\ DoneInv => ExitZeroMeansMirrored
  BY EndsMirrored
<1> QED
  BY <1>1, ExitInit, ExitNext, PTL DEF Spec
===============================================================================
