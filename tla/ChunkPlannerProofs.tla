------------------------- MODULE ChunkPlannerProofs -------------------------
(***************************************************************************)
(* The planner, for any key values, any chunk size and any number of rows  *)
(* and of changes by other sessions: its chunks leave no gap, and there    *)
(* are never more of them than rows it was asked to cut; on keys of at     *)
(* most two columns, or cut on an integer lead column, they do not overlap *)
(* either and come in order.                                               *)
(***************************************************************************)
EXTENDS ChunkPlanner, KeyRangeProofs, SequenceTheorems

-----------------------------------------------------------------------------
(***************************************************************************)
(* The inductive invariant.  The chunks emitted (cs) and the intervals     *)
(* still to split (ws) are one chain of cuts, from the lower extreme to    *)
(* the upper one: emitting an interval leaves the cuts as they are,        *)
(* splitting one adds a cut.                                               *)
(***************************************************************************)
Cut(low, cs, ws, p) ==
  IF p = 0 THEN low ELSE IF p <= Len(cs) THEN cs[p].hi ELSE ws[p - Len(cs)].hi

Parts(keys)   == [lo : keys, hi : keys, incl : BOOLEAN, rows : Nat \ {0}]
Samples(keys) == [id : Nat, lo : keys, loIncl : BOOLEAN, hi : keys, prefix : {0}]

\* An interval starts at the cut where the one before it ends, and only the
\* first one has its lower bound.
Joined(low, high, cs, ws) ==
  /\ Len(cs) + Len(ws) > 0 /\ Cut(low, cs, ws, Len(cs) + Len(ws)) = high
  /\ \A p \in 1..Len(cs) : /\ cs[p].id = p - 1
                           /\ cs[p].lo = Cut(low, cs, ws, p - 1) /\ (cs[p].loIncl <=> p = 1)
  /\ \A j \in 1..Len(ws) : /\ ws[j].lo = Cut(low, cs, ws, Len(cs) + j - 1)
                           /\ (ws[j].incl <=> Len(cs) + j = 1)

\* The cuts rise, strictly after the first.  They need not while there is
\* only one interval (the extremes are read by two queries), nor when NULL
\* is an upper bound of a single column, which lets every row through, nor
\* with three columns, where a split point may lie outside its interval.
Rising(low, cs, ws) ==
  \A p, q \in 0..(Len(cs) + Len(ws)) : p < q =>
    /\ KeyLeq(Cut(low, cs, ws, p), Cut(low, cs, ws, q))
    /\ p > 0 => KeyLess(Cut(low, cs, ws, p), Cut(low, cs, ws, q))
NullCut(low, cs, ws) == \E p \in 1..(Len(cs) + Len(ws)) : HasNull(Cut(low, cs, ws, p))
OrderOK(cols, low, cs, ws) ==
  cols > 2 \/ (cols = 1 /\ NullCut(low, cs, ws)) \/ Len(cs) + Len(ws) = 1 \/ Rising(low, cs, ws)

\* Prefix sums of the rows the intervals stand for: there is an emitted
\* chunk or a row to cut for every interval.
Budget(sums, n, ws, limit) ==
  /\ sums[0] >= n /\ sums[Len(ws)] <= limit
  /\ \A j \in 1..Len(ws) : sums[j - 1] + ws[j].rows <= sums[j]
  /\ \A i, j \in 0..Len(ws) : i < j => sums[i] + (j - i) <= sums[j]
BudgetOK(n, ws, limit) == \E sums \in [0..Len(ws) -> Nat] : Budget(sums, n, ws, limit)

Sampled ==
  /\ total > 0 /\ KeyCols > 0 /\ lo \in space.keys /\ hi \in space.keys
  /\ chunks \in Seq(Samples(space.keys)) /\ work \in Seq(Parts(space.keys))
  /\ Joined(lo, hi, chunks, work) /\ OrderOK(KeyCols, lo, chunks, work)
  /\ BudgetOK(Len(chunks), work, Ceil(total, ChunkSize) * ChunkSize)

ByInteger ==
  /\ work = <<>> /\ total > 0 /\ KeyCols > 0 /\ lo \in space.keys /\ hi \in space.keys
  /\ IntPlannable(lo, hi, Ceil(total, ChunkSize))
  /\ chunks = IntBoundaries(Signed(Unsigned(lo[1])), hi[1], Ceil(total, ChunkSize),
                            IF KeyCols > 1 THEN 1 ELSE 0)

Whole ==
  /\ work = <<>>
  /\ \/ chunks = <<>>
     \/ total > 0 /\ KeyCols = 0 /\ chunks = << Interval(0, Unbounded, Unbounded, FALSE) >>

PlanInv ==
  /\ space \in KeySpaces /\ rows \in Tables(space.keys) /\ total \in Nat
  /\ phase \in {"plan", "min", "max", "split", "done", "error"}
  /\ phase \in {"plan", "min", "max", "error"} => chunks = <<>> /\ work = <<>>
  /\ phase \in {"min", "max"} => total > 0 /\ KeyCols > 0
  /\ phase = "max" => lo \in space.keys
  /\ phase = "split" => Sampled
  /\ phase = "done" => Whole \/ ByInteger \/ (Sampled /\ work = <<>>)

-----------------------------------------------------------------------------
(***************************************************************************)
(* The rows of the table and their extremes.                               *)
(***************************************************************************)
LEMMA KeysTyped ==
  ASSUME space \in KeySpaces
  PROVE  /\ space.keys # {} /\ KeyCols \in Nat /\ space.keys \subseteq KeysOf(KeyCols)
         /\ space.intLead =>
              \A k \in space.keys : k # <<>> /\ k[1] \in (MinInt..(MaxInt + Half)) \cup {NULL}
<1> DEFINE key == CHOOSE k \in space.keys : TRUE
<1>1. /\ space.keys # {} /\ space.keys \subseteq Seq(Values)
      /\ \A k, l \in space.keys : Len(k) = Len(l)
      /\ space.intLead =>
           \A k \in space.keys : k # <<>> /\ k[1] \in (MinInt..(MaxInt + Half)) \cup {NULL}
  BY KeyAssumption DEF Values
<1>2. key \in space.keys
  BY <1>1
<1> HIDE DEF key
<1>3. \A k \in space.keys : Len(k) = Len(key)
  BY <1>1, <1>2
<1>4. Len(key) \in Nat
  BY <1>1, <1>2
<1>5. KeyCols = Len(key)
  BY DEF KeyCols, key
<1> QED
  BY <1>1, <1>3, <1>4, <1>5 DEF KeysOf

\* A table is a list of keys, counted.
LEMMA TableRows ==
  ASSUME NEW keys, NEW t \in Tables(keys)
  PROVE  \E n \in 0..MaxRows : \E s \in [1..n -> keys] :
           /\ t = [k \in keys |-> Cardinality({i \in 1..n : s[i] = k})]
           /\ {k \in DOMAIN t : t[k] > 0} = {s[i] : i \in 1..n}
           /\ t \in [keys -> 0..MaxRows]
<1>1. MaxRows \in Nat
  BY PlannerAssumption
<1>2. PICK n \in 0..MaxRows : \E s \in [1..n -> keys] :
        t = [k \in keys |-> Cardinality({i \in DOMAIN s : s[i] = k})]
  BY DEF Tables
<1>2a. PICK s \in [1..n -> keys] :
        t = [k \in keys |-> Cardinality({i \in DOMAIN s : s[i] = k})]
  BY <1>2
<1>3. DOMAIN s = 1..n /\ n \in Nat
  BY <1>1
<1>4. IsFiniteSet(1..n) /\ Cardinality(1..n) = n
  BY <1>3, FS_Interval
<1>5. ASSUME NEW k \in keys
      PROVE  /\ Cardinality({i \in 1..n : s[i] = k}) \in 0..MaxRows
             /\ Cardinality({i \in 1..n : s[i] = k}) > 0 <=> \E i \in 1..n : s[i] = k
  <2> DEFINE at == {i \in 1..n : s[i] = k}
  <2>1. at \subseteq 1..n
    OBVIOUS
  <2>2. at = {} <=> ~ \E i \in 1..n : s[i] = k
    OBVIOUS
  <2> HIDE DEF at
  <2>3. IsFiniteSet(at) /\ Cardinality(at) <= n
    <3>1. at \in SUBSET (1..n)
      BY <2>1
    <3>2. IsFiniteSet(at) /\ Cardinality(at) <= Cardinality(1..n)
      BY <1>4, <3>1, FS_Subset
    <3> QED
      BY <1>4, <3>2
  <2>4. Cardinality(at) \in Nat /\ (Cardinality(at) = 0 <=> at = {})
    BY <2>3, FS_CardinalityType, FS_EmptySet
  <2>5. Cardinality(at) \in 0..MaxRows /\ (Cardinality(at) > 0 <=> \E i \in 1..n : s[i] = k)
    BY <1>1, <1>3, <2>2, <2>3, <2>4
  <2> QED
    BY <2>5 DEF at
<1> DEFINE count(k) == Cardinality({i \in 1..n : s[i] = k})
<1>6. t = [k \in keys |-> count(k)]
  BY <1>2a, <1>3
<1>7. \A k \in keys : count(k) \in 0..MaxRows /\ (count(k) > 0 <=> \E i \in 1..n : s[i] = k)
  BY <1>5
<1>8. \A i \in 1..n : s[i] \in keys
  OBVIOUS
<1> HIDE DEF count
<1>9. t \in [keys -> 0..MaxRows] /\ {k \in DOMAIN t : t[k] > 0} = {s[i] : i \in 1..n}
  BY <1>6, <1>7, <1>8
<1> QED
  BY <1>6, <1>9 DEF count

\* A list of keys has a least and a greatest one.
LEMMA ListExtremes ==
  ASSUME NEW cols \in Nat, NEW n \in Nat \ {0}, NEW s \in [1..n -> KeysOf(cols)]
  PROVE  /\ \E i \in 1..n : \A j \in 1..n : KeyLeq(s[i], s[j])
         /\ \E i \in 1..n : \A j \in 1..n : KeyLeq(s[j], s[i])
<1> DEFINE Least(m)    == \E i \in 1..m : \A j \in 1..m : KeyLeq(s[i], s[j])
           Greatest(m) == \E i \in 1..m : \A j \in 1..m : KeyLeq(s[j], s[i])
           S == {m \in 0..(n - 1) : Least(m + 1) /\ Greatest(m + 1)}
<1>1. 0 \in S
  <2>1. KeyLeq(s[1], s[1])
    BY DEF KeyLeq
  <2>2. \A i \in 1..(0 + 1) : i = 1
    OBVIOUS
  <2>3. 1 \in 1..(0 + 1) /\ 0 \in 0..(n - 1)
    OBVIOUS
  <2>4. Least(0 + 1) /\ Greatest(0 + 1)
    BY <2>1, <2>2, <2>3
  <2> QED
    BY <2>3, <2>4
<1>2. \A m \in 0..((n - 1) - 1) : m \in S => m + 1 \in S
  <2> SUFFICES ASSUME NEW m \in 0..((n - 1) - 1), m \in S PROVE m + 1 \in S
    OBVIOUS
  <2>1. /\ 1..(m + 1) \subseteq 1..n /\ (m + 1) + 1 \in 1..n /\ m + 1 \in 0..(n - 1)
        /\ \A j \in 1..((m + 1) + 1) : j \in 1..(m + 1) \/ j = (m + 1) + 1
        /\ 1..(m + 1) \subseteq 1..((m + 1) + 1) /\ (m + 1) + 1 \in 1..((m + 1) + 1)
    OBVIOUS
  <2> DEFINE new == (m + 1) + 1
  <2>2. s[new] \in KeysOf(cols) /\ \A i \in 1..(m + 1) : s[i] \in KeysOf(cols)
    BY <2>1
  <2>3. Least(new)
    <3>1. PICK i \in 1..(m + 1) : \A j \in 1..(m + 1) : KeyLeq(s[i], s[j])
      OBVIOUS
    <3>2. CASE KeyLeq(s[i], s[new])
      BY <2>1, <3>1, <3>2
    <3>3. CASE ~KeyLeq(s[i], s[new])
      <4>1. \A j \in 1..(m + 1) : KeyLeq(s[new], s[j])
        BY <2>2, <3>1, <3>3, KeyOrder
      <4>2. KeyLeq(s[new], s[new])
        BY DEF KeyLeq
      <4> QED
        BY <2>1, <4>1, <4>2
    <3> QED
      BY <3>2, <3>3
  <2>4. Greatest(new)
    <3>1. PICK i \in 1..(m + 1) : \A j \in 1..(m + 1) : KeyLeq(s[j], s[i])
      OBVIOUS
    <3>2. CASE KeyLeq(s[new], s[i])
      BY <2>1, <3>1, <3>2
    <3>3. CASE ~KeyLeq(s[new], s[i])
      <4>1. \A j \in 1..(m + 1) : KeyLeq(s[j], s[new])
        BY <2>2, <3>1, <3>3, KeyOrder
      <4>2. KeyLeq(s[new], s[new])
        BY DEF KeyLeq
      <4> QED
        BY <2>1, <4>1, <4>2
    <3> QED
      BY <3>2, <3>3
  <2> HIDE DEF Least, Greatest
  <2> QED
    BY <2>1, <2>3, <2>4
<1> HIDE DEF S
<1>3. n - 1 \in S
  BY <1>1, <1>2, UpTo
<1>4. (n - 1) + 1 = n
  OBVIOUS
<1> QED
  BY <1>3, <1>4 DEF S

LEMMA Extremes ==
  ASSUME space \in KeySpaces, rows \in Tables(space.keys), Present # {}
  PROVE  /\ Present \subseteq space.keys
         /\ \E k \in Present : \A l \in Present : KeyLeq(k, l)
         /\ \E k \in Present : \A l \in Present : KeyLeq(l, k)
<1>0. PICK n \in 0..MaxRows : \E s \in [1..n -> space.keys] :
        {k \in DOMAIN rows : rows[k] > 0} = {s[i] : i \in 1..n}
  BY TableRows
<1>1. PICK s \in [1..n -> space.keys] :
        {k \in DOMAIN rows : rows[k] > 0} = {s[i] : i \in 1..n}
  BY <1>0
<1>2. Present = {s[i] : i \in 1..n}
  BY <1>1 DEF Present
<1>3. n \in Nat \ {0} /\ KeyCols \in Nat /\ s \in [1..n -> KeysOf(KeyCols)]
  BY <1>2, PlannerAssumption, KeysTyped
<1>4. /\ \E i \in 1..n : \A j \in 1..n : KeyLeq(s[i], s[j])
      /\ \E i \in 1..n : \A j \in 1..n : KeyLeq(s[j], s[i])
  BY <1>3, ListExtremes
<1>5. PICK i \in 1..n : \A j \in 1..n : KeyLeq(s[i], s[j])
  BY <1>4
<1>6. PICK h \in 1..n : \A j \in 1..n : KeyLeq(s[j], s[h])
  BY <1>4
<1>7. s[i] \in Present /\ s[h] \in Present /\ Present \subseteq space.keys
  BY <1>2
<1>8. \A l \in Present : KeyLeq(s[i], l) /\ KeyLeq(l, s[h])
  BY <1>2, <1>5, <1>6
<1> QED
  BY <1>7, <1>8

-----------------------------------------------------------------------------
(***************************************************************************)
(* A step of split leaves the cuts as they are, or adds one.               *)
(***************************************************************************)
\* The interval on top of the stack emitted as a chunk.
EmitAt(cs, ws, cs1, ws1) ==
  /\ cs1 = Append(cs, Interval(Len(cs), Head(ws).lo, Head(ws).hi, Head(ws).incl))
  /\ ws1 = Tail(ws)

LEMMA EmitCuts ==
  ASSUME NEW keys, NEW low, NEW high, NEW cols, NEW cs \in Seq(Samples(keys)), NEW ws \in Seq(Parts(keys)),
         ws # <<>>, Joined(low, high, cs, ws), OrderOK(cols, low, cs, ws),
         NEW cs1, NEW ws1, EmitAt(cs, ws, cs1, ws1)
  PROVE  /\ cs1 \in Seq(Samples(keys)) /\ ws1 \in Seq(Parts(keys))
         /\ Len(cs1) = Len(cs) + 1
         /\ Joined(low, high, cs1, ws1) /\ OrderOK(cols, low, cs1, ws1)
<1> DEFINE c == Len(cs)
           n == Len(cs) + Len(ws)
           w == ws[1]
           ch == Interval(c, w.lo, w.hi, w.incl)
<1>1. /\ c \in Nat /\ Len(ws) \in Nat /\ Len(ws) > 0 /\ Head(ws) = w /\ w \in Parts(keys)
      /\ \A j \in 1..Len(ws) : ws[j] \in Parts(keys)
  OBVIOUS
<1>2. ch = [id |-> c, lo |-> w.lo, loIncl |-> w.incl, hi |-> w.hi, prefix |-> 0]
  BY DEF Interval
<1> HIDE DEF ch
<1>3. ch \in Samples(keys)
  BY <1>1, <1>2 DEF Samples, Parts
<1>4. /\ cs1 \in Seq(Samples(keys)) /\ Len(cs1) = c + 1
      /\ cs1[c + 1] = ch /\ \A p \in 1..c : cs1[p] = cs[p]
  <2>1. cs1 = Append(cs, ch)
    BY <1>1 DEF EmitAt, ch
  <2> QED
    BY <1>1, <1>3, <2>1
<1>5. /\ ws1 \in Seq(Parts(keys)) /\ Len(ws1) = Len(ws) - 1
      /\ \A j \in 1..(Len(ws) - 1) : ws1[j] = ws[j + 1]
  <2>1. ws1 = Tail(ws)
    BY DEF EmitAt
  <2> QED
    BY <1>1, <2>1, HeadTailProperties
<1>6. Len(cs1) + Len(ws1) = n
  BY <1>1, <1>4, <1>5
<1>7. ASSUME NEW p \in 0..n
      PROVE  Cut(low, cs1, ws1, p) = Cut(low, cs, ws, p)
  <2>1. CASE p <= c
    BY <1>1, <1>4, <2>1 DEF Cut
  <2>2. CASE p = c + 1
    <3>1. Cut(low, cs1, ws1, p) = ch.hi
      BY <1>1, <1>4, <2>2 DEF Cut
    <3>2. Cut(low, cs, ws, p) = ws[1].hi
      BY <1>1, <2>2 DEF Cut
    <3> QED
      BY <1>2, <3>1, <3>2
  <2>3. CASE p > c + 1
    <3>1. p - (c + 1) \in 1..(Len(ws) - 1) /\ (p - (c + 1)) + 1 = p - c
      BY <1>1, <2>3
    <3>2. Cut(low, cs1, ws1, p) = ws1[p - (c + 1)].hi
      BY <1>1, <1>4, <2>3 DEF Cut
    <3>3. Cut(low, cs, ws, p) = ws[p - c].hi
      BY <1>1, <2>3 DEF Cut
    <3> QED
      BY <1>5, <3>1, <3>2, <3>3
  <2> QED
    BY <1>1, <2>1, <2>2, <2>3
<1>8. Joined(low, high, cs1, ws1)
  <2>1. n > 0 /\ Cut(low, cs, ws, n) = high
    BY DEF Joined
  <2>2. Len(cs1) + Len(ws1) > 0 /\ Cut(low, cs1, ws1, Len(cs1) + Len(ws1)) = high
    BY <1>1, <1>6, <1>7, <2>1
  <2>3. ASSUME NEW p \in 1..Len(cs1)
        PROVE  /\ cs1[p].id = p - 1
               /\ cs1[p].lo = Cut(low, cs1, ws1, p - 1) /\ (cs1[p].loIncl <=> p = 1)
    <3>1. Cut(low, cs1, ws1, p - 1) = Cut(low, cs, ws, p - 1)
      BY <1>1, <1>4, <1>7
    <3>2. CASE p <= c
      <4>1. p \in 1..Len(cs) /\ cs1[p] = cs[p]
        BY <1>1, <1>4, <3>2
      <4> QED
        BY <3>1, <4>1 DEF Joined
    <3>3. CASE p = c + 1
      <4>1. ws[1].lo = Cut(low, cs, ws, c + 1 - 1) /\ (ws[1].incl <=> c + 1 = 1)
        BY <1>1 DEF Joined
      <4>2. cs1[p].id = c /\ cs1[p].lo = w.lo /\ cs1[p].loIncl = w.incl
        BY <1>2, <1>4, <3>3
      <4> QED
        BY <1>1, <3>1, <3>3, <4>1, <4>2
    <3> QED
      BY <1>1, <1>4, <3>2, <3>3
  <2>4. ASSUME NEW j \in 1..Len(ws1)
        PROVE  /\ ws1[j].lo = Cut(low, cs1, ws1, Len(cs1) + j - 1)
               /\ ws1[j].incl <=> Len(cs1) + j = 1
    <3>1. j + 1 \in 1..Len(ws) /\ ws1[j] = ws[j + 1]
      BY <1>1, <1>5
    <3>2. /\ ws[j + 1].lo = Cut(low, cs, ws, c + (j + 1) - 1)
          /\ ws[j + 1].incl <=> c + (j + 1) = 1
      BY <3>1 DEF Joined
    <3>3. c + (j + 1) - 1 = Len(cs1) + j - 1 /\ Len(cs1) + j - 1 \in 0..n /\ c + (j + 1) = Len(cs1) + j
      <4>1. j \in Nat /\ j <= Len(ws) - 1 /\ j >= 1 /\ Len(cs1) = c + 1
        BY <1>1, <1>4, <1>5
      <4>2. n = c + Len(ws)
        OBVIOUS
      <4> HIDE DEF c, n
      <4> QED
        BY <1>1, <4>1, <4>2
    <3> QED
      BY <1>7, <3>1, <3>2, <3>3
  <2> QED
    BY <2>2, <2>3, <2>4 DEF Joined
<1>9. OrderOK(cols, low, cs1, ws1)
  <2>1. 1..n \subseteq 0..n
    BY <1>1
  <2> HIDE DEF n
  <2>2. NullCut(low, cs, ws) => NullCut(low, cs1, ws1)
    BY <1>6, <1>7, <2>1 DEF NullCut, n
  <2>3. Rising(low, cs, ws) => Rising(low, cs1, ws1)
    <3> SUFFICES ASSUME Rising(low, cs, ws), NEW p \in 0..n, NEW q \in 0..n, p < q
                 PROVE  /\ KeyLeq(Cut(low, cs1, ws1, p), Cut(low, cs1, ws1, q))
                        /\ p > 0 => KeyLess(Cut(low, cs1, ws1, p), Cut(low, cs1, ws1, q))
      BY <1>6 DEF Rising
    <3>1. /\ KeyLeq(Cut(low, cs, ws, p), Cut(low, cs, ws, q))
          /\ p > 0 => KeyLess(Cut(low, cs, ws, p), Cut(low, cs, ws, q))
      BY DEF Rising, n
    <3>2. /\ Cut(low, cs1, ws1, p) = Cut(low, cs, ws, p)
          /\ Cut(low, cs1, ws1, q) = Cut(low, cs, ws, q)
      BY <1>7
    <3> QED
      BY <3>1, <3>2
  <2> QED
    BY <1>6, <2>2, <2>3 DEF OrderOK, n
<1> QED
  BY <1>4, <1>5, <1>8, <1>9

\* A key put between two neighbours of a rising list of keys.
LEMMA RisingInsert ==
  ASSUME NEW cols \in Nat, NEW n \in Nat, NEW f \in [0..n -> KeysOf(cols)],
         \A p, q \in 0..n : p < q => KeyLeq(f[p], f[q]) /\ (p > 0 => KeyLess(f[p], f[q])),
         NEW c \in 0..(n - 1), NEW mid \in KeysOf(cols),
         KeyLeq(f[c], mid), c > 0 => KeyLess(f[c], mid), KeyLess(mid, f[c + 1]),
         NEW g, \A p \in 0..c : g[p] = f[p], g[c + 1] = mid,
         \A p \in (c + 2)..(n + 1) : g[p] = f[p - 1],
         NEW p \in 0..(n + 1), NEW q \in 0..(n + 1), p < q
  PROVE  KeyLeq(g[p], g[q]) /\ (p > 0 => KeyLess(g[p], g[q]))
<1>1. c \in Nat /\ c + 1 \in 0..n /\ c \in 0..n
  OBVIOUS
<1>2. CASE q <= c
  BY <1>1, <1>2
<1>3. CASE q = c + 1
  <2>1. p \in 0..c /\ g[p] = f[p] /\ g[q] = mid /\ p \in 0..n
    BY <1>1, <1>3
  <2>2. CASE p = c
    BY <2>1, <2>2
  <2>3. CASE p # c
    <3>1. KeyLeq(f[p], f[c]) /\ (p > 0 => KeyLess(f[p], f[c]))
      BY <1>1, <2>1, <2>3
    <3>2. f[p] \in KeysOf(cols) /\ f[c] \in KeysOf(cols)
      BY <1>1, <2>1
    <3> QED
      BY <2>1, <3>1, <3>2, KeyOrder
  <2> QED
    BY <2>2, <2>3
<1>4. CASE q > c + 1
  <2>1. g[q] = f[q - 1] /\ q - 1 \in (c + 1)..n /\ q - 1 \in 0..n
    BY <1>1, <1>4
  <2>2. CASE p <= c
    BY <1>1, <2>1, <2>2
  <2>3. CASE p = c + 1
    <3>1. CASE q - 1 = c + 1
      <4>1. KeyLess(g[p], g[q])
        BY <2>1, <2>3, <3>1
      <4> QED
        BY <4>1 DEF KeyLeq
    <3>2. CASE q - 1 # c + 1
      <4>1. KeyLeq(f[c + 1], f[q - 1])
        BY <1>1, <2>1, <3>2
      <4>2. f[c + 1] \in KeysOf(cols) /\ f[q - 1] \in KeysOf(cols)
        BY <1>1, <2>1
      <4>3. KeyLess(mid, f[q - 1])
        BY <4>1, <4>2, KeyOrder
      <4> QED
        BY <2>1, <2>3, <4>3 DEF KeyLeq
    <3> QED
      BY <3>1, <3>2
  <2>4. CASE p > c + 1
    <3>1. g[p] = f[p - 1] /\ p - 1 \in 0..n /\ p - 1 < q - 1 /\ p - 1 > 0
      BY <1>1, <1>4, <2>4
    <3> QED
      BY <2>1, <3>1
  <2> QED
    BY <1>1, <2>2, <2>3, <2>4
<1> QED
  BY <1>1, <1>2, <1>3, <1>4

\* The cuts of a chain are keys.
LEMMA CutTyped ==
  ASSUME NEW keys, NEW low \in keys, NEW cs \in Seq(Samples(keys)), NEW ws \in Seq(Parts(keys)),
         NEW p \in 0..(Len(cs) + Len(ws))
  PROVE  Cut(low, cs, ws, p) \in keys
<1>1. /\ Len(cs) \in Nat /\ Len(ws) \in Nat
      /\ \A i \in 1..Len(cs) : cs[i].hi \in keys
      /\ \A j \in 1..Len(ws) : ws[j].hi \in keys
  <2>1. \A i \in 1..Len(cs) : cs[i] \in Samples(keys)
    OBVIOUS
  <2>2. \A j \in 1..Len(ws) : ws[j] \in Parts(keys)
    OBVIOUS
  <2>3. \A i \in 1..Len(cs) : cs[i].hi \in keys
    BY <2>1 DEF Samples
  <2>4. \A j \in 1..Len(ws) : ws[j].hi \in keys
    BY <2>2 DEF Parts
  <2> QED
    BY <2>3, <2>4
<1>2. CASE p = 0
  BY <1>2 DEF Cut
<1>3. CASE p # 0 /\ p <= Len(cs)
  BY <1>1, <1>3 DEF Cut
<1>4. CASE p > Len(cs)
  <2>1. p - Len(cs) \in 1..Len(ws)
    BY <1>1, <1>4
  <2> QED
    BY <1>1, <1>4, <2>1 DEF Cut
<1> QED
  BY <1>1, <1>2, <1>3, <1>4

LEMMA Prepend ==
  ASSUME NEW S, NEW x \in S, NEW y \in S, NEW t \in Seq(S)
  PROVE  /\ <<x, y>> \o t \in Seq(S) /\ Len(<<x, y>> \o t) = Len(t) + 2
         /\ (<<x, y>> \o t)[1] = x /\ (<<x, y>> \o t)[2] = y
         /\ \A j \in 1..Len(t) : (<<x, y>> \o t)[j + 2] = t[j]
<1> DEFINE a == <<x, y>>
<1>1. a \in Seq(S) /\ Len(a) = 2 /\ a[1] = x /\ a[2] = y
  OBVIOUS
<1> HIDE DEF a
<1> DEFINE r == a \o t
<1>2. /\ r \in Seq(S) /\ Len(r) = Len(a) + Len(t)
      /\ \A i \in 1..(Len(a) + Len(t)) : r[i] = IF i <= Len(a) THEN a[i] ELSE t[i - Len(a)]
  BY <1>1, ConcatProperties
<1>3. Len(t) \in Nat
  OBVIOUS
<1> HIDE DEF r
<1>4. r[1] = x /\ r[2] = y
  BY <1>1, <1>2, <1>3
<1>5. \A j \in 1..Len(t) : r[j + 2] = t[j]
  BY <1>1, <1>2, <1>3
<1> QED
  BY <1>1, <1>2, <1>3, <1>4, <1>5 DEF a, r

\* The two halves of an interval in its place.
SplitAt(ws, mid, ws1) ==
  /\ Len(ws1) = Len(ws) + 1
  /\ ws1[1].lo = ws[1].lo /\ ws1[1].hi = mid /\ (ws1[1].incl <=> ws[1].incl)
  /\ ws1[2].lo = mid /\ ws1[2].hi = ws[1].hi /\ ~ws1[2].incl
  /\ ws1[1].rows + ws1[2].rows = ws[1].rows
  /\ \A j \in 3..(Len(ws) + 1) : ws1[j] = ws[j - 1]

LEMMA SplitWork ==
  ASSUME NEW keys, NEW ws \in Seq(Parts(keys)), ws # <<>>, Head(ws).rows > 1, NEW mid \in keys
  PROVE  \E ws1 \in Seq(Parts(keys)) : ws1 = Halves(Head(ws), mid) \o Tail(ws) /\ SplitAt(ws, mid, ws1)
<1> DEFINE w == ws[1]
           first == Part(w.lo, mid, w.incl, w.rows \div 2)
           second == Part(mid, w.hi, FALSE, w.rows - w.rows \div 2)
           rest == Tail(ws)
<1>1. Len(ws) \in Nat /\ Len(ws) > 0 /\ Head(ws) = w /\ w \in Parts(keys)
  OBVIOUS
<1>2. first \in Parts(keys) /\ second \in Parts(keys) /\ first.rows + second.rows = w.rows
  <2>1. w.rows \in Nat \ {0, 1} /\ w.lo \in keys /\ w.hi \in keys /\ w.incl \in BOOLEAN
    BY <1>1 DEF Parts
  <2>2. w.rows \div 2 \in Nat \ {0} /\ w.rows - w.rows \div 2 \in Nat \ {0}
    BY <2>1
  <2> QED
    BY <2>1, <2>2 DEF Part, Parts
<1>3. /\ first.lo = w.lo /\ first.hi = mid /\ first.incl = w.incl
      /\ second.lo = mid /\ second.hi = w.hi /\ second.incl = FALSE
  BY DEF Part
<1>4. Halves(Head(ws), mid) = <<first, second>>
  BY <1>1 DEF Halves
<1>5. /\ rest \in Seq(Parts(keys)) /\ Len(rest) = Len(ws) - 1
      /\ \A j \in 1..Len(rest) : rest[j] = ws[j + 1]
  BY HeadTailProperties
<1> HIDE DEF first, second, rest
<1> DEFINE ws1 == <<first, second>> \o rest
<1>6. /\ ws1 \in Seq(Parts(keys)) /\ Len(ws1) = Len(rest) + 2
      /\ ws1[1] = first /\ ws1[2] = second
      /\ \A j \in 1..Len(rest) : ws1[j + 2] = rest[j]
  BY <1>2, <1>5, Prepend
<1>7. ws1 = Halves(Head(ws), mid) \o Tail(ws)
  BY <1>4 DEF rest
<1> HIDE DEF ws1
<1>8. Len(ws1) = Len(ws) + 1
  BY <1>1, <1>5, <1>6
<1>9. ASSUME NEW j \in 3..(Len(ws) + 1) PROVE ws1[j] = ws[j - 1]
  <2>1. j - 2 \in 1..(Len(ws) - 1) /\ (j - 2) + 2 = j /\ (j - 2) + 1 = j - 1
    BY <1>1
  <2> QED
    BY <1>5, <1>6, <2>1
<1>10. SplitAt(ws, mid, ws1)
  BY <1>2, <1>3, <1>6, <1>8, <1>9 DEF SplitAt
<1> QED
  BY <1>6, <1>7, <1>10

CutAdded(low, cs, ws, mid, ws1) ==
  /\ \A p \in 0..Len(cs) : Cut(low, cs, ws1, p) = Cut(low, cs, ws, p)
  /\ Cut(low, cs, ws1, Len(cs) + 1) = mid
  /\ \A p \in (Len(cs) + 2)..(Len(cs) + Len(ws) + 1) : Cut(low, cs, ws1, p) = Cut(low, cs, ws, p - 1)
  /\ ws[1].lo = Cut(low, cs, ws, Len(cs)) /\ ws[1].hi = Cut(low, cs, ws, Len(cs) + 1)
  /\ (ws[1].incl <=> Len(cs) = 0)

LEMMA SplitCuts ==
  ASSUME NEW keys, NEW low, NEW high, NEW cs \in Seq(Samples(keys)), NEW ws \in Seq(Parts(keys)),
         ws # <<>>, Joined(low, high, cs, ws), NEW mid, NEW ws1 \in Seq(Parts(keys)), SplitAt(ws, mid, ws1)
  PROVE  Joined(low, high, cs, ws1) /\ CutAdded(low, cs, ws, mid, ws1)
<1> DEFINE c == Len(cs)
           n == Len(cs) + Len(ws)
           w == ws[1]
<1>1. /\ c \in Nat /\ Len(ws) \in Nat /\ Len(ws) > 0
  OBVIOUS
<1>2. Len(ws1) = Len(ws) + 1
  BY DEF SplitAt
<1>3. /\ ws1[1].lo = w.lo /\ ws1[1].hi = mid /\ (ws1[1].incl <=> w.incl)
      /\ ws1[2].lo = mid /\ ws1[2].hi = w.hi /\ ~ws1[2].incl
  BY DEF SplitAt
<1>5. \A j \in 3..(Len(ws) + 1) : ws1[j] = ws[j - 1]
  BY DEF SplitAt
<1>6. /\ \A p \in 0..c : Cut(low, cs, ws1, p) = Cut(low, cs, ws, p)
      /\ Cut(low, cs, ws1, c + 1) = mid
      /\ \A p \in (c + 2)..(n + 1) : Cut(low, cs, ws1, p) = Cut(low, cs, ws, p - 1)
  <2>1. ASSUME NEW p \in 0..c PROVE Cut(low, cs, ws1, p) = Cut(low, cs, ws, p)
    BY <1>1 DEF Cut
  <2>2. Cut(low, cs, ws1, c + 1) = mid
    <3>1. c + 1 # 0 /\ ~(c + 1 <= c) /\ (c + 1) - c = 1
      BY <1>1
    <3> QED
      BY <1>3, <3>1 DEF Cut
  <2>3. ASSUME NEW p \in (c + 2)..(n + 1) PROVE Cut(low, cs, ws1, p) = Cut(low, cs, ws, p - 1)
    <3>1. CASE p = c + 2
      <4>1. Cut(low, cs, ws1, p) = ws1[2].hi
        <5>1. p # 0 /\ ~(p <= c) /\ p - c = 2
          BY <1>1, <3>1
        <5> QED
          BY <5>1 DEF Cut
      <4>2. Cut(low, cs, ws, p - 1) = ws[1].hi
        <5>1. p - 1 # 0 /\ ~(p - 1 <= c) /\ (p - 1) - c = 1
          BY <1>1, <3>1
        <5> QED
          BY <5>1 DEF Cut
      <4> QED
        BY <1>3, <4>1, <4>2
    <3>2. CASE p > c + 2
      <4>1. p # 0 /\ ~(p <= c) /\ p - 1 # 0 /\ ~(p - 1 <= c)
            /\ p - c \in 3..(Len(ws) + 1) /\ (p - 1) - c = (p - c) - 1
        BY <1>1, <3>2
      <4>2. ws1[p - c] = ws[(p - c) - 1]
        BY <1>5, <4>1
      <4> QED
        BY <4>1, <4>2 DEF Cut
    <3> QED
      BY <1>1, <3>1, <3>2
  <2> QED
    BY <2>1, <2>2, <2>3
<1>7. w.lo = Cut(low, cs, ws, c) /\ w.hi = Cut(low, cs, ws, c + 1) /\ (w.incl <=> c + 1 = 1)
  <2>1. 1 \in 1..Len(ws) /\ c + 1 - 1 = c
    BY <1>1
  <2>2. w.lo = Cut(low, cs, ws, c + 1 - 1) /\ (w.incl <=> c + 1 = 1)
    BY <2>1 DEF Joined
  <2>3. c + 1 # 0 /\ ~(c + 1 <= c) /\ (c + 1) - c = 1
    BY <1>1
  <2>4. w.hi = Cut(low, cs, ws, c + 1)
    BY <2>3 DEF Cut
  <2> QED
    BY <2>1, <2>2, <2>4
<1>8. Joined(low, high, cs, ws1)
  <2>1. Len(cs) + Len(ws1) = n + 1 /\ n \in Nat /\ n > 0 /\ n + 1 > 0
    BY <1>1, <1>2
  <2>2. Cut(low, cs, ws1, n + 1) = high
    <3>1. n + 1 \in (c + 2)..(n + 1) /\ (n + 1) - 1 = n
      BY <1>1, <2>1
    <3>2. Cut(low, cs, ws, n) = high
      BY DEF Joined
    <3> QED
      BY <1>6, <3>1, <3>2
  <2>3. ASSUME NEW p \in 1..Len(cs)
        PROVE  /\ cs[p].id = p - 1
               /\ cs[p].lo = Cut(low, cs, ws1, p - 1) /\ (cs[p].loIncl <=> p = 1)
    <3>1. p - 1 \in 0..c
      BY <1>1
    <3> QED
      BY <1>6, <3>1 DEF Joined
  <2>4. ASSUME NEW j \in 1..Len(ws1)
        PROVE  /\ ws1[j].lo = Cut(low, cs, ws1, Len(cs) + j - 1)
               /\ ws1[j].incl <=> Len(cs) + j = 1
    <3>1. CASE j = 1
      <4>1. Len(cs) + j - 1 = c /\ Len(cs) + j = c + 1 /\ c \in 0..c
        BY <1>1, <3>1
      <4> QED
        BY <1>3, <1>6, <1>7, <3>1, <4>1
    <3>2. CASE j = 2
      <4>1. Len(cs) + j - 1 = c + 1 /\ Len(cs) + j # 1
        BY <1>1, <3>2
      <4> QED
        BY <1>3, <1>6, <3>2, <4>1
    <3>3. CASE j > 2
      <4>1. /\ j \in 3..(Len(ws) + 1) /\ j - 1 \in 1..Len(ws)
            /\ Len(cs) + j - 1 \in (c + 2)..(n + 1)
            /\ (Len(cs) + j - 1) - 1 = Len(cs) + (j - 1) - 1
            /\ Len(cs) + (j - 1) # 1 /\ Len(cs) + j # 1
        BY <1>1, <1>2, <3>3
      <4>2. /\ ws[j - 1].lo = Cut(low, cs, ws, Len(cs) + (j - 1) - 1)
            /\ ws[j - 1].incl <=> Len(cs) + (j - 1) = 1
        BY <4>1 DEF Joined
      <4>3. ws1[j] = ws[j - 1]
        BY <1>5, <4>1
      <4> QED
        BY <1>6, <4>1, <4>2, <4>3
    <3> QED
      BY <1>1, <1>2, <3>1, <3>2, <3>3
  <2> QED
    BY <2>1, <2>2, <2>3, <2>4 DEF Joined
<1>9. w.incl <=> c = 0
  BY <1>1, <1>7
<1> QED
  BY <1>6, <1>7, <1>8, <1>9 DEF CutAdded

\* A row a chunk of at most two columns selects is between its bounds, if the
\* upper one is not NULL.
LEMMA SelectsBetween ==
  ASSUME NEW cols \in 1..2, NEW k \in KeysOf(cols), NEW ch, ch.lo \in KeysOf(cols),
         ch.hi \in KeysOf(cols), ch.loIncl \in BOOLEAN, ch.prefix = 0, Selects(ch, k),
         ~(cols = 1 /\ HasNull(ch.hi))
  PROVE  Above(k, ch) /\ KeyLeq(k, ch.hi)
<1>1. CASE cols = 1
  <2>1. k \in KeysOf(1) /\ ch.lo \in KeysOf(1) /\ ch.hi \in KeysOf(1)
    BY <1>1
  <2>2. Above(k, ch) /\ (KeyLeq(k, ch.hi) \/ OpenAbove(ch))
    BY <2>1, SelectsSingle
  <2>3. ~OpenAbove(ch)
    BY <1>1, <2>1, KeyMember DEF HasNull, OpenAbove
  <2> QED
    BY <2>2, <2>3
<1>2. CASE cols # 1
  <2>1. cols \in Nat \ {0, 1} /\ cols = 2
    BY <1>2
  <2> QED
    BY <2>1, SelectsComposite
<1> QED
  BY <1>1, <1>2

LEMMA SplitOrder ==
  ASSUME NEW cols \in Nat \ {0}, NEW keys \in SUBSET KeysOf(cols), NEW low \in keys, NEW high \in keys,
         NEW cs \in Seq(Samples(keys)), NEW ws \in Seq(Parts(keys)),
         ws # <<>>, Joined(low, high, cs, ws), OrderOK(cols, low, cs, ws),
         NEW mid \in keys, mid # ws[1].hi,
         Selects(Interval(Len(cs), ws[1].lo, ws[1].hi, ws[1].incl), mid),
         NEW ws1 \in Seq(Parts(keys)), SplitAt(ws, mid, ws1)
  PROVE  OrderOK(cols, low, cs, ws1)
<1>0. CutAdded(low, cs, ws, mid, ws1)
  BY SplitCuts
<1> DEFINE c == Len(cs)
           n == Len(cs) + Len(ws)
           w == ws[1]
           ch == Interval(c, w.lo, w.hi, w.incl)
           f == [p \in 0..n |-> Cut(low, cs, ws, p)]
           g == [p \in 0..(n + 1) |-> Cut(low, cs, ws1, p)]
<1>1. c \in Nat /\ Len(ws) \in Nat /\ Len(ws) > 0 /\ n \in Nat /\ c \in 0..(n - 1) /\ cols \in Nat
  OBVIOUS
<1>2. c + Len(ws1) = n + 1
  <2>1. Len(ws1) = Len(ws) + 1
    BY DEF SplitAt
  <2> QED
    BY <1>1, <2>1
<1>3. /\ \A p \in 0..c : Cut(low, cs, ws1, p) = Cut(low, cs, ws, p)
      /\ Cut(low, cs, ws1, c + 1) = mid
      /\ \A p \in (c + 2)..(n + 1) : Cut(low, cs, ws1, p) = Cut(low, cs, ws, p - 1)
      /\ w.lo = Cut(low, cs, ws, c) /\ w.hi = Cut(low, cs, ws, c + 1) /\ (w.incl <=> c = 0)
  BY <1>0 DEF CutAdded
<1>4. ASSUME cols = 1, NullCut(low, cs, ws) PROVE NullCut(low, cs, ws1)
  <2>1. PICK p \in 1..n : HasNull(Cut(low, cs, ws, p))
    BY <1>4 DEF NullCut
  <2>2. CASE p <= c
    <3>1. p \in 1..(n + 1) /\ p \in 0..c
      BY <1>1, <2>2
    <3> QED
      BY <1>2, <1>3, <2>1, <3>1 DEF NullCut
  <2>3. CASE p > c
    <3>1. p + 1 \in 1..(n + 1) /\ p + 1 \in (c + 2)..(n + 1) /\ (p + 1) - 1 = p
      BY <1>1, <2>3
    <3>2. HasNull(Cut(low, cs, ws1, p + 1))
      BY <1>3, <2>1, <3>1
    <3> QED
      BY <1>2, <3>1, <3>2 DEF NullCut
  <2> QED
    BY <1>1, <2>2, <2>3
<1>5. ASSUME cols <= 2, ~(cols = 1 /\ NullCut(low, cs, ws)) PROVE Rising(low, cs, ws1)
  <2>1. /\ ch.lo = w.lo /\ ch.hi = w.hi /\ (ch.loIncl <=> w.incl) /\ ch.loIncl \in BOOLEAN /\ ch.prefix = 0
    <3>1. w \in Parts(keys)
      BY <1>1
    <3>2. w.incl \in BOOLEAN
      BY <3>1 DEF Parts
    <3> QED
      BY <3>2 DEF Interval
  <2>2. \A p \in 0..n : Cut(low, cs, ws, p) \in keys
    BY CutTyped
  <2>3. c \in 0..n /\ c + 1 \in 1..n /\ c + 1 \in 0..n
    BY <1>1
  <2>4. /\ w.lo \in KeysOf(cols) /\ w.hi \in KeysOf(cols) /\ mid \in KeysOf(cols)
        /\ ch.lo \in KeysOf(cols) /\ ch.hi \in KeysOf(cols)
    BY <1>3, <2>1, <2>2, <2>3
  <2>5. ~(cols = 1 /\ HasNull(ch.hi))
    BY <1>3, <1>5, <2>1, <2>3 DEF NullCut
  <2> HIDE DEF ch
  <2>6. Above(mid, ch) /\ KeyLeq(mid, ch.hi)
    <3>1. cols \in 1..2
      BY <1>5
    <3> QED
      BY <2>1, <2>4, <2>5, <3>1, SelectsBetween DEF ch
  <2>7. KeyLess(w.lo, mid) \/ (c = 0 /\ mid = w.lo)
    BY <1>3, <2>1, <2>6 DEF Above
  <2>8. KeyLeq(w.lo, mid) /\ (c > 0 => KeyLess(w.lo, mid)) /\ KeyLess(mid, w.hi)
    BY <1>1, <2>1, <2>4, <2>6, <2>7 DEF KeyLeq
  <2>9. Rising(low, cs, ws)
    <3>1. CASE n = 1
      <4>1. c = 0
        BY <1>1, <3>1
      <4>2. KeyLess(w.lo, w.hi)
        BY <1>1, <2>4, <2>8, KeyOrder
      <4>3. \A p, q \in 0..n : p < q => p = 0 /\ q = 1
        BY <3>1
      <4>4. KeyLeq(Cut(low, cs, ws, 0), Cut(low, cs, ws, 1))
        BY <1>3, <4>1, <4>2 DEF KeyLeq
      <4> QED
        BY <4>3, <4>4 DEF Rising
    <3>2. CASE n # 1
      BY <1>5, <3>2 DEF OrderOK
    <3> QED
      BY <3>1, <3>2
  <2>10. /\ f \in [0..n -> KeysOf(cols)]
         /\ \A p, q \in 0..n : p < q => KeyLeq(f[p], f[q]) /\ (p > 0 => KeyLess(f[p], f[q]))
    BY <2>2, <2>9 DEF Rising
  <2>11. /\ KeyLeq(f[c], mid) /\ (c > 0 => KeyLess(f[c], mid)) /\ KeyLess(mid, f[c + 1])
    BY <1>3, <2>3, <2>8
  <2>12. /\ \A p \in 0..c : g[p] = f[p]
         /\ g[c + 1] = mid
         /\ \A p \in (c + 2)..(n + 1) : g[p] = f[p - 1]
    <3>1. \A p \in 0..c : p \in 0..n /\ p \in 0..(n + 1)
      BY <1>1
    <3>2. c + 1 \in 0..(n + 1)
      BY <1>1
    <3>3. \A p \in (c + 2)..(n + 1) : p \in 0..(n + 1) /\ p - 1 \in 0..n
      BY <1>1
    <3> QED
      BY <1>3, <3>1, <3>2, <3>3
  <2>13. ASSUME NEW p \in 0..(n + 1), NEW q \in 0..(n + 1), p < q
         PROVE  /\ KeyLeq(Cut(low, cs, ws1, p), Cut(low, cs, ws1, q))
                /\ p > 0 => KeyLess(Cut(low, cs, ws1, p), Cut(low, cs, ws1, q))
    <3> HIDE DEF f, g, c, n
    <3>1. KeyLeq(g[p], g[q]) /\ (p > 0 => KeyLess(g[p], g[q]))
      BY <1>1, <2>4, <2>10, <2>11, <2>12, <2>13, RisingInsert
    <3>2. g[p] = Cut(low, cs, ws1, p) /\ g[q] = Cut(low, cs, ws1, q)
      BY DEF g
    <3> QED
      BY <3>1, <3>2
  <2> QED
    BY <1>2, <2>13 DEF Rising
<1> QED
  BY <1>4, <1>5 DEF OrderOK

-----------------------------------------------------------------------------
(***************************************************************************)
(* The rows a step of split hands on.                                      *)
(***************************************************************************)
LEMMA EmitBudget ==
  ASSUME NEW keys, NEW n \in Nat, NEW ws \in Seq(Parts(keys)), ws # <<>>, NEW limit, BudgetOK(n, ws, limit),
         NEW ws1, ws1 = Tail(ws)
  PROVE  BudgetOK(n + 1, ws1, limit)
<1>1. PICK sums \in [0..Len(ws) -> Nat] : Budget(sums, n, ws, limit)
  BY DEF BudgetOK
<1>2. /\ Len(ws) \in Nat /\ Len(ws) > 0 /\ Len(ws1) = Len(ws) - 1
      /\ \A j \in 1..(Len(ws) - 1) : ws1[j] = ws[j + 1]
  BY HeadTailProperties
<1>3. \A j \in 1..Len(ws) : ws[j] \in Parts(keys)
  OBVIOUS
<1>4. \A j \in 1..Len(ws) : ws[j].rows \in Nat \ {0}
  BY <1>3 DEF Parts
<1> DEFINE later == [j \in 0..Len(ws1) |-> sums[j + 1]]
<1>5. later \in [0..Len(ws1) -> Nat]
  BY <1>2
<1>6. later[0] >= n + 1
  <2>1. 1 \in 1..Len(ws) /\ 0 \in 0..Len(ws1) /\ 0 \in 0..Len(ws) /\ 1 \in 0..Len(ws) /\ 1 - 1 = 0
    BY <1>2
  <2>2. sums[0] + ws[1].rows <= sums[1] /\ sums[0] >= n
    BY <1>1, <2>1 DEF Budget
  <2>3. sums[0] \in Nat /\ sums[1] \in Nat /\ ws[1].rows \in Nat \ {0} /\ later[0] = sums[1]
    BY <1>4, <2>1
  <2> QED
    BY <2>2, <2>3
<1>7. later[Len(ws1)] <= limit
  BY <1>1, <1>2 DEF Budget
<1>8. ASSUME NEW j \in 1..Len(ws1) PROVE later[j - 1] + ws1[j].rows <= later[j]
  <2>1. j + 1 \in 1..Len(ws) /\ (j + 1) - 1 = (j - 1) + 1 /\ j - 1 \in 0..Len(ws1) /\ j \in 0..Len(ws1)
    BY <1>2
  <2>2. sums[(j + 1) - 1] + ws[j + 1].rows <= sums[j + 1]
    BY <1>1, <2>1 DEF Budget
  <2> QED
    BY <1>2, <2>1, <2>2
<1>9. ASSUME NEW i \in 0..Len(ws1), NEW j \in 0..Len(ws1), i < j
      PROVE  later[i] + (j - i) <= later[j]
  <2>1. i + 1 \in 0..Len(ws) /\ j + 1 \in 0..Len(ws) /\ i + 1 < j + 1 /\ (j + 1) - (i + 1) = j - i
    BY <1>2, <1>9
  <2>2. sums[i + 1] + ((j + 1) - (i + 1)) <= sums[j + 1]
    BY <1>1, <2>1 DEF Budget
  <2> QED
    BY <2>1, <2>2
<1> HIDE DEF later
<1>10. Budget(later, n + 1, ws1, limit)
  BY <1>6, <1>7, <1>8, <1>9 DEF Budget
<1> QED
  BY <1>5, <1>10 DEF BudgetOK

LEMMA SplitBudget ==
  ASSUME NEW keys, NEW n \in Nat, NEW ws \in Seq(Parts(keys)), ws # <<>>, NEW limit, BudgetOK(n, ws, limit),
         NEW mid, NEW ws1 \in Seq(Parts(keys)), SplitAt(ws, mid, ws1)
  PROVE  BudgetOK(n, ws1, limit)
<1>1. PICK sums \in [0..Len(ws) -> Nat] : Budget(sums, n, ws, limit)
  BY DEF BudgetOK
<1> DEFINE m == Len(ws)
           a == ws1[1].rows
           b == ws1[2].rows
<1>2. m \in Nat /\ m > 0 /\ Len(ws1) = m + 1 /\ a + b = ws[1].rows
  BY DEF SplitAt
<1>3. a \in Nat \ {0} /\ b \in Nat \ {0}
  <2>1. ws1[1] \in Parts(keys) /\ ws1[2] \in Parts(keys)
    BY <1>2
  <2> QED
    BY <2>1 DEF Parts
<1>4. \A j \in 3..(m + 1) : ws1[j] = ws[j - 1]
  BY DEF SplitAt
<1>5. /\ sums[0] >= n /\ sums[m] <= limit /\ sums[0] + (a + b) <= sums[1]
      /\ \A j \in 1..m : sums[j - 1] + ws[j].rows <= sums[j]
      /\ \A i, j \in 0..m : i < j => sums[i] + (j - i) <= sums[j]
  <2>1. 1 \in 1..m /\ 1 - 1 = 0
    BY <1>2
  <2>2. sums[1 - 1] + ws[1].rows <= sums[1]
    BY <1>1, <2>1 DEF Budget
  <2>3. sums[0] + (a + b) <= sums[1]
    BY <1>2, <2>1, <2>2
  <2> QED
    BY <1>1, <2>3 DEF Budget
<1>6. \A j \in 0..m : sums[j] \in Nat
  OBVIOUS
<1> DEFINE later == [j \in 0..(m + 1) |->
                       IF j = 0 THEN sums[0] ELSE IF j = 1 THEN sums[0] + a ELSE sums[j - 1]]
<1> HIDE DEF a, b, m
<1>7. /\ later \in [0..(m + 1) -> Nat] /\ later[0] = sums[0] /\ later[1] = sums[0] + a
      /\ \A j \in 2..(m + 1) : later[j] = sums[j - 1]
  <2>1. 0 \in 0..m
    BY <1>2
  <2> QED
    BY <1>2, <1>3, <1>6, <2>1
<1> HIDE DEF later
<1>8. later[0] >= n /\ later[m + 1] <= limit
  <2>1. m + 1 \in 2..(m + 1) /\ (m + 1) - 1 = m
    BY <1>2
  <2>2. later[m + 1] = sums[m]
    BY <1>7, <2>1
  <2> QED
    BY <1>5, <1>7, <2>2
<1>9. ASSUME NEW j \in 1..(m + 1) PROVE later[j - 1] + ws1[j].rows <= later[j]
  <2>1. CASE j = 1
    BY <1>2, <1>3, <1>6, <1>7, <2>1 DEF a
  <2>2. CASE j = 2
    <3>1. later[2] = sums[1] /\ sums[0] \in Nat /\ sums[1] \in Nat
      BY <1>2, <1>6, <1>7
    <3>2. j - 1 = 1 /\ ws1[j].rows = b
      BY <2>2 DEF b
    <3> QED
      BY <1>3, <1>5, <1>7, <2>2, <3>1, <3>2
  <2>3. CASE j > 2
    <3>1. j \in 3..(m + 1) /\ j - 1 \in 1..m /\ j - 1 \in 2..(m + 1) /\ j \in 2..(m + 1)
      BY <1>2, <2>3
    <3>2. sums[(j - 1) - 1] + ws[j - 1].rows <= sums[j - 1]
      BY <1>5, <3>1
    <3> QED
      BY <1>4, <1>7, <3>1, <3>2
  <2> QED
    BY <1>2, <2>1, <2>2, <2>3
<1>10. ASSUME NEW i \in 0..(m + 1), NEW j \in 0..(m + 1), i < j
       PROVE  later[i] + (j - i) <= later[j]
  <2>1. CASE j = 1
    BY <1>2, <1>3, <1>6, <1>7, <1>10, <2>1
  <2>2. CASE j >= 2 /\ i <= 1
    <3>1. later[j] = sums[j - 1] /\ j - 1 \in 1..m
      BY <1>2, <1>7, <2>2
    <3>2. sums[1] + ((j - 1) - 1) <= sums[j - 1]
      <4>1. CASE j - 1 = 1
        BY <1>2, <1>6, <4>1
      <4>2. CASE j - 1 # 1
        <5>1. 1 \in 0..m /\ j - 1 \in 0..m /\ 1 < j - 1
          BY <1>2, <3>1, <4>2
        <5> QED
          BY <1>5, <5>1
      <4> QED
        BY <4>1, <4>2
    <3>3. sums[0] \in Nat /\ sums[1] \in Nat /\ sums[j - 1] \in Nat
      <4>1. 0 \in 0..m /\ 1 \in 0..m /\ j - 1 \in 0..m
        BY <1>2, <3>1
      <4> QED
        BY <1>6, <4>1
    <3>4. CASE i = 0
      <4>1. later[i] = sums[0]
        BY <1>7, <3>4
      <4> QED
        BY <1>3, <1>5, <3>1, <3>2, <3>3, <3>4, <4>1
    <3>5. CASE i = 1
      <4>1. later[i] = sums[0] + a
        BY <1>7, <3>5
      <4> QED
        BY <1>3, <1>5, <3>1, <3>2, <3>3, <3>5, <4>1
    <3> QED
      BY <2>2, <3>4, <3>5
  <2>3. CASE i >= 2
    <3>1. /\ later[i] = sums[i - 1] /\ later[j] = sums[j - 1] /\ i - 1 \in 0..m /\ j - 1 \in 0..m
          /\ i - 1 < j - 1 /\ (j - 1) - (i - 1) = j - i
      BY <1>2, <1>7, <1>10, <2>3
    <3>2. sums[i - 1] + ((j - 1) - (i - 1)) <= sums[j - 1]
      BY <1>5, <3>1
    <3> QED
      BY <3>1, <3>2
  <2> QED
    BY <1>2, <1>10, <2>1, <2>2, <2>3
<1>11. Budget(later, n, ws1, limit)
  BY <1>2, <1>8, <1>9, <1>10 DEF Budget
<1> QED
  BY <1>2, <1>7, <1>11 DEF BudgetOK

-----------------------------------------------------------------------------
(***************************************************************************)
(* The invariant is inductive.                                             *)
(***************************************************************************)
LEMMA CeilBudget ==
  ASSUME NEW n \in Nat \ {0}
  PROVE  /\ Ceil(n, ChunkSize) \in Nat \ {0} /\ Ceil(n, ChunkSize) * ChunkSize \in Nat \ {0}
         /\ Ceil(n, ChunkSize) <= Ceil(n, ChunkSize) * ChunkSize
<1> DEFINE q == (n + ChunkSize - 1) \div ChunkSize
<1>1. ChunkSize \in Nat \ {0} /\ n + ChunkSize - 1 \in Nat
  BY PlannerAssumption
<1>2. q \in Nat /\ n + ChunkSize - 1 < q * ChunkSize + ChunkSize
  BY <1>1, Quotient
<1> HIDE DEF q
<1>3. q # 0
  BY <1>1, <1>2
<1>4. q * ChunkSize \in Nat /\ 1 * q <= ChunkSize * q
  <2>1. 1 \in 0..ChunkSize /\ ChunkSize \in Nat
    BY <1>1
  <2>2. \A i \in 0..ChunkSize : i * q <= ChunkSize * q
    BY <1>2, <2>1, Multiples
  <2> QED
    BY <1>1, <1>2, <2>1, <2>2
<1>5. q <= q * ChunkSize /\ q * ChunkSize \in Nat \ {0}
  BY <1>1, <1>2, <1>3, <1>4
<1> QED
  BY <1>2, <1>3, <1>5 DEF q, Ceil

LEMMA Singleton ==
  ASSUME NEW S, NEW x \in S
  PROVE  /\ <<x>> \in Seq(S) /\ Len(<<x>>) = 1 /\ <<x>>[1] = x /\ <<x>> # <<>>
OBVIOUS

LEMMA Empty ==
  ASSUME NEW S
  PROVE  <<>> \in Seq(S) /\ Len(<<>>) = 0
OBVIOUS

LEMMA FirstInterval ==
  ASSUME NEW keys, NEW low \in keys, NEW high \in keys, NEW n \in Nat \ {0}, NEW cols,
         NEW cs \in Seq(Samples(keys)), Len(cs) = 0,
         NEW ws \in Seq(Parts(keys)), Len(ws) = 1, ws[1] = Part(low, high, TRUE, n)
  PROVE  /\ Joined(low, high, cs, ws) /\ OrderOK(cols, low, cs, ws) /\ BudgetOK(Len(cs), ws, n)
<1> DEFINE first == Part(low, high, TRUE, n)
<1>1. /\ first \in Parts(keys)
      /\ first.lo = low /\ first.hi = high /\ first.incl = TRUE /\ first.rows = n
  BY DEF Part, Parts
<1> HIDE DEF first
<1>2. Len(cs) = 0 /\ Len(ws) = 1 /\ ws[1] = first
  BY DEF first
<1>3. Joined(low, high, cs, ws)
  <2>1. Cut(low, cs, ws, 1) = high /\ Cut(low, cs, ws, 0) = low
    <3>1. 1 # 0 /\ ~(1 <= Len(cs)) /\ 1 - Len(cs) = 1
      BY <1>2
    <3>2. Cut(low, cs, ws, 1) = ws[1].hi
      BY <3>1 DEF Cut
    <3> QED
      BY <1>1, <1>2, <3>2 DEF Cut
  <2>2. ASSUME NEW j \in 1..Len(ws)
        PROVE  ws[j] = first /\ Len(cs) + j - 1 = 0 /\ Len(cs) + j = 1
    <3>1. j = 1
      BY <1>2
    <3> QED
      BY <1>2, <3>1
  <2>3. Len(cs) + Len(ws) = 1
    BY <1>2
  <2>4. \A p \in 1..Len(cs) : FALSE
    BY <1>2
  <2>5. \A j \in 1..Len(ws) : /\ ws[j].lo = Cut(low, cs, ws, Len(cs) + j - 1)
                              /\ (ws[j].incl <=> Len(cs) + j = 1)
    BY <1>1, <2>1, <2>2
  <2>6. Len(cs) + Len(ws) > 0 /\ Cut(low, cs, ws, Len(cs) + Len(ws)) = high
    BY <2>1, <2>3
  <2> QED
    BY <2>4, <2>5, <2>6 DEF Joined
<1>4. OrderOK(cols, low, cs, ws)
  BY <1>2 DEF OrderOK
<1>5. BudgetOK(Len(cs), ws, n)
  <2> DEFINE sums == [j \in 0..1 |-> j * n]
  <2>1. sums \in [0..Len(ws) -> Nat] /\ sums[0] = 0 /\ sums[1] = n
    BY <1>2
  <2> HIDE DEF sums
  <2>2. \A i, j \in 0..Len(ws) : i < j => i = 0 /\ j = 1
    BY <1>2
  <2>3. \A j \in 1..Len(ws) : j = 1 /\ j - 1 = 0
    BY <1>2
  <2>4. Budget(sums, Len(cs), ws, n)
    <3>1. sums[0] >= Len(cs) /\ sums[Len(ws)] <= n
      BY <1>2, <2>1
    <3>2. \A j \in 1..Len(ws) : sums[j - 1] + ws[j].rows <= sums[j]
      <4>1. ASSUME NEW j \in 1..Len(ws) PROVE sums[j - 1] + ws[j].rows <= sums[j]
        <5>1. sums[j - 1] = 0 /\ sums[j] = n /\ ws[j].rows = n
          BY <1>1, <1>2, <2>1, <2>3
        <5> QED
          BY <5>1
      <4> QED
        BY <4>1
    <3>3. \A i, j \in 0..Len(ws) : i < j => sums[i] + (j - i) <= sums[j]
      BY <2>1, <2>2
    <3> QED
      BY <3>1, <3>2, <3>3 DEF Budget
  <2> QED
    BY <2>1, <2>4 DEF BudgetOK
<1> QED
  BY <1>3, <1>4, <1>5

\* The row an interval is cut at is one it selects.
LEMMA RowAtSelected ==
  ASSUME NEW ch, NEW off, NEW k \in RowAt(ch, off)
  PROVE  k \in Present /\ Selects(ch, k)
BY DEF RowAt

LEMMA PlanInit == Init => PlanInv
<1> SUFFICES ASSUME Init PROVE PlanInv
  OBVIOUS
<1>1. total \in Nat
  BY PlannerAssumption DEF Init
<1> QED
  BY <1>1 DEF Init, PlanInv

LEMMA PlanStep == PlanInv /\ [Next]_vars => PlanInv'
<1> SUFFICES ASSUME PlanInv, [Next]_vars PROVE PlanInv'
  OBVIOUS
<1>1. space \in KeySpaces /\ rows \in Tables(space.keys) /\ total \in Nat
  BY DEF PlanInv
<1>2. CASE Plan
  <2>1. UNCHANGED <<space, rows, total, lo, hi, work, changes>> /\ work = <<>> /\ chunks = <<>>
    BY <1>2 DEF Plan, PlanInv
  <2>2. KeyCols' = KeyCols /\ KeyCols \in Nat
    BY <1>1, <2>1, KeysTyped DEF KeyCols
  <2>3. CASE total > 0 /\ KeyCols > 0
    BY <1>1, <1>2, <2>1, <2>2, <2>3 DEF Plan, PlanInv
  <2>4. CASE ~(total > 0 /\ KeyCols > 0)
    <3>1. phase' = "done" /\ work' = <<>>
      BY <1>2, <2>1, <2>4 DEF Plan
    <3>2. Whole'
      <4>1. CASE total = 0
        BY <1>2, <2>1, <2>4, <4>1 DEF Plan, Whole
      <4>2. CASE total # 0
        <5>1. total > 0 /\ KeyCols = 0
          BY <1>1, <2>2, <2>4, <4>2
        <5> QED
          BY <1>2, <2>1, <2>2, <2>4, <4>2, <5>1 DEF Plan, Whole
      <4> QED
        BY <4>1, <4>2
    <3> QED
      BY <1>1, <2>1, <3>1, <3>2 DEF PlanInv
  <2> QED
    BY <2>3, <2>4
<1>3. CASE ReadMin
  <2>1. UNCHANGED <<space, rows, total, hi, work, chunks, changes>> /\ phase = "min"
    BY <1>3 DEF ReadMin
  <2>2. KeyCols' = KeyCols
    BY <2>1 DEF KeyCols
  <2>3. CASE Present = {}
    BY <1>1, <1>3, <2>1, <2>2, <2>3 DEF ReadMin, PlanInv
  <2>4. CASE Present # {}
    <3>1. lo' \in Present
      BY <1>1, <1>3, <2>4, Extremes DEF ReadMin
    <3>2. lo' \in space.keys
      BY <1>1, <2>4, <3>1, Extremes
    <3>3. phase' = "max"
      BY <1>3, <2>4 DEF ReadMin
    <3> QED
      BY <1>1, <2>1, <2>2, <3>2, <3>3 DEF PlanInv
  <2> QED
    BY <2>3, <2>4
<1>4. CASE ReadMax
  <2>1. /\ UNCHANGED <<space, rows, total, lo, changes>> /\ phase = "max"
        /\ chunks = <<>> /\ work = <<>> /\ total > 0 /\ KeyCols > 0 /\ lo \in space.keys
    BY <1>4 DEF ReadMax, PlanInv
  <2>2. KeyCols' = KeyCols
    BY <2>1 DEF KeyCols
  <2>3. CASE Present = {}
    BY <1>1, <1>4, <2>1, <2>2, <2>3 DEF ReadMax, PlanInv
  <2>4. CASE Present # {}
    <3> DEFINE high == CHOOSE k \in Present : \A l \in Present : KeyLeq(l, k)
               n    == Ceil(total, ChunkSize)
    <3>1. high \in Present
      BY <1>1, <2>4, Extremes
    <3>2. high \in space.keys
      BY <1>1, <2>4, <3>1, Extremes
    <3>3. n * ChunkSize \in Nat \ {0}
      BY <1>1, <2>1, CeilBudget
    <3>4. /\ hi' = high
          /\ IF IntPlannable(lo, high, n)
             THEN /\ chunks' = IntBoundaries(Signed(Unsigned(lo[1])), high[1], n,
                                             IF KeyCols > 1 THEN 1 ELSE 0)
                  /\ phase' = "done" /\ work' = work
             ELSE /\ work' = << Part(lo, high, TRUE, n * ChunkSize) >>
                  /\ phase' = "split" /\ chunks' = chunks
      BY <1>4, <2>4 DEF ReadMax
    <3>5. n' = n
      BY <2>1 DEF Ceil
    <3> HIDE DEF high
    <3>6. CASE IntPlannable(lo, high, n)
      <4>1. IntPlannable(lo, high, n)' <=> IntPlannable(lo, high, n)'
        OBVIOUS
      <4>2. ByInteger'
        BY <2>1, <2>2, <3>2, <3>4, <3>5, <3>6 DEF ByInteger, IntPlannable
      <4> QED
        BY <1>1, <2>1, <2>2, <3>4, <3>6, <4>2 DEF PlanInv
    <3>7. CASE ~IntPlannable(lo, high, n)
      <4>1. work' = << Part(lo, high, TRUE, n * ChunkSize) >> /\ phase' = "split" /\ chunks' = <<>>
        BY <2>1, <3>4, <3>7
      <4>2. /\ chunks' \in Seq(Samples(space.keys)) /\ work' \in Seq(Parts(space.keys))
            /\ Joined(lo, high, chunks', work') /\ OrderOK(KeyCols, lo, chunks', work')
            /\ BudgetOK(Len(chunks'), work', n * ChunkSize)
        <5> HIDE DEF n
        <5>1. Part(lo, high, TRUE, n * ChunkSize) \in Parts(space.keys)
          BY <2>1, <3>2, <3>3 DEF Part, Parts
        <5>2. work' \in Seq(Parts(space.keys)) /\ Len(work') = 1
              /\ work'[1] = Part(lo, high, TRUE, n * ChunkSize)
          BY <4>1, <5>1, Singleton
        <5>3. chunks' \in Seq(Samples(space.keys)) /\ Len(chunks') = 0
          BY <4>1, Empty
        <5>4. /\ Joined(lo, high, chunks', work') /\ OrderOK(KeyCols, lo, chunks', work')
              /\ BudgetOK(Len(chunks'), work', n * ChunkSize)
          BY <2>1, <3>2, <3>3, <5>2, <5>3, FirstInterval
        <5> QED
          BY <5>2, <5>3, <5>4
      <4>3. Sampled'
        BY <2>1, <2>2, <3>2, <3>4, <3>5, <4>2 DEF Sampled
      <4> QED
        BY <1>1, <2>1, <2>2, <4>1, <4>3 DEF PlanInv
    <3> QED
      BY <3>6, <3>7
  <2> QED
    BY <2>3, <2>4
<1>5. CASE Split
  <2>1. /\ UNCHANGED <<space, rows, total, lo, hi, changes>> /\ phase = "split" /\ work # <<>>
        /\ phase' = IF work' = <<>> THEN "done" ELSE "split"
    BY <1>5 DEF Split
  <2>2. KeyCols' = KeyCols
    BY <2>1 DEF KeyCols
  <2>3. Sampled
    BY <2>1 DEF PlanInv
  <2> DEFINE ch    == Interval(Len(chunks), Head(work).lo, Head(work).hi, Head(work).incl)
             off   == Head(work).rows \div 2
             limit == Ceil(total, ChunkSize) * ChunkSize
  <2>4. /\ total > 0 /\ KeyCols > 0 /\ lo \in space.keys /\ hi \in space.keys
        /\ chunks \in Seq(Samples(space.keys)) /\ work \in Seq(Parts(space.keys))
        /\ Joined(lo, hi, chunks, work) /\ OrderOK(KeyCols, lo, chunks, work)
        /\ BudgetOK(Len(chunks), work, limit)
    BY <2>3 DEF Sampled
  <2>5. limit' = limit
    BY <2>1 DEF Ceil
  <2>6. Head(work) = work[1] /\ work[1] \in Parts(space.keys) /\ Len(chunks) \in Nat
    BY <2>1, <2>4
  <2>7. ASSUME /\ chunks' \in Seq(Samples(space.keys)) /\ work' \in Seq(Parts(space.keys))
               /\ Joined(lo, hi, chunks', work') /\ OrderOK(KeyCols, lo, chunks', work')
               /\ BudgetOK(Len(chunks'), work', limit)
        PROVE  PlanInv'
    <3>1. Sampled'
      BY <2>1, <2>2, <2>4, <2>5, <2>7 DEF Sampled
    <3> QED
      BY <1>1, <2>1, <2>2, <3>1 DEF PlanInv
  <2>8. CASE chunks' = Append(chunks, ch) /\ work' = Tail(work)
    <3>1. /\ chunks' \in Seq(Samples(space.keys)) /\ work' \in Seq(Parts(space.keys))
          /\ Len(chunks') = Len(chunks) + 1
          /\ Joined(lo, hi, chunks', work') /\ OrderOK(KeyCols, lo, chunks', work')
      <4>1. EmitAt(chunks, work, chunks', work')
        BY <2>8 DEF EmitAt
      <4> QED
        BY <2>1, <2>4, <4>1, EmitCuts
    <3>2. BudgetOK(Len(chunks) + 1, work', limit)
      <4> HIDE DEF limit
      <4> QED
        BY <2>1, <2>4, <2>6, <2>8, EmitBudget
    <3> QED
      BY <2>7, <3>1, <3>2
  <2>9. ASSUME NEW mid \in RowAt(ch, off) \ {Head(work).hi}, ~(Head(work).rows <= ChunkSize),
               work' = Halves(Head(work), mid) \o Tail(work), chunks' = chunks
        PROVE  PlanInv'
    <3>1. mid \in Present /\ Selects(ch, mid)
      <4> HIDE DEF ch, off
      <4> QED
        BY <2>9, RowAtSelected
    <3>2. mid \in space.keys
      BY <1>1, <3>1, Extremes
    <3>3. Head(work).rows > 1
      <4>1. Head(work).rows \in Nat
        BY <2>6 DEF Parts
      <4> QED
        BY <2>9, <4>1, PlannerAssumption
    <3>4. work' \in Seq(Parts(space.keys)) /\ SplitAt(work, mid, work')
      BY <2>1, <2>4, <2>9, <3>2, <3>3, SplitWork
    <3>5. Joined(lo, hi, chunks, work')
      BY <2>1, <2>4, <3>4, SplitCuts
    <3>6. OrderOK(KeyCols, lo, chunks, work')
      <4>1. KeyCols \in Nat \ {0} /\ space.keys \in SUBSET KeysOf(KeyCols)
        BY <1>1, <2>4, KeysTyped
      <4>2. mid # work[1].hi
        BY <2>6, <2>9
      <4>3. Selects(Interval(Len(chunks), work[1].lo, work[1].hi, work[1].incl), mid)
        BY <2>6, <3>1
      <4> QED
        BY <2>1, <2>4, <3>2, <3>4, <4>1, <4>2, <4>3, SplitOrder
    <3>7. BudgetOK(Len(chunks), work', limit)
      <4> HIDE DEF limit
      <4> QED
        BY <2>1, <2>4, <2>6, <3>4, SplitBudget
    <3> QED
      BY <2>4, <2>7, <2>9, <3>4, <3>5, <3>6, <3>7
  <2>10. \/ chunks' = Append(chunks, ch) /\ work' = Tail(work)
         \/ \E mid \in (IF Head(work).rows <= ChunkSize THEN {} ELSE RowAt(ch, off) \ {Head(work).hi}) :
              work' = Halves(Head(work), mid) \o Tail(work) /\ chunks' = chunks
    BY <1>5 DEF Split
  <2> HIDE DEF ch, off
  <2> QED
    BY <2>8, <2>9, <2>10
<1>6. CASE Change
  <2>1. UNCHANGED <<space, total, phase, lo, hi, work, chunks>> /\ rows' \in Tables(space.keys)
    BY <1>6 DEF Change
  <2>2. /\ KeyCols' = KeyCols /\ (Sampled' <=> Sampled) /\ (ByInteger' <=> ByInteger)
        /\ (Whole' <=> Whole)
    BY <2>1 DEF KeyCols, Sampled, ByInteger, Whole, IntPlannable, Ceil
  <2> QED
    BY <1>1, <2>1, <2>2 DEF PlanInv
<1>7. CASE UNCHANGED vars
  <2>1. /\ KeyCols' = KeyCols /\ (Sampled' <=> Sampled) /\ (ByInteger' <=> ByInteger)
        /\ (Whole' <=> Whole)
    BY <1>7 DEF vars, KeyCols, Sampled, ByInteger, Whole, IntPlannable, Ceil
  <2> QED
    BY <1>1, <1>7, <2>1 DEF PlanInv, vars
<1> QED
  BY <1>2, <1>3, <1>4, <1>5, <1>6, <1>7 DEF Next

LEMMA Inductive == Spec => []PlanInv
BY PlanInit, PlanStep, PTL DEF Spec

-----------------------------------------------------------------------------
(***************************************************************************)
(* The two kinds of finished plans.                                        *)
(***************************************************************************)
LEMMA IntegerPlan ==
  ASSUME space \in KeySpaces, total \in Nat, ByInteger,
         NEW low, low = Signed(Unsigned(lo[1])), NEW high, high = hi[1],
         NEW n, n = Ceil(total, ChunkSize)
  PROVE  /\ low \in MinInt..MaxInt /\ high \in MinInt..MaxInt /\ n \in 2..Half
         /\ SpanSafe(low, high) /\ KeyCols \in Nat \ {0} /\ space.keys \subseteq KeysOf(KeyCols)
         /\ lo \in space.keys /\ hi \in space.keys /\ lo[1] \in Int
         /\ lo[1] <= MaxInt => low = lo[1]
         /\ chunks = IntBoundaries(low, high, n, IF KeyCols > 1 THEN 1 ELSE 0)
<1>1. /\ space.intLead /\ n > 1 /\ n <= MaxN /\ lo[1] # NULL /\ hi[1] # NULL /\ hi[1] <= MaxInt
      /\ SpanSafe(low, high) /\ total > 0 /\ KeyCols > 0 /\ lo \in space.keys /\ hi \in space.keys
      /\ chunks = IntBoundaries(low, high, n, IF KeyCols > 1 THEN 1 ELSE 0)
  BY DEF ByInteger, IntPlannable
<1>2. KeyCols \in Nat /\ space.keys \subseteq KeysOf(KeyCols)
  BY KeysTyped
<1>3. lo[1] \in MinInt..(MaxInt + Half) /\ hi[1] \in MinInt..(MaxInt + Half)
  BY <1>1, KeysTyped
<1>4. Half \in Nat \ {0}
  BY HalfAssumption
<1>5. n \in 2..Half
  <2>1. n \in Int
    <3>1. total \in Nat \ {0}
      BY <1>1
    <3> QED
      BY <3>1, CeilBudget
  <2> QED
    BY <1>1, <1>4, <2>1, PlannerAssumption
<1>6. low \in MinInt..MaxInt /\ (lo[1] <= MaxInt => low = lo[1])
  <2> DEFINE v == lo[1]
             u == Unsigned(v)
  <2>1. v \in Int /\ v >= -Half /\ v <= 2 * Half - 1
    BY <1>3, <1>4 DEF MinInt, MaxInt
  <2>2. low = Signed(u)
    OBVIOUS
  <2> HIDE DEF v
  <2>3. u = IF v < 0 THEN v + 2 * Half ELSE v
    BY <1>4, <2>1, UnsignedIs
  <2> HIDE DEF u
  <2>4. low \in MinInt..MaxInt /\ (v <= MaxInt => low = v)
    BY <1>4, <2>1, <2>2, <2>3 DEF Signed, MinInt, MaxInt
  <2> QED
    BY <2>4 DEF v
<1>7. high \in MinInt..MaxInt /\ lo[1] \in Int
  BY <1>1, <1>3, <1>4 DEF MinInt, MaxInt
<1> QED
  BY <1>1, <1>2, <1>5, <1>6, <1>7

LEMMA SampledPlan ==
  ASSUME space \in KeySpaces, Sampled, work = <<>>, NEW n, n = Len(chunks)
  PROVE  /\ KeyCols \in Nat \ {0} /\ space.keys \subseteq KeysOf(KeyCols)
         /\ lo \in space.keys /\ hi \in space.keys
         /\ n \in Nat \ {0} /\ DOMAIN chunks = 1..n /\ chunks[n].hi = hi
         /\ \A p \in 1..n :
              /\ chunks[p].id = p - 1 /\ chunks[p].prefix = 0
              /\ chunks[p].lo \in space.keys /\ chunks[p].hi \in space.keys
              /\ chunks[p].loIncl \in BOOLEAN /\ (chunks[p].loIncl <=> p = 1)
              /\ chunks[p].lo = IF p = 1 THEN lo ELSE chunks[p - 1].hi
         /\ \/ KeyCols > 2
            \/ KeyCols = 1 /\ \E p \in 1..n : HasNull(chunks[p].hi)
            \/ n = 1
            \/ \A p, q \in 1..n : p < q => KeyLess(chunks[p].hi, chunks[q].hi)
<1>1. /\ total > 0 /\ KeyCols > 0 /\ lo \in space.keys /\ hi \in space.keys
      /\ chunks \in Seq(Samples(space.keys))
      /\ Joined(lo, hi, chunks, <<>>) /\ OrderOK(KeyCols, lo, chunks, <<>>)
  BY DEF Sampled
<1>2. KeyCols \in Nat /\ space.keys \subseteq KeysOf(KeyCols)
  BY KeysTyped
<1>3. /\ n \in Nat /\ DOMAIN chunks = 1..n /\ Len(<<>>) = 0
      /\ \A p \in 1..n : chunks[p] \in Samples(space.keys)
  BY <1>1
<1> DEFINE cut(p) == Cut(lo, chunks, <<>>, p)
<1>4. cut(0) = lo
  BY DEF Cut
<1>5. ASSUME NEW p \in 1..n PROVE cut(p) = chunks[p].hi
  <2>1. p # 0 /\ p <= Len(chunks)
    BY <1>3
  <2> QED
    BY <2>1 DEF Cut
<1>6. Len(chunks) + Len(<<>>) = n
  BY <1>3
<1>7. n > 0 /\ cut(n) = hi
  <2>1. Len(chunks) + Len(<<>>) > 0 /\ cut(Len(chunks) + Len(<<>>)) = hi
    BY <1>1 DEF Joined
  <2> QED
    BY <1>6, <2>1
<1>8. ASSUME NEW p \in 1..n
      PROVE  /\ chunks[p].id = p - 1 /\ chunks[p].prefix = 0
             /\ chunks[p].lo \in space.keys /\ chunks[p].hi \in space.keys
             /\ chunks[p].loIncl \in BOOLEAN /\ (chunks[p].loIncl <=> p = 1)
             /\ chunks[p].lo = IF p = 1 THEN lo ELSE chunks[p - 1].hi
  <2>1. /\ chunks[p].id = p - 1 /\ chunks[p].lo = cut(p - 1) /\ (chunks[p].loIncl <=> p = 1)
    BY <1>1 DEF Joined
  <2>2. /\ chunks[p].prefix = 0 /\ chunks[p].lo \in space.keys /\ chunks[p].hi \in space.keys
        /\ chunks[p].loIncl \in BOOLEAN
    BY <1>3 DEF Samples
  <2>3. CASE p = 1
    BY <1>4, <2>1, <2>2, <2>3
  <2>4. CASE p # 1
    <3>1. p - 1 \in 1..n
      BY <1>3, <2>4
    <3>2. cut(p - 1) = chunks[p - 1].hi
      BY <1>5, <3>1
    <3> QED
      BY <2>1, <2>2, <2>4, <3>2
  <2> QED
    BY <2>3, <2>4
<1>9. CASE KeyCols = 1 /\ NullCut(lo, chunks, <<>>)
  <2>1. PICK p \in 1..n : HasNull(cut(p))
    BY <1>6, <1>9 DEF NullCut
  <2>2. HasNull(chunks[p].hi)
    BY <1>5, <2>1
  <2> QED
    BY <1>1, <1>2, <1>3, <1>5, <1>7, <1>8, <1>9, <2>2
<1>10. CASE n = 1
  BY <1>1, <1>2, <1>3, <1>5, <1>7, <1>8, <1>10
<1>11. CASE Rising(lo, chunks, <<>>)
  <2>1. ASSUME NEW p \in 1..n, NEW q \in 1..n, p < q
        PROVE  KeyLess(chunks[p].hi, chunks[q].hi)
    <3>1. p \in 0..n /\ q \in 0..n /\ p > 0
      BY <1>3
    <3>2. KeyLess(cut(p), cut(q))
      BY <1>6, <1>11, <2>1, <3>1 DEF Rising
    <3> QED
      BY <1>5, <3>2
  <2> QED
    BY <1>1, <1>2, <1>3, <1>5, <1>7, <1>8, <2>1
<1>12. CASE KeyCols > 2
  BY <1>1, <1>2, <1>3, <1>5, <1>7, <1>8, <1>12
<1> QED
  BY <1>1, <1>6, <1>9, <1>10, <1>11, <1>12 DEF OrderOK

-----------------------------------------------------------------------------
(***************************************************************************)
(* What the planner promises.                                              *)
(***************************************************************************)
LEMMA FinishedPlan ==
  ASSUME PlanInv, Planned
  PROVE  \/ KeyCols = 0 /\ chunks = << Interval(0, Unbounded, Unbounded, FALSE) >>
         \/ ByInteger
         \/ Sampled /\ work = <<>>
BY DEF PlanInv, Planned, Whole

LEMMA AtMostOne ==
  ASSUME NEW S, \A x, y \in S : x = y
  PROVE  Cardinality(S) <= 1
<1>1. CASE S = {}
  BY <1>1, FS_EmptySet
<1>2. CASE S # {}
  <2>1. PICK x \in S : S = {x}
    BY <1>2
  <2> QED
    BY <2>1, FS_Singleton
<1> QED
  BY <1>1, <1>2

LEMMA DisjointChunks ==
  ASSUME PlanInv, Planned, ~NullUpperBound, ExactRanges, NEW k \in space.keys,
         NEW p \in DOMAIN chunks, NEW q \in DOMAIN chunks,
         Selects(chunks[p], k), Selects(chunks[q], k)
  PROVE  p = q
<1>1. space \in KeySpaces /\ total \in Nat
  BY DEF PlanInv
<1>2. CASE chunks = << Interval(0, Unbounded, Unbounded, FALSE) >>
  <2>1. DOMAIN chunks = {1}
    BY <1>2
  <2> QED
    BY <2>1
<1>3. CASE ByInteger
  <2> DEFINE low  == Signed(Unsigned(lo[1]))
             high == hi[1]
             n    == Ceil(total, ChunkSize)
             prefix == IF KeyCols > 1 THEN 1 ELSE 0
  <2>1. /\ low \in MinInt..MaxInt /\ high \in MinInt..MaxInt /\ n \in 2..Half
        /\ SpanSafe(low, high) /\ KeyCols \in Nat \ {0} /\ k \in KeysOf(KeyCols)
        /\ chunks = IntBoundaries(low, high, n, prefix)
    BY <1>1, <1>3, IntegerPlan
  <2>2. prefix = IF KeyCols > 1 THEN 1 ELSE 0
    OBVIOUS
  <2> HIDE DEF low, high, n, prefix
  <2> QED
    BY <2>1, <2>2, IntRangesDisjoint
<1>4. CASE Sampled /\ work = <<>>
  <2> DEFINE n == Len(chunks)
  <2>1. /\ KeyCols \in Nat \ {0} /\ space.keys \subseteq KeysOf(KeyCols) /\ lo \in space.keys
        /\ n \in Nat \ {0} /\ DOMAIN chunks = 1..n
        /\ \A i \in 1..n :
             /\ chunks[i].prefix = 0
             /\ chunks[i].lo \in space.keys /\ chunks[i].hi \in space.keys
             /\ chunks[i].loIncl \in BOOLEAN /\ (chunks[i].loIncl <=> i = 1)
             /\ chunks[i].lo = IF i = 1 THEN lo ELSE chunks[i - 1].hi
        /\ \/ KeyCols > 2
           \/ KeyCols = 1 /\ \E i \in 1..n : HasNull(chunks[i].hi)
           \/ n = 1
           \/ \A i, j \in 1..n : i < j => KeyLess(chunks[i].hi, chunks[j].hi)
    BY <1>1, <1>4, SampledPlan
  <2> HIDE DEF n
  <2>2. KeyCols <= 2 /\ \A i \in 1..n : ~(KeyCols = 1 /\ HasNull(chunks[i].hi))
    <3>1. \A i \in 1..n : chunks[i] \in Emitted
      BY <2>1 DEF Emitted
    <3>2. chunks[1] \in Emitted /\ chunks[1].prefix = 0
      BY <2>1, <3>1
    <3>3. KeyCols <= 2
      BY <3>2 DEF ExactRanges
    <3> QED
      BY <3>1, <3>3 DEF NullUpperBound
  <2>3. ASSUME NEW i \in 1..n, Selects(chunks[i], k)
        PROVE  Above(k, chunks[i]) /\ KeyLeq(k, chunks[i].hi)
    <3>1. chunks[i].lo \in KeysOf(KeyCols) /\ chunks[i].hi \in KeysOf(KeyCols) /\ k \in KeysOf(KeyCols)
      BY <2>1
    <3> QED
      BY <2>1, <2>2, <2>3, <3>1, SelectsBetween
  <2>4. ASSUME NEW i \in 1..n, NEW j \in 1..n, i < j, Selects(chunks[i], k), Selects(chunks[j], k)
        PROVE  FALSE
    <3>1. /\ KeyLeq(k, chunks[i].hi) /\ KeyLess(chunks[j].lo, k)
          /\ j - 1 \in 1..n /\ chunks[j].lo = chunks[j - 1].hi
      BY <2>1, <2>3, <2>4 DEF Above
    <3>2. KeyLeq(chunks[i].hi, chunks[j - 1].hi)
      <4>1. CASE i = j - 1
        BY <4>1 DEF KeyLeq
      <4>2. CASE i # j - 1
        <5>1. i < j - 1 /\ n # 1
          BY <2>1, <2>4, <4>2
        <5>2. KeyLess(chunks[i].hi, chunks[j - 1].hi)
          BY <2>1, <2>2, <3>1, <5>1
        <5> QED
          BY <5>2 DEF KeyLeq
      <4> QED
        BY <4>1, <4>2
    <3>3. /\ chunks[i].hi \in KeysOf(KeyCols) /\ chunks[j - 1].hi \in KeysOf(KeyCols)
          /\ k \in KeysOf(KeyCols) /\ KeyCols \in Nat
      BY <2>1, <3>1
    <3>4. KeyLess(chunks[j - 1].hi, k)
      BY <3>1
    <3> QED
      BY <3>1, <3>2, <3>3, <3>4, KeyOrder
  <2>5. p \in 1..n /\ q \in 1..n
    BY <2>1
  <2>6. ~(p < q) /\ ~(q < p)
    BY <2>4, <2>5
  <2> QED
    BY <2>1, <2>5, <2>6
<1> QED
  BY <1>2, <1>3, <1>4, FinishedPlan

\* A key between two others has its first component between theirs.
LEMMA LeadBetween ==
  ASSUME NEW cols \in Nat \ {0}, NEW k \in KeysOf(cols), NEW l \in KeysOf(cols), KeyLeq(k, l)
  PROVE  k[1] = l[1] \/ ColumnLess(k[1], l[1])
<1>1. CASE k = l
  BY <1>1
<1>2. CASE KeyLess(k, l)
  <2>1. PICK i \in DOMAIN k : ColumnLess(k[i], l[i]) /\ \A j \in 1..(i - 1) : k[j] = l[j]
    BY <1>2 DEF KeyLess
  <2>2. DOMAIN k = 1..cols
    BY KeyMember
  <2>3. CASE i = 1
    BY <2>1, <2>3
  <2>4. CASE i # 1
    <3>1. 1 \in 1..(i - 1)
      BY <2>2, <2>4
    <3> QED
      BY <2>1, <3>1
  <2> QED
    BY <2>3, <2>4
<1> QED
  BY <1>1, <1>2 DEF KeyLeq

LEMMA CompleteChunks ==
  ASSUME PlanInv, Planned, NEW k \in space.keys, KeyCols > 0, InSpan(k), KeyCols = 1 \/ ~HasNull(k)
  PROVE  \E p \in DOMAIN chunks : Selects(chunks[p], k)
<1>1. space \in KeySpaces /\ total \in Nat
  BY DEF PlanInv
<1>2. CASE ByInteger
  <2> DEFINE low  == Signed(Unsigned(lo[1]))
             high == hi[1]
             n    == Ceil(total, ChunkSize)
             prefix == IF KeyCols > 1 THEN 1 ELSE 0
  <2>1. /\ low \in MinInt..MaxInt /\ high \in MinInt..MaxInt /\ n \in 2..Half
        /\ SpanSafe(low, high) /\ KeyCols \in Nat \ {0} /\ k \in KeysOf(KeyCols)
        /\ lo \in KeysOf(KeyCols) /\ hi \in KeysOf(KeyCols) /\ lo[1] \in Int
        /\ lo[1] <= MaxInt => low = lo[1]
        /\ chunks = IntBoundaries(low, high, n, prefix)
    BY <1>1, <1>2, IntegerPlan
  <2>2. prefix = IF KeyCols > 1 THEN 1 ELSE 0
    OBVIOUS
  <2>3. hi[1] = high
    OBVIOUS
  <2> HIDE DEF low, high, n, prefix
  <2>4. MinInt \in Int /\ MaxInt \in Int /\ NULL \notin Int
    BY HalfAssumption, NullAssumption DEF MinInt, MaxInt
  <2>5. k[1] \in Values
    BY <2>1, KeyMember
  <2>6. /\ lo[1] = k[1] \/ ColumnLess(lo[1], k[1])
        /\ k[1] = hi[1] \/ ColumnLess(k[1], hi[1])
    BY <2>1, LeadBetween DEF InSpan
  <2>7. k[1] \in Int /\ lo[1] <= k[1] /\ k[1] <= high
    BY <2>1, <2>3, <2>4, <2>5, <2>6 DEF ColumnLess, Values
  <2>8. low = lo[1] /\ k[1] \in low..high /\ high \in low..MaxInt
    BY <2>1, <2>4, <2>7
  <2> QED
    BY <2>1, <2>2, <2>8, IntRangesCover
<1>3. CASE Sampled /\ work = <<>>
  <2> DEFINE n == Len(chunks)
  <2>1. /\ KeyCols \in Nat \ {0} /\ space.keys \subseteq KeysOf(KeyCols) /\ lo \in space.keys
        /\ n \in Nat \ {0} /\ DOMAIN chunks = 1..n /\ chunks[n].hi = hi
        /\ \A i \in 1..n :
             /\ chunks[i].prefix = 0
             /\ chunks[i].lo \in space.keys /\ chunks[i].hi \in space.keys
             /\ chunks[i].loIncl \in BOOLEAN /\ (chunks[i].loIncl <=> i = 1)
             /\ chunks[i].lo = IF i = 1 THEN lo ELSE chunks[i - 1].hi
    BY <1>1, <1>3, SampledPlan
  <2> HIDE DEF n
  <2> DEFINE T == {i \in 1..n : KeyLeq(k, chunks[i].hi)}
  <2>2. T \in SUBSET Nat /\ T # {}
    <3>1. n \in 1..n /\ KeyLeq(k, chunks[n].hi)
      BY <2>1 DEF InSpan
    <3>2. n \in T
      BY <3>1
    <3> QED
      BY <2>1, <3>2
  <2> HIDE DEF T
  <2>3. PICK p \in T : \A q \in T : p <= q
    BY <2>2, LeastNat
  <2>4. p \in 1..n /\ KeyLeq(k, chunks[p].hi)
    BY <2>3 DEF T
  <2>5. /\ k \in KeysOf(KeyCols) /\ chunks[p].lo \in KeysOf(KeyCols) /\ chunks[p].hi \in KeysOf(KeyCols)
        /\ KeyCols \in Nat
    BY <2>1, <2>4
  <2>6. Above(k, chunks[p])
    <3>1. CASE p = 1
      BY <2>1, <2>4, <3>1 DEF InSpan, KeyLeq, Above
    <3>2. CASE p # 1
      <4>1. p - 1 \in 1..n /\ ~(p <= p - 1)
        BY <2>1, <2>4, <3>2
      <4>2. ~KeyLeq(k, chunks[p - 1].hi)
        BY <2>3, <4>1 DEF T
      <4>3. chunks[p - 1].hi \in KeysOf(KeyCols)
        BY <2>1, <4>1
      <4>4. KeyLess(chunks[p - 1].hi, k)
        BY <2>5, <4>2, <4>3, KeyOrder
      <4> QED
        BY <2>1, <2>4, <3>2, <4>4 DEF Above
    <3> QED
      BY <3>1, <3>2
  <2>7. Selects(chunks[p], k)
    <3>1. CASE KeyCols = 1
      <4>1. k \in KeysOf(1) /\ chunks[p].lo \in KeysOf(1) /\ chunks[p].hi \in KeysOf(1)
        BY <2>5, <3>1
      <4> QED
        BY <2>1, <2>4, <2>6, <4>1, SelectsSingle
    <3>2. CASE KeyCols # 1
      <4>1. KeyCols \in Nat \ {0, 1} /\ \A i \in 1..KeyCols : k[i] # NULL
        <5>1. DOMAIN k = 1..KeyCols
          BY <2>5, KeyMember
        <5> QED
          BY <2>1, <3>2, <5>1 DEF HasNull
      <4> QED
        BY <2>1, <2>4, <2>5, <2>6, <4>1, SelectsComposite
    <3> QED
      BY <3>1, <3>2
  <2> QED
    BY <2>1, <2>4, <2>7
<1>4. KeyCols # 0
  BY <1>1, KeysTyped
<1> QED
  BY <1>2, <1>3, <1>4, FinishedPlan

LEMMA OrderedChunks ==
  ASSUME PlanInv, Planned, KeyLeq(lo, hi), ~NullUpperBound, NEW i \in 1..(Len(chunks) - 1)
  PROVE  /\ chunks[i + 1].lo = chunks[i].hi /\ ~chunks[i + 1].loIncl
         /\ ExactRanges => KeyLess(chunks[i].hi, chunks[i + 1].hi)
<1>1. space \in KeySpaces /\ total \in Nat
  BY DEF PlanInv
<1>2. CASE chunks = << Interval(0, Unbounded, Unbounded, FALSE) >>
  <2>1. Len(chunks) = 1
    BY <1>2
  <2> QED
    BY <2>1
<1>3. CASE ByInteger
  <2> DEFINE low  == Signed(Unsigned(lo[1]))
             high == hi[1]
             n    == Ceil(total, ChunkSize)
             prefix == IF KeyCols > 1 THEN 1 ELSE 0
  <2>1. /\ low \in MinInt..MaxInt /\ high \in MinInt..MaxInt /\ n \in 2..Half
        /\ SpanSafe(low, high) /\ KeyCols \in Nat \ {0}
        /\ lo \in KeysOf(KeyCols) /\ hi \in KeysOf(KeyCols) /\ lo[1] \in Int
        /\ lo[1] <= MaxInt => low = lo[1]
        /\ chunks = IntBoundaries(low, high, n, prefix)
    BY <1>1, <1>3, IntegerPlan
  <2>2. hi[1] = high
    OBVIOUS
  <2> HIDE DEF low, high, n, prefix
  <2>3. MinInt \in Int /\ MaxInt \in Int /\ NULL \notin Int
    BY HalfAssumption, NullAssumption DEF MinInt, MaxInt
  <2>4. lo[1] = hi[1] \/ ColumnLess(lo[1], hi[1])
    BY <2>1, LeadBetween
  <2>5. lo[1] <= high
    BY <2>1, <2>2, <2>3, <2>4 DEF ColumnLess
  <2>6. high \in low..MaxInt
    BY <2>1, <2>3, <2>5
  <2>7. /\ chunks[i + 1].lo = chunks[i].hi /\ ~chunks[i + 1].loIncl
        /\ \E a, b \in Int : chunks[i].hi = <<a>> /\ chunks[i + 1].hi = <<b>> /\ a < b
    <3>1. AdjacentRanges(chunks, i)
      BY <2>1, <2>6, IntRangesAdjacent
    <3> QED
      BY <3>1 DEF AdjacentRanges
  <2>8. PICK a \in Int, b \in Int : chunks[i].hi = <<a>> /\ chunks[i + 1].hi = <<b>> /\ a < b
    BY <2>7
  <2>9. <<a>> \in KeysOf(1) /\ <<b>> \in KeysOf(1) /\ <<a>>[1] = a /\ <<b>>[1] = b
    BY DEF KeysOf, Values
  <2>10. ColumnLess(a, b)
    BY <2>3, <2>8 DEF ColumnLess
  <2>11. KeyLess(<<a>>, <<b>>)
    BY <2>9, <2>10, SingleColumn
  <2> QED
    BY <2>7, <2>8, <2>11
<1>4. CASE Sampled /\ work = <<>>
  <2> DEFINE n == Len(chunks)
  <2>1. /\ KeyCols \in Nat /\ n \in Nat \ {0} /\ DOMAIN chunks = 1..n
        /\ \A j \in 1..n : /\ chunks[j].loIncl <=> j = 1
                           /\ chunks[j].lo = IF j = 1 THEN lo ELSE chunks[j - 1].hi
        /\ \A j \in 1..n : chunks[j].prefix = 0
        /\ \/ KeyCols > 2
           \/ KeyCols = 1 /\ \E j \in 1..n : HasNull(chunks[j].hi)
           \/ n = 1
           \/ \A j, q \in 1..n : j < q => KeyLess(chunks[j].hi, chunks[q].hi)
    BY <1>1, <1>4, SampledPlan
  <2>2. i \in 1..(n - 1)
    OBVIOUS
  <2> HIDE DEF n
  <2>3. i \in 1..n /\ i + 1 \in 1..n /\ i + 1 # 1 /\ (i + 1) - 1 = i /\ i < i + 1 /\ n # 1
    BY <2>1, <2>2
  <2>4. ~(KeyCols = 1 /\ \E j \in 1..n : HasNull(chunks[j].hi))
    BY <2>1 DEF NullUpperBound, Emitted
  <2>5. chunks[i] \in Emitted /\ chunks[i].prefix = 0
    BY <2>1, <2>3 DEF Emitted
  <2>6. ExactRanges => KeyCols <= 2
    BY <2>5 DEF ExactRanges
  <2>7. KeyCols \in Nat
    BY <2>1
  <2>8. ExactRanges => KeyLess(chunks[i].hi, chunks[i + 1].hi)
    BY <2>1, <2>3, <2>4, <2>6, <2>7
  <2> QED
    BY <2>1, <2>3, <2>8
<1> QED
  BY <1>2, <1>3, <1>4, FinishedPlan

LEMMA IntegerIds ==
  ASSUME space \in KeySpaces, total \in Nat, ByInteger
  PROVE  /\ Len(chunks) \in Nat /\ Len(chunks) <= Ceil(total, ChunkSize)
         /\ \A i \in DOMAIN chunks : chunks[i].id = i - 1
<1> DEFINE low  == Signed(Unsigned(lo[1]))
           high == hi[1]
           n    == Ceil(total, ChunkSize)
           prefix == IF KeyCols > 1 THEN 1 ELSE 0
<1>1. /\ low \in MinInt..MaxInt /\ high \in MinInt..MaxInt /\ n \in 2..Half
      /\ SpanSafe(low, high)
      /\ chunks = IntBoundaries(low, high, n, prefix)
  BY IntegerPlan
<1> HIDE DEF low, high, n, prefix
<1>2. IntRanges(chunks, n, prefix)
  BY <1>1, IntBoundariesType
<1>3. PICK m \in 1..n : /\ DOMAIN chunks = 1..m /\ Len(chunks) = m
                        /\ \A i \in 1..m : chunks[i].id = i - 1
  BY <1>2 DEF IntRanges
<1> QED
  BY <1>1, <1>3 DEF n

LEMMA TypeFromInv == PlanInv => TypeOK
<1> SUFFICES ASSUME PlanInv PROVE TypeOK
  OBVIOUS
<1>1. /\ space \in KeySpaces /\ rows \in Tables(space.keys) /\ total \in Nat
      /\ phase \in {"plan", "min", "max", "split", "done", "error"}
  BY DEF PlanInv
<1>2. rows \in [space.keys -> 0..MaxRows]
  BY <1>1, TableRows
<1>3. (\A i \in DOMAIN chunks : chunks[i].id = i - 1) /\ \A i \in DOMAIN work : work[i].rows \in Nat \ {0}
  <2>1. CASE chunks = <<>> /\ work = <<>>
    BY <2>1
  <2>2. CASE chunks = << Interval(0, Unbounded, Unbounded, FALSE) >> /\ work = <<>>
    <3>1. \A i \in DOMAIN chunks : i = 1
      BY <2>2
    <3>2. chunks[1].id = 0
      BY <2>2 DEF Interval
    <3>3. \A i \in DOMAIN work : FALSE
      BY <2>2
    <3> QED
      BY <3>1, <3>2, <3>3
  <2>3. CASE ByInteger
    <3>1. \A i \in DOMAIN work : FALSE
      BY <2>3 DEF ByInteger
    <3> QED
      BY <1>1, <2>3, <3>1, IntegerIds
  <2>4. CASE Sampled
    <3>1. /\ chunks \in Seq(Samples(space.keys)) /\ work \in Seq(Parts(space.keys))
          /\ Joined(lo, hi, chunks, work)
      BY <2>4 DEF Sampled
    <3>5. DOMAIN chunks = 1..Len(chunks)
      BY <3>1
    <3>6. \A p \in 1..Len(chunks) : chunks[p].id = p - 1
      <4> SUFFICES ASSUME NEW p \in 1..Len(chunks) PROVE chunks[p].id = p - 1
        OBVIOUS
      <4>1. \A q \in 1..Len(chunks) :
              /\ chunks[q].id = q - 1
              /\ chunks[q].lo = Cut(lo, chunks, work, q - 1)
              /\ (chunks[q].loIncl <=> q = 1)
        BY <3>1, Zenon DEF Joined
      <4> QED
        BY <4>1, Zenon
    <3>2. \A i \in DOMAIN chunks : chunks[i].id = i - 1
      BY <3>5, <3>6, Zenon
    <3>3. \A i \in DOMAIN work : work[i] \in Parts(space.keys)
      BY <3>1
    <3>4. \A i \in DOMAIN work : work[i].rows \in Nat \ {0}
      BY <3>3 DEF Parts
    <3> QED
      BY <3>2, <3>4
  <2> QED
    BY <2>1, <2>2, <2>3, <2>4 DEF PlanInv, Whole
<1> QED
  BY <1>1, <1>2, <1>3 DEF TypeOK

LEMMA BoundFromInv == PlanInv => PlanIsBounded
<1> SUFFICES ASSUME PlanInv PROVE PlanIsBounded
  OBVIOUS
<1> DEFINE limit == Ceil(total, ChunkSize) * ChunkSize
<1>1. space \in KeySpaces /\ total \in Nat
  BY DEF PlanInv
<1>2. total > 0 => limit \in Nat \ {0} /\ Ceil(total, ChunkSize) <= limit
  BY <1>1, CeilBudget
<1>3. CASE chunks = <<>> /\ work = <<>>
  <2>1. limit >= 0
    <3>1. CASE total = 0
      <4>1. ChunkSize \in Nat \ {0}
        BY PlannerAssumption
      <4>2. 0 + ChunkSize - 1 \in Nat /\ 0 + ChunkSize - 1 < ChunkSize
        BY <4>1
      <4>3. Ceil(total, ChunkSize) = 0
        BY <3>1, <4>1, <4>2, Quotient DEF Ceil
      <4> QED
        BY <4>1, <4>3
    <3> QED
      BY <1>1, <1>2, <3>1
  <2>2. Len(chunks) = 0 /\ Len(work) = 0
    BY <1>3
  <2> HIDE DEF limit
  <2>3. Len(chunks) + Len(work) <= limit
    BY <2>1, <2>2
  <2> QED
    BY <2>3 DEF PlanIsBounded, limit
<1>4. CASE total > 0 /\ chunks = << Interval(0, Unbounded, Unbounded, FALSE) >> /\ work = <<>>
  <2>1. Len(chunks) = 1 /\ Len(work) = 0
    BY <1>4
  <2>2. Len(chunks) + Len(work) <= limit
    BY <1>2, <1>4, <2>1
  <2> QED
    BY <2>2 DEF PlanIsBounded
<1>5. CASE ByInteger
  <2>1. total > 0 /\ Len(work) = 0
    BY <1>5 DEF ByInteger
  <2>2. Len(chunks) \in Nat /\ Len(chunks) <= Ceil(total, ChunkSize)
    BY <1>1, <1>5, IntegerIds
  <2>3. Ceil(total, ChunkSize) \in Nat
    BY <1>1, <2>1, CeilBudget
  <2> HIDE DEF limit
  <2>4. Len(chunks) + Len(work) <= limit
    BY <1>2, <2>1, <2>2, <2>3
  <2> QED
    BY <2>4 DEF PlanIsBounded, limit
<1>6. CASE Sampled
  <2>1. /\ chunks \in Seq(Samples(space.keys)) /\ work \in Seq(Parts(space.keys)) /\ total > 0
        /\ BudgetOK(Len(chunks), work, limit)
    BY <1>6 DEF Sampled
  <2>2. Len(chunks) \in Nat /\ Len(work) \in Nat /\ limit \in Nat
    BY <1>2, <2>1
  <2>3. PICK sums \in [0..Len(work) -> Nat] : Budget(sums, Len(chunks), work, limit)
    BY <2>1 DEF BudgetOK
  <2> HIDE DEF limit
  <2>4. /\ sums[0] >= Len(chunks) /\ sums[Len(work)] <= limit
        /\ \A i, j \in 0..Len(work) : i < j => sums[i] + (j - i) <= sums[j]
    BY <2>3 DEF Budget
  <2>5. /\ 0 \in 0..Len(work) /\ Len(work) \in 0..Len(work)
        /\ sums[0] \in Nat /\ sums[Len(work)] \in Nat
    BY <2>2
  <2>6. sums[0] + Len(work) <= sums[Len(work)]
    <3>1. CASE Len(work) = 0
      BY <2>5, <3>1
    <3>2. CASE Len(work) # 0
      <4>1. sums[0] + (Len(work) - 0) <= sums[Len(work)]
        BY <2>2, <2>4, <2>5, <3>2
      <4> QED
        BY <2>2, <4>1
    <3> QED
      BY <3>1, <3>2
  <2>7. Len(chunks) + Len(work) <= limit
    BY <2>2, <2>4, <2>5, <2>6
  <2> QED
    BY <2>7 DEF PlanIsBounded, limit
<1> QED
  BY <1>1, <1>3, <1>4, <1>5, <1>6 DEF PlanInv, Whole

\* The types of the planner's state; the ids of its chunks count from 0.
THEOREM PlanTypes == Spec => []TypeOK
BY Inductive, TypeFromInv, PTL

\* No row is scanned twice: a key of at most two columns, or one cut on its
\* integer lead, is selected by at most one of the chunks of a plan, whatever
\* other sessions did while it was made.
THEOREM PlanHasNoOverlap == Spec => []NoOverlap
<1>1. PlanInv => NoOverlap
  <2> SUFFICES ASSUME PlanInv, Planned, ~NullUpperBound, ExactRanges, NEW k \in space.keys
               PROVE  Cardinality({ch \in Emitted : Selects(ch, k)}) <= 1
    BY DEF NoOverlap
  <2> DEFINE S == {ch \in Emitted : Selects(ch, k)}
  <2>1. ASSUME NEW x \in S, NEW y \in S PROVE x = y
    <3>1. PICK p \in DOMAIN chunks : x = chunks[p]
      BY DEF Emitted
    <3>2. PICK q \in DOMAIN chunks : y = chunks[q]
      BY DEF Emitted
    <3>3. Selects(chunks[p], k) /\ Selects(chunks[q], k)
      BY <3>1, <3>2
    <3>4. p = q
      BY <3>3, DisjointChunks
    <3> QED
      BY <3>1, <3>2, <3>4
  <2> HIDE DEF S
  <2>2. Cardinality(S) <= 1
    BY <2>1, AtMostOne
  <2> QED
    BY <2>2 DEF S
<1> QED
  BY <1>1, Inductive, PTL

\* No row is skipped: every key between the extremes the plan read, of any
\* number of columns, is selected by a chunk, but for a composite key with a
\* NULL in it.
THEOREM PlanHasNoGap == Spec => []NoGap
<1>1. PlanInv => NoGap
  <2> SUFFICES ASSUME PlanInv, Planned, NEW k \in space.keys, KeyCols > 0, InSpan(k),
                      KeyCols = 1 \/ ~HasNull(k)
               PROVE  \E ch \in Emitted : Selects(ch, k)
    BY DEF NoGap
  <2>1. PICK p \in DOMAIN chunks : Selects(chunks[p], k)
    BY CompleteChunks
  <2> QED
    BY <2>1 DEF Emitted
<1> QED
  BY <1>1, Inductive, PTL

\* Each chunk starts where the one before it ends; with at most two columns,
\* or cut on an integer lead, they come in key order.
THEOREM PlanIsInKeyOrder == Spec => []ChunksInKeyOrder
<1>1. PlanInv => ChunksInKeyOrder
  BY OrderedChunks DEF ChunksInKeyOrder
<1> QED
  BY <1>1, Inductive, PTL

\* The predicate of the out-of-range pass selects every key that is not
\* between the extremes, NULL components included, and of a key of at most
\* two columns no other.
THEOREM PlanOutOfRange == Spec => []OutOfRangeIsOutsideSpan
<1>1. PlanInv => OutOfRangeIsOutsideSpan
  <2> SUFFICES ASSUME PlanInv, Planned, KeyCols > 0, NEW k \in space.keys
               PROVE  /\ ~InSpan(k) => OutOfRange(k, lo, hi)
                      /\ KeyCols <= 2 /\ InSpan(k) => ~OutOfRange(k, lo, hi)
    BY DEF OutOfRangeIsOutsideSpan
  <2>1. KeyCols \in Nat \ {0} /\ space.keys \subseteq KeysOf(KeyCols)
    BY KeysTyped DEF PlanInv
  <2>2. lo \in space.keys /\ hi \in space.keys
    BY <2>1, FinishedPlan DEF ByInteger, Sampled
  <2>3. k \in KeysOf(KeyCols) /\ lo \in KeysOf(KeyCols) /\ hi \in KeysOf(KeyCols)
    BY <2>1, <2>2
  <2> QED
    BY <2>1, <2>3, OutOfRangeSelects DEF InSpan
<1> QED
  BY <1>1, Inductive, PTL

\* The recursion ends: the chunks and the intervals still to split are
\* never more than the rows it was asked to cut.
THEOREM PlanStaysBounded == Spec => []PlanIsBounded
BY Inductive, BoundFromInv, PTL
=============================================================================
