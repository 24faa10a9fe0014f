--------------------------- MODULE RowSyncProofs ---------------------------
(***************************************************************************)
(* RowSync for tables of any size, every option and any number of failures *)
(* and of writes to the source by other sessions: its type invariant; that *)
(* rows the filter does not match are never written; and that equal rows   *)
(* stay in place without --allow-row-rewrite.                              *)
(***************************************************************************)
EXTENDS RowSync, KeyRangeProofs, SequenceTheorems

-----------------------------------------------------------------------------
(***************************************************************************)
(* Finite sets and the sequences made of them.                             *)
(***************************************************************************)
LEMMA MaxOf ==
  ASSUME NEW m \in Nat, NEW s \in SUBSET (1..m), s # {}
  PROVE  Max(s) \in s /\ \A y \in s : y <= Max(s)
<1> DEFINE T == {x \in 0..m : \A y \in s : y <= x}
<1>1. T \in SUBSET Nat /\ m \in T
  OBVIOUS
<1>2. PICK x \in T : \A y \in T : x <= y
  BY <1>1, LeastNat
<1>3. x \in s
  <2> SUFFICES ASSUME x \notin s PROVE FALSE
    OBVIOUS
  <2>1. x \in 0..m /\ \A y \in s : y \in 1..m /\ y <= x /\ y # x
    BY <1>2
  <2>0. \A y \in 1..m : y <= x /\ y # x => y <= x - 1 /\ x - 1 \in 0..m
    BY <2>1
  <2>2. x - 1 \in 0..m /\ \A y \in s : y <= x - 1
    BY <2>0, <2>1
  <2>3. x - 1 \in T
    BY <2>2
  <2> QED
    BY <1>2, <2>1, <2>3
<1>4. \E x_1 \in s : \A y \in s : x_1 >= y
  BY <1>2, <1>3
<1> QED
  BY <1>4 DEF Max

LEMMA SetAsSeq ==
  ASSUME NEW S, IsFiniteSet(S)
  PROVE  /\ Cardinality(S) \in Nat /\ SetToSeq(S) \in Seq(S)
         /\ Len(SetToSeq(S)) = Cardinality(S)
         /\ \A x \in S : \E i \in 1..Cardinality(S) : SetToSeq(S)[i] = x
<1>1. Cardinality(S) \in Nat /\ ExistsBijection(1..Cardinality(S), S)
  BY FS_CardinalityType
<1>2. PICK f \in Bijection(1..Cardinality(S), S) : TRUE
  BY <1>1 DEF ExistsBijection
<1>3. f \in [1..Cardinality(S) -> S] /\ IsInjective(f)
  BY <1>2 DEF Bijection, Injection, IsInjective
<1>4. SetToSeq(S) \in [1..Cardinality(S) -> S] /\ IsInjective(SetToSeq(S))
  BY <1>3 DEF SetToSeq
<1>5. SetToSeq(S) \in Injection(1..Cardinality(S), S)
  BY <1>4 DEF Injection, IsInjective
<1>6. IsFiniteSet(1..Cardinality(S)) /\ Cardinality(1..Cardinality(S)) = Cardinality(S)
  BY <1>1, FS_Interval
<1>7. SetToSeq(S) \in Surjection(1..Cardinality(S), S)
  BY <1>5, <1>6, FS_Injection
<1>8. \A x \in S : \E i \in 1..Cardinality(S) : SetToSeq(S)[i] = x
  BY <1>7 DEF Surjection
<1> QED
  BY <1>1, <1>4, <1>8

IsFlat(seqs, h, m) ==
  h = [i \in 1..m |-> IF i = 1 THEN seqs[i] ELSE h[i - 1] \o seqs[i]]

\* A concatenation, one sequence after the other.
Joined(h, seqs, n) ==
  /\ FlattenSeq(seqs) = h[n] /\ h[1] = seqs[1]
  /\ \A m \in 1..(n - 1) : h[m + 1] = h[m] \o seqs[m + 1]

LEMMA FlatSteps ==
  ASSUME NEW n \in Nat, n # 0, NEW seqs, Len(seqs) = n
  PROVE  \E h : Joined(h, seqs, n)
<1> DEFINE flatten == CHOOSE h : IsFlat(seqs, h, n)
           Built   == {m \in 0..n : \E h : IsFlat(seqs, h, m)}
<1>2. FlattenSeq(seqs) = flatten[n]
  BY DEF FlattenSeq, IsFlat
<1>3. 0 \in Built
  <2>1. IsFlat(seqs, <<>>, 0)
    BY DEF IsFlat
  <2> QED
    BY <2>1
<1>4. \A m \in 0..(n - 1) : m \in Built => m + 1 \in Built
  <2> SUFFICES ASSUME NEW m \in 0..(n - 1), NEW h, IsFlat(seqs, h, m)
               PROVE  \E g : IsFlat(seqs, g, m + 1)
    OBVIOUS
  <2> HIDE DEF Built
  <2> DEFINE last == IF m = 0 THEN seqs[1] ELSE h[m] \o seqs[m + 1]
             g    == [i \in 1..(m + 1) |-> IF i = m + 1 THEN last ELSE h[i]]
  <2>1. \A i \in 1..m : h[i] = IF i = 1 THEN seqs[i] ELSE h[i - 1] \o seqs[i]
    BY DEF IsFlat
  <2> HIDE DEF last
  <2>2. g = [i \in 1..(m + 1) |-> g[i]] /\ g[m + 1] = last /\ \A i \in 1..m : g[i] = h[i]
    OBVIOUS
  <2> HIDE DEF g
  <2>3. ASSUME NEW i \in 1..(m + 1)
        PROVE  g[i] = IF i = 1 THEN seqs[i] ELSE g[i - 1] \o seqs[i]
    <3>1. CASE i = m + 1
      <4>1. CASE m = 0
        BY <2>2, <3>1, <4>1 DEF last
      <4>2. CASE m # 0
        <5>1. m \in 1..m /\ i # 1 /\ i - 1 = m
          BY <3>1, <4>2
        <5> QED
          BY <2>2, <3>1, <4>2, <5>1 DEF last
      <4> QED
        BY <4>1, <4>2
    <3>2. CASE i # m + 1
      <4>1. i \in 1..m /\ (i # 1 => i - 1 \in 1..m)
        BY <3>2
      <4> QED
        BY <2>1, <2>2, <4>1
    <3> QED
      BY <3>1, <3>2
  <2>4. IsFlat(seqs, g, m + 1)
    BY <2>2, <2>3 DEF IsFlat
  <2> QED
    BY <2>4
<1>5. IsFlat(seqs, flatten, n)
  <2> HIDE DEF Built
  <2>1. 0..n \subseteq Built
    BY <1>3, <1>4, UpTo
  <2> QED
    BY <2>1 DEF Built
<1> HIDE DEF flatten
<1>6. \A i \in 1..n : flatten[i] = IF i = 1 THEN seqs[i] ELSE flatten[i - 1] \o seqs[i]
  BY <1>5 DEF IsFlat
<1>7. flatten[1] = seqs[1]
  BY <1>6
<1>8. ASSUME NEW m \in 1..(n - 1) PROVE flatten[m + 1] = flatten[m] \o seqs[m + 1]
  <2>1. m + 1 \in 1..n /\ (m + 1) - 1 = m /\ m + 1 # 1
    OBVIOUS
  <2> QED
    BY <1>6, <2>1
<1>9. Joined(flatten, seqs, n)
  BY <1>2, <1>7, <1>8 DEF Joined
<1> QED
  BY <1>9

\* A set of sequences that is closed under concatenation has the
\* concatenation of any of them.
LEMMA Flattened ==
  ASSUME NEW T, NEW S \in SUBSET Seq(T), <<>> \in S, \A a, b \in S : a \o b \in S,
         NEW n \in Nat, NEW seqs \in [1..n -> S]
  PROVE  FlattenSeq(seqs) \in S
<1>1. Len(seqs) = n
  OBVIOUS
<1>2. CASE n = 0
  <2>1. FlattenSeq(seqs) = seqs
    BY <1>1, <1>2 DEF FlattenSeq
  <2>2. seqs = <<>>
    BY <1>2
  <2> QED
    BY <2>1, <2>2
<1>3. CASE n # 0
  <2>0. PICK h : Joined(h, seqs, n)
    BY <1>1, <1>3, FlatSteps
  <2>1. /\ FlattenSeq(seqs) = h[n] /\ h[1] = seqs[1]
        /\ \A m \in 1..(n - 1) : h[m + 1] = h[m] \o seqs[m + 1]
    BY <2>0 DEF Joined
  <2> DEFINE Flat == {m \in 0..n : m = 0 \/ h[m] \in S}
  <2>2. 0 \in Flat
    OBVIOUS
  <2>3. \A m \in 0..(n - 1) : m \in Flat => m + 1 \in Flat
    <3> SUFFICES ASSUME NEW m \in 0..(n - 1), m \in Flat PROVE m + 1 \in Flat
      OBVIOUS
    <3>1. m + 1 \in 1..n /\ seqs[m + 1] \in S /\ seqs[1] \in S
      BY <1>3
    <3>2. m = 0 => h[m + 1] \in S
      BY <2>1, <3>1
    <3>3. ASSUME m # 0 PROVE h[m + 1] \in S
      <4>1. m \in 1..(n - 1) /\ h[m] \in S
        BY <3>3
      <4> QED
        BY <2>1, <3>1, <4>1
    <3> QED
      BY <3>1, <3>2, <3>3
  <2> HIDE DEF Flat
  <2>4. 0..n \subseteq Flat
    BY <2>2, <2>3, UpTo
  <2> QED
    BY <1>3, <2>1, <2>4 DEF Flat
<1> QED
  BY <1>2, <1>3

-----------------------------------------------------------------------------
(***************************************************************************)
(* The folds over ops and rows, as the sequence of their intermediate      *)
(* states.                                                                 *)
(***************************************************************************)
Apply(which, t, x) == IF which = "rows" THEN AddInsert(t, x) ELSE RunOp(t, x)

IsFold(which, base, seq, h, m) ==
  h = [s \in SUBSET (1..m) |-> IF s = {} THEN base
                               ELSE Apply(which, h[s \ {Max(s)}], seq[Max(s)])]

LEMMA FoldExists ==
  ASSUME NEW which, NEW base, NEW seq, NEW n \in Nat
  PROVE  \E h : IsFold(which, base, seq, h, n)
<1> DEFINE Built == {m \in 0..n : \E h : IsFold(which, base, seq, h, m)}
<1>1. 0 \in Built
  <2> DEFINE h == [s \in SUBSET (1..0) |-> base]
  <2>1. \A s \in SUBSET (1..0) : s = {}
    OBVIOUS
  <2>2. IsFold(which, base, seq, h, 0)
    BY <2>1 DEF IsFold
  <2> QED
    BY <2>2
<1>2. \A m \in 0..(n - 1) : m \in Built => m + 1 \in Built
  <2> SUFFICES ASSUME NEW m \in 0..(n - 1), NEW h, IsFold(which, base, seq, h, m)
               PROVE  \E g : IsFold(which, base, seq, g, m + 1)
    OBVIOUS
  <2> HIDE DEF Built
  <2> DEFINE new(s) == Apply(which, h[s \ {m + 1}], seq[m + 1])
             g      == [s \in SUBSET (1..(m + 1)) |-> IF m + 1 \in s THEN new(s) ELSE h[s]]
  <2>1. \A s \in SUBSET (1..m) :
           h[s] = IF s = {} THEN base ELSE Apply(which, h[s \ {Max(s)}], seq[Max(s)])
    BY DEF IsFold
  <2>2. g = [s \in SUBSET (1..(m + 1)) |-> g[s]]
    OBVIOUS
  <2>3. \A s \in SUBSET (1..(m + 1)) : g[s] = IF m + 1 \in s THEN new(s) ELSE h[s]
    OBVIOUS
  <2> HIDE DEF g
  <2>4. ASSUME NEW s \in SUBSET (1..(m + 1))
        PROVE  g[s] = IF s = {} THEN base ELSE Apply(which, g[s \ {Max(s)}], seq[Max(s)])
    <3>1. CASE m + 1 \in s
      <4>1. Max(s) \in s /\ m + 1 <= Max(s)
        BY <3>1, MaxOf, m + 1 \in Nat
      <4>2. Max(s) = m + 1
        <5>1. Max(s) \in 1..(m + 1)
          BY <4>1
        <5>2. \A x \in 1..(m + 1) : m + 1 <= x => x = m + 1
          OBVIOUS
        <5> QED
          BY <4>1, <5>1, <5>2
      <4>3. s \ {m + 1} \in SUBSET (1..(m + 1)) /\ m + 1 \notin s \ {m + 1}
        OBVIOUS
      <4>4. g[s \ {m + 1}] = h[s \ {m + 1}]
        BY <2>3, <4>3
      <4> QED
        BY <2>3, <3>1, <4>2, <4>4
    <3>2. CASE m + 1 \notin s
      <4>1. s \in SUBSET (1..m)
        BY <3>2
      <4>2. s # {} => /\ s \ {Max(s)} \in SUBSET (1..(m + 1))
                      /\ m + 1 \notin s \ {Max(s)}
        BY <3>2
      <4>3. s # {} => g[s \ {Max(s)}] = h[s \ {Max(s)}]
        BY <2>3, <4>2
      <4>4. g[s] = h[s]
        BY <2>3, <3>2
      <4> QED
        BY <2>1, <4>1, <4>3, <4>4
    <3> QED
      BY <3>1, <3>2
  <2>5. IsFold(which, base, seq, g, m + 1)
    BY <2>2, <2>4 DEF IsFold
  <2> QED
    BY <2>5
<1> HIDE DEF Built
<1>3. 0..n \subseteq Built
  BY <1>1, <1>2, UpTo
<1> QED
  BY <1>3 DEF Built

LEMMA FoldSteps ==
  ASSUME NEW which, NEW base, NEW seq, NEW n \in Nat, NEW h, IsFold(which, base, seq, h, n)
  PROVE  \E g : /\ g[0] = base /\ g[n] = h[1..n]
                /\ \A i \in 1..n : g[i] = Apply(which, g[i - 1], seq[i])
<1> DEFINE g == [i \in 0..n |-> h[1..i]]
<1>1. \A s \in SUBSET (1..n) :
         h[s] = IF s = {} THEN base ELSE Apply(which, h[s \ {Max(s)}], seq[Max(s)])
  BY DEF IsFold
<1>2. g[0] = base
  <2>1. 1..0 = {} /\ 1..0 \in SUBSET (1..n) /\ 0 \in 0..n
    OBVIOUS
  <2> QED
    BY <1>1, <2>1
<1>3. ASSUME NEW i \in 1..n PROVE g[i] = Apply(which, g[i - 1], seq[i])
  <2>1. 1..i \in SUBSET (1..n) /\ i \in 1..i /\ i - 1 \in 0..n /\ i \in 0..n /\ i \in Nat
    OBVIOUS
  <2>2. Max(1..i) \in 1..i /\ i <= Max(1..i)
    BY <2>1, MaxOf
  <2>3. Max(1..i) = i
    BY <2>2
  <2>4. (1..i) \ {i} = 1..(i - 1)
    OBVIOUS
  <2>5. h[1..i] = Apply(which, h[1..(i - 1)], seq[i])
    BY <1>1, <2>1, <2>3, <2>4
  <2>6. g[i] = h[1..i] /\ g[i - 1] = h[1..(i - 1)]
    BY <2>1
  <2> QED
    BY <2>5, <2>6
<1>4. g[n] = h[1..n]
  OBVIOUS
<1> QED
  BY <1>2, <1>3, <1>4

FoldOfRows(base, rows) == FoldLeft(AddInsert, base, rows)
FoldOfOps(base, ops)   == FoldLeft(RunOp, base, ops)

LEMMA FoldRows ==
  ASSUME NEW base, NEW S, NEW rows \in Seq(S)
  PROVE  \E g : /\ g[0] = base /\ FoldOfRows(base, rows) = g[Len(rows)]
                /\ \A i \in 1..Len(rows) : g[i] = AddInsert(g[i - 1], rows[i])
<1> DEFINE body(h) == [s \in SUBSET DOMAIN rows |-> IF s = {} THEN base
                                 ELSE AddInsert(h[s \ {Max(s)}], rows[Max(s)])]
           iter == CHOOSE h : h = body(h)
<1>1. Len(rows) \in Nat /\ DOMAIN rows = 1..Len(rows)
  OBVIOUS
<1>2. FoldOfRows(base, rows) = iter[DOMAIN rows]
  BY DEF FoldOfRows, FoldLeft, MapThenFoldSet
<1>3. \A h : IsFold("rows", base, rows, h, Len(rows)) <=> h = body(h)
  BY <1>1 DEF IsFold, Apply
<1>4. IsFold("rows", base, rows, iter, Len(rows))
  BY <1>1, <1>3, FoldExists
<1> HIDE DEF iter
<1>5. PICK g : /\ g[0] = base /\ g[Len(rows)] = iter[1..Len(rows)]
               /\ \A i \in 1..Len(rows) : g[i] = Apply("rows", g[i - 1], rows[i])
  BY <1>1, <1>4, FoldSteps
<1>6. \A i \in 1..Len(rows) : g[i] = AddInsert(g[i - 1], rows[i])
  BY <1>5 DEF Apply
<1> QED
  BY <1>1, <1>2, <1>5, <1>6

LEMMA FoldOps ==
  ASSUME NEW base, NEW S, NEW ops \in Seq(S)
  PROVE  \E g : /\ g[0] = base /\ FoldOfOps(base, ops) = g[Len(ops)]
                /\ \A i \in 1..Len(ops) : g[i] = RunOp(g[i - 1], ops[i])
<1> DEFINE body(h) == [s \in SUBSET DOMAIN ops |-> IF s = {} THEN base
                                 ELSE RunOp(h[s \ {Max(s)}], ops[Max(s)])]
           iter == CHOOSE h : h = body(h)
<1>1. Len(ops) \in Nat /\ DOMAIN ops = 1..Len(ops)
  OBVIOUS
<1>2. FoldOfOps(base, ops) = iter[DOMAIN ops]
  BY DEF FoldOfOps, FoldLeft, MapThenFoldSet
<1>3. \A h : IsFold("ops", base, ops, h, Len(ops)) <=> h = body(h)
  BY <1>1 DEF IsFold, Apply
<1>4. IsFold("ops", base, ops, iter, Len(ops))
  BY <1>1, <1>3, FoldExists
<1> HIDE DEF iter
<1>5. PICK g : /\ g[0] = base /\ g[Len(ops)] = iter[1..Len(ops)]
               /\ \A i \in 1..Len(ops) : g[i] = Apply("ops", g[i - 1], ops[i])
  BY <1>1, <1>4, FoldSteps
<1>6. \A i \in 1..Len(ops) : g[i] = RunOp(g[i - 1], ops[i])
  BY <1>5 DEF Apply
<1> QED
  BY <1>1, <1>2, <1>5, <1>6

-----------------------------------------------------------------------------
(***************************************************************************)
(* The tables of a setting.                                                *)
(***************************************************************************)
LEMMA SettingFacts ==
  ASSUME setting \in Settings
  PROVE  /\ Keys \subseteq Int /\ NULL \notin Keys /\ IsFiniteSet(Row)
         /\ KeyUnique \in BOOLEAN /\ AllowRowRewrite \in BOOLEAN /\ (Filtered => KeyUnique)
         /\ setting.matched \subseteq Payloads
         /\ MaxMoves \in Nat /\ MaxFailures \in Nat /\ DeleteCap \in Nat \ {0}
<1>1. IsFiniteSet((Keys \X Uniques) \X Payloads)
  <2>1. IsFiniteSet(Keys) /\ IsFiniteSet(Uniques) /\ IsFiniteSet(Payloads)
    BY RowAssumption DEF Keys, Uniques, Payloads
  <2>2. IsFiniteSet(Keys \X Uniques)
    BY <2>1, FS_Product
  <2> QED
    BY <2>1, <2>2, FS_Product
<1>2. IsFiniteSet(Row)
  <2> DEFINE f == [r \in Row |-> <<<<r.k, r.u>>, r.p>>]
  <2>1. f \in [Row -> (Keys \X Uniques) \X Payloads]
    BY DEF Row
  <2>2. ASSUME NEW r \in Row, NEW s \in Row, f[r] = f[s] PROVE r = s
    BY <2>2 DEF Row
  <2>3. f \in Injection(Row, (Keys \X Uniques) \X Payloads)
    BY <2>1, <2>2 DEF Injection, IsInjective
  <2> QED
    BY <1>1, <2>3, FS_Injection
<1>3. Keys \subseteq Int /\ NULL \notin Keys /\ KeyUnique \in BOOLEAN
  BY RowAssumption DEF Keys, KeyUnique
<1>4. /\ setting.matched \subseteq Payloads /\ AllowRowRewrite \in BOOLEAN /\ (Filtered => KeyUnique)
      /\ MaxMoves \in Nat /\ MaxFailures \in Nat /\ DeleteCap \in Nat \ {0}
  BY SyncAssumption DEF Payloads, AllowRowRewrite, Filtered, KeyUnique, MaxMoves, MaxFailures, DeleteCap
<1> QED
  BY <1>2, <1>3, <1>4

LEMMA SubsetAccepted ==
  ASSUME NEW x, NEW y \in SUBSET x, Accepts(x)
  PROVE  Accepts(y)
  BY DEF Accepts

\* A unique key has one row at most.
LEMMA OneRowPerKey ==
  ASSUME setting \in Settings, KeyUnique, NEW x \in SUBSET Row, Accepts(x),
         NEW r \in x, NEW s \in x, r.k = s.k
  PROVE  r = s
<1>1. "k" \in Constraints /\ r["k"] = s["k"] /\ r["k"] # NULL
  BY SettingFacts DEF Constraints, Row
<1>2. IndexKey("k", r["k"]) = r["k"] /\ IndexKey("k", s["k"]) = s["k"]
  BY DEF IndexKey
<1>3. Clash("k", r, s)
  BY <1>1, <1>2 DEF Clash, Holds
<1> QED
  BY <1>1, <1>3 DEF Accepts

-----------------------------------------------------------------------------
(***************************************************************************)
(* Ops that address the keys K and write rows of the match set, executed   *)
(* in a transaction: the rows to stay have none of these keys.             *)
(***************************************************************************)
OpsOver(K) ==
  {o \in [kind : {"delete", "insert", "update", "rewrite"}, keys : SUBSET K,
          rows : Seq(Matching(Row))] :
     /\ o.kind = "update" => o.keys # {}
     /\ o.kind \in {"update", "insert"} => o.rows # <<>>}

TxType(K) ==
  [rows : SUBSET Row, dels : SUBSET K, pend : Seq(Matching(Row)), dup : BOOLEAN]

TableOK(x, stay) ==
  /\ x \in SUBSET Row /\ Accepts(x) /\ stay \subseteq x /\ x \ stay \subseteq Matching(Row)

TxOK(t, K, stay) == t \in TxType(K) /\ TableOK(t.rows, stay)

Apart(K, stay) == K \subseteq Keys /\ stay \subseteq Row /\ \A r \in stay : r.k \notin K

LEMMA BeginIs ==
  ASSUME NEW K, NEW stay, NEW rows, TableOK(rows, stay)
  PROVE  TxOK(Begin(rows), K, stay) /\ Begin(rows).dels = {}
  BY DEF TxOK, TxType, Begin, TableOK

LEMMA FlushDeletesIs ==
  ASSUME NEW K, NEW t \in TxType(K)
  PROVE  FlushDeletes(t) = [rows |-> {r \in t.rows : r.k \notin t.dels}, dels |-> {},
                            pend |-> t.pend, dup |-> t.dup]
<1> DEFINE rest == {r \in t.rows : r.k \notin t.dels}
           e    == [t EXCEPT !.rows = rest, !.dels = {}]
<1> HIDE DEF rest
<1>1. e \in [rows : {rest}, dels : {{}}, pend : {t.pend}, dup : {t.dup}]
  BY DEF TxType
<1> HIDE DEF e
<1>2. e = [rows |-> rest, dels |-> {}, pend |-> t.pend, dup |-> t.dup]
  BY <1>1
<1> QED
  BY <1>2 DEF FlushDeletes, e, rest

LEMMA FlushDeletesOK ==
  ASSUME NEW K, NEW stay, Apart(K, stay), NEW t, TxOK(t, K, stay)
  PROVE  TxOK(FlushDeletes(t), K, stay) /\ FlushDeletes(t).dels = {}
<1> DEFINE rest == {r \in t.rows : r.k \notin t.dels}
<1>1. FlushDeletes(t) = [rows |-> rest, dels |-> {}, pend |-> t.pend, dup |-> t.dup]
  BY FlushDeletesIs DEF TxOK
<1>2. rest \in SUBSET t.rows
  OBVIOUS
<1>3. stay \subseteq rest
  BY DEF Apart, TxOK, TxType, TableOK
<1> HIDE DEF rest
<1>4. TableOK(rest, stay)
  BY <1>2, <1>3, SubsetAccepted DEF TxOK, TableOK
<1> QED
  BY <1>1, <1>4 DEF TxOK, TxType, TableOK

\* The batched insert is rejected as a whole, or every row of it is there.
FlushBad(t) == ~Accepts(t.rows \cup ToSet(t.pend)) \/ t.rows \cap ToSet(t.pend) # {}

LEMMA FlushIs ==
  ASSUME NEW K, NEW t \in TxType(K)
  PROVE  Flush(t) = [rows |-> IF FlushBad(t) THEN t.rows ELSE t.rows \cup ToSet(t.pend),
                     dels |-> t.dels, pend |-> <<>>, dup |-> t.dup \/ FlushBad(t)]
<1> DEFINE bad == FlushBad(t)
           new == IF bad THEN t.rows ELSE t.rows \cup ToSet(t.pend)
           dup == t.dup \/ bad
           e   == [t EXCEPT !.rows = new, !.pend = <<>>, !.dup = dup]
<1> HIDE DEF bad
<1>1. Flush(t) = [t EXCEPT !.rows = IF bad THEN @ ELSE @ \cup ToSet(t.pend), !.pend = <<>>,
                           !.dup = @ \/ bad]
  BY DEF Flush, bad, FlushBad
<1>2. Flush(t) = e
  BY <1>1
<1> HIDE DEF new, dup
<1>3. e \in [rows : {new}, dels : {t.dels}, pend : {<<>>}, dup : {dup}]
  BY DEF TxType
<1> HIDE DEF e
<1>4. e = [rows |-> new, dels |-> t.dels, pend |-> <<>>, dup |-> dup]
  BY <1>3
<1> QED
  BY <1>2, <1>4 DEF new, dup, bad

LEMMA FlushOK ==
  ASSUME NEW K, NEW stay, NEW t, TxOK(t, K, stay)
  PROVE  TxOK(Flush(t), K, stay) /\ Flush(t).dels = t.dels
<1> DEFINE new == IF FlushBad(t) THEN t.rows ELSE t.rows \cup ToSet(t.pend)
<1>1. Flush(t) = [rows |-> new, dels |-> t.dels, pend |-> <<>>, dup |-> t.dup \/ FlushBad(t)]
  BY FlushIs DEF TxOK
<1>2. ToSet(t.pend) \subseteq Matching(Row) /\ ToSet(t.pend) \subseteq Row
  BY DEF ToSet, TxOK, TxType, Matching
<1>3. TableOK(new, stay)
  <2>1. CASE FlushBad(t)
    BY <2>1 DEF TxOK
  <2>2. CASE ~FlushBad(t)
    BY <1>2, <2>2 DEF TxOK, TableOK, FlushBad
  <2> QED
    BY <2>1, <2>2
<1>4. FlushBad(t) \in BOOLEAN /\ (t.dup \/ FlushBad(t)) \in BOOLEAN
  BY DEF FlushBad
<1> HIDE DEF new
<1>5. t.dels \in SUBSET K /\ <<>> \in Seq(Matching(Row))
  BY DEF TxOK, TxType
<1> QED
  BY <1>1, <1>3, <1>4, <1>5 DEF TxOK, TxType, TableOK

LEMMA AddInsertIs ==
  ASSUME NEW K, NEW t \in TxType(K), NEW row,
         NEW room, room = IF Len(t.pend) >= Batch THEN Flush(t) ELSE t, room \in TxType(K)
  PROVE  AddInsert(t, row) = [rows |-> room.rows, dels |-> room.dels,
                              pend |-> Append(room.pend, row), dup |-> room.dup]
<1> DEFINE e == [room EXCEPT !.pend = Append(room.pend, row)]
<1>1. AddInsert(t, row) = e
  BY DEF AddInsert
<1>2. e \in [rows : {room.rows}, dels : {room.dels}, pend : {Append(room.pend, row)}, dup : {room.dup}]
  BY DEF TxType
<1> HIDE DEF e
<1>3. e = [rows |-> room.rows, dels |-> room.dels, pend |-> Append(room.pend, row), dup |-> room.dup]
  BY <1>2
<1> QED
  BY <1>1, <1>3

LEMMA AddInsertOK ==
  ASSUME NEW K, NEW stay, NEW t, TxOK(t, K, stay), NEW row \in Matching(Row)
  PROVE  TxOK(AddInsert(t, row), K, stay) /\ AddInsert(t, row).dels = t.dels
<1> DEFINE room == IF Len(t.pend) >= Batch THEN Flush(t) ELSE t
<1>1. TxOK(room, K, stay) /\ room.dels = t.dels
  BY FlushOK
<1> HIDE DEF room
<1>2. AddInsert(t, row) = [rows |-> room.rows, dels |-> room.dels,
                           pend |-> Append(room.pend, row), dup |-> room.dup]
  BY <1>1, AddInsertIs DEF TxOK, room
<1>3. Append(room.pend, row) \in Seq(Matching(Row))
  BY <1>1 DEF TxOK, TxType
<1> QED
  BY <1>1, <1>2, <1>3 DEF TxOK, TxType, TableOK

\* UPDATE of the row at a key: what the row becomes, and whether the unique
\* index rejects that.
AtKey(rows, key)         == {r \in rows : r.k = key}
Updated(rows, key, row)  == {[row EXCEPT !.k = key] : r \in AtKey(rows, key)}
UpdateBad(rows, key, row) == ~Accepts((rows \ AtKey(rows, key)) \cup Updated(rows, key, row))

LEMMA UpdateIs ==
  ASSUME NEW K, NEW t \in TxType(K), NEW key, NEW row
  PROVE  UpdateRow(t, key, row) =
           [rows |-> IF UpdateBad(t.rows, key, row) THEN t.rows
                     ELSE (t.rows \ AtKey(t.rows, key)) \cup Updated(t.rows, key, row),
            dels |-> t.dels, pend |-> t.pend, dup |-> t.dup \/ UpdateBad(t.rows, key, row)]
<1> DEFINE old == AtKey(t.rows, key)
           put == Updated(t.rows, key, row)
           bad == UpdateBad(t.rows, key, row)
           new == IF bad THEN t.rows ELSE (t.rows \ old) \cup put
           dup == t.dup \/ bad
           e   == [t EXCEPT !.rows = new, !.dup = dup]
<1>1. UpdateRow(t, key, row) = [t EXCEPT !.rows = IF bad THEN @ ELSE (@ \ old) \cup put,
                                         !.dup = @ \/ bad]
  BY DEF UpdateRow, AtKey, Updated, UpdateBad
<1> HIDE DEF old, put, bad
<1>2. UpdateRow(t, key, row) = e
  BY <1>1
<1> HIDE DEF new, dup
<1>3. e \in [rows : {new}, dels : {t.dels}, pend : {t.pend}, dup : {dup}]
  BY DEF TxType
<1> HIDE DEF e
<1>4. e = [rows |-> new, dels |-> t.dels, pend |-> t.pend, dup |-> dup]
  BY <1>3
<1> QED
  BY <1>2, <1>4 DEF new, dup, old, put, bad

LEMMA UpdateOK ==
  ASSUME NEW K, NEW stay, Apart(K, stay), NEW t, TxOK(t, K, stay), NEW key \in K,
         NEW row \in Matching(Row)
  PROVE  TxOK(UpdateRow(t, key, row), K, stay)
<1> DEFINE bad == UpdateBad(t.rows, key, row)
           new == IF bad THEN t.rows
                  ELSE (t.rows \ AtKey(t.rows, key)) \cup Updated(t.rows, key, row)
<1>1. UpdateRow(t, key, row) =
        [rows |-> new, dels |-> t.dels, pend |-> t.pend, dup |-> t.dup \/ bad]
  BY UpdateIs DEF TxOK
<1>2. Updated(t.rows, key, row) \subseteq Matching(Row) /\ Matching(Row) \subseteq Row
  <2>1. [row EXCEPT !.k = key] \in Row /\ [row EXCEPT !.k = key].p = row.p
    BY DEF Matching, Row, Apart
  <2> QED
    BY <2>1 DEF Updated, Matching
<1>3. stay \cap AtKey(t.rows, key) = {}
  BY DEF Apart, AtKey
<1>4. TableOK(new, stay)
  <2>1. CASE bad
    BY <2>1 DEF TxOK
  <2>2. CASE ~bad
    <3>1. Accepts(new)
      BY <2>2 DEF UpdateBad
    <3> QED
      BY <1>2, <1>3, <2>2, <3>1 DEF TxOK, TableOK
  <2> QED
    BY <2>1, <2>2
<1>5. bad \in BOOLEAN /\ (t.dup \/ bad) \in BOOLEAN
  BY DEF UpdateBad
<1> HIDE DEF new, bad
<1> QED
  BY <1>1, <1>4, <1>5 DEF TxOK, TxType, TableOK

LEMMA SetDels ==
  ASSUME NEW K, NEW t \in TxType(K), NEW dels
  PROVE  [t EXCEPT !.dels = dels] = [rows |-> t.rows, dels |-> dels, pend |-> t.pend, dup |-> t.dup]
<1> DEFINE e == [t EXCEPT !.dels = dels]
<1>1. e \in [rows : {t.rows}, dels : {dels}, pend : {t.pend}, dup : {t.dup}]
  BY DEF TxType
<1> HIDE DEF e
<1>2. e = [rows |-> t.rows, dels |-> dels, pend |-> t.pend, dup |-> t.dup]
  BY <1>1
<1> QED
  BY <1>2 DEF e

LEMMA SetDelsOK ==
  ASSUME NEW K, NEW stay, NEW t, TxOK(t, K, stay), NEW dels \in SUBSET K
  PROVE  TxOK([t EXCEPT !.dels = dels], K, stay)
<1>1. [t EXCEPT !.dels = dels] = [rows |-> t.rows, dels |-> dels, pend |-> t.pend, dup |-> t.dup]
  BY SetDels DEF TxOK
<1> QED
  BY <1>1 DEF TxOK, TxType, TableOK

\* What each kind of op does to a transaction.
LEMMA RunOpCases ==
  ASSUME NEW K, NEW op \in OpsOver(K), NEW t
  PROVE  /\ op.kind = "delete" => RunOp(t, op) = [t EXCEPT !.dels = t.dels \cup op.keys]
         /\ op.kind = "insert" => RunOp(t, op) = AddInsert(FlushDeletes(t), op.rows[1])
         /\ op.kind = "update" =>
              RunOp(t, op) = UpdateRow(FlushDeletes(t), CHOOSE k \in op.keys : TRUE, op.rows[1])
         /\ op.kind = "rewrite" =>
              RunOp(t, op) =
                FoldOfRows(FlushDeletes([FlushDeletes(t) EXCEPT !.dels = op.keys]), op.rows)
         /\ op.kind \in {"delete", "insert", "update", "rewrite"}
         /\ op.keys \in SUBSET K /\ op.rows \in Seq(Matching(Row))
         /\ op.kind = "update" => (CHOOSE k \in op.keys : TRUE) \in op.keys
         /\ op.kind \in {"update", "insert"} => op.rows[1] \in Matching(Row)
<1>1. op.kind \in {"delete", "insert", "update", "rewrite"} /\ op.keys \in SUBSET K
      /\ op.rows \in Seq(Matching(Row)) /\ (op.kind = "update" => op.keys # {})
      /\ (op.kind \in {"update", "insert"} => op.rows # <<>>)
  BY DEF OpsOver
<1>2. op.kind \in {"update", "insert"} => op.rows[1] \in Matching(Row)
  BY <1>1
<1> QED
  BY <1>1, <1>2 DEF RunOp, FoldOfRows

LEMMA RewriteOK ==
  ASSUME NEW K, NEW stay, NEW base, TxOK(base, K, stay), NEW rows \in Seq(Matching(Row))
  PROVE  TxOK(FoldOfRows(base, rows), K, stay)
<1>1. PICK g : /\ g[0] = base /\ FoldOfRows(base, rows) = g[Len(rows)]
               /\ \A i \in 1..Len(rows) : g[i] = AddInsert(g[i - 1], rows[i])
  BY FoldRows
<1> DEFINE Good == {i \in 0..Len(rows) : TxOK(g[i], K, stay)}
<1>2. 0 \in Good /\ Len(rows) \in Nat
  BY <1>1
<1>3. \A i \in 0..(Len(rows) - 1) : i \in Good => i + 1 \in Good
  <2> SUFFICES ASSUME NEW i \in 0..(Len(rows) - 1), TxOK(g[i], K, stay)
               PROVE  TxOK(g[i + 1], K, stay)
    BY <1>2
  <2>1. i + 1 \in 1..Len(rows) /\ (i + 1) - 1 = i
    BY <1>2
  <2>2. rows[i + 1] \in Matching(Row)
    BY <2>1
  <2>3. g[i + 1] = AddInsert(g[i], rows[i + 1])
    BY <1>1, <2>1
  <2> QED
    BY <2>2, <2>3, AddInsertOK
<1> HIDE DEF Good
<1>4. 0..Len(rows) \subseteq Good
  BY <1>2, <1>3, UpTo
<1> QED
  BY <1>1, <1>2, <1>4 DEF Good

LEMMA RunOpOK ==
  ASSUME NEW K, NEW stay, Apart(K, stay), NEW t, TxOK(t, K, stay), NEW op \in OpsOver(K)
  PROVE  TxOK(RunOp(t, op), K, stay)
<1>1. TxOK(FlushDeletes(t), K, stay)
  BY FlushDeletesOK
<1>2. op.kind \in {"delete", "insert", "update", "rewrite"} /\ op.keys \in SUBSET K
      /\ op.rows \in Seq(Matching(Row))
  BY RunOpCases
<1>3. CASE op.kind = "delete"
  <2>1. RunOp(t, op) = [t EXCEPT !.dels = t.dels \cup op.keys]
    BY <1>3, RunOpCases
  <2>2. t.dels \cup op.keys \in SUBSET K
    BY <1>2 DEF TxOK, TxType
  <2> QED
    BY <2>1, <2>2, SetDelsOK
<1>4. CASE op.kind = "insert"
  <2>1. RunOp(t, op) = AddInsert(FlushDeletes(t), op.rows[1]) /\ op.rows[1] \in Matching(Row)
    BY <1>4, RunOpCases
  <2> QED
    BY <1>1, <2>1, AddInsertOK
<1>5. CASE op.kind = "update"
  <2> DEFINE key == CHOOSE k \in op.keys : TRUE
  <2>1. RunOp(t, op) = UpdateRow(FlushDeletes(t), key, op.rows[1])
    BY <1>5, RunOpCases
  <2>2. key \in K /\ op.rows[1] \in Matching(Row)
    BY <1>2, <1>5, RunOpCases
  <2> HIDE DEF key
  <2> QED
    BY <1>1, <2>1, <2>2, UpdateOK
<1>6. CASE op.kind = "rewrite"
  <2>1. RunOp(t, op) =
          FoldOfRows(FlushDeletes([FlushDeletes(t) EXCEPT !.dels = op.keys]), op.rows)
    BY <1>6, RunOpCases
  <2>2. TxOK([FlushDeletes(t) EXCEPT !.dels = op.keys], K, stay)
    BY <1>1, <1>2, SetDelsOK
  <2>3. TxOK(FlushDeletes([FlushDeletes(t) EXCEPT !.dels = op.keys]), K, stay)
    BY <2>2, FlushDeletesOK
  <2> QED
    BY <1>2, <2>1, <2>3, RewriteOK
<1> QED
  BY <1>2, <1>3, <1>4, <1>5, <1>6

\* A transaction leaves a table the index accepts, with the rows that have
\* none of the addressed keys, and besides them rows of the match set only.
LEMMA RunOpsOK ==
  ASSUME NEW K, NEW stay, Apart(K, stay), NEW rows, TableOK(rows, stay),
         NEW ops \in Seq(OpsOver(K))
  PROVE  TableOK(RunOps(rows, ops).rows, stay) /\ RunOps(rows, ops).dup \in BOOLEAN
<1>1. PICK g : /\ g[0] = Begin(rows) /\ FoldOfOps(Begin(rows), ops) = g[Len(ops)]
               /\ \A i \in 1..Len(ops) : g[i] = RunOp(g[i - 1], ops[i])
  BY FoldOps
<1> DEFINE Good == {i \in 0..Len(ops) : TxOK(g[i], K, stay)}
<1>2. 0 \in Good /\ Len(ops) \in Nat
  BY <1>1, BeginIs
<1>3. \A i \in 0..(Len(ops) - 1) : i \in Good => i + 1 \in Good
  <2> SUFFICES ASSUME NEW i \in 0..(Len(ops) - 1), TxOK(g[i], K, stay)
               PROVE  TxOK(g[i + 1], K, stay)
    BY <1>2
  <2>1. i + 1 \in 1..Len(ops) /\ (i + 1) - 1 = i
    BY <1>2
  <2>2. ops[i + 1] \in OpsOver(K)
    BY <2>1
  <2>3. g[i + 1] = RunOp(g[i], ops[i + 1])
    BY <1>1, <2>1
  <2> QED
    BY <2>2, <2>3, RunOpOK
<1> HIDE DEF Good
<1>4. 0..Len(ops) \subseteq Good
  BY <1>2, <1>3, UpTo
<1>5. TxOK(g[Len(ops)], K, stay)
  BY <1>2, <1>4 DEF Good
<1>6. TxOK(Flush(FlushDeletes(g[Len(ops)])), K, stay)
  BY <1>5, FlushDeletesOK, FlushOK
<1>7. RunOps(rows, ops) = Flush(FlushDeletes(g[Len(ops)]))
  BY <1>1 DEF RunOps, FoldOfOps
<1> QED
  BY <1>6, <1>7 DEF TxOK, TxType

-----------------------------------------------------------------------------
(***************************************************************************)
(* The ops of a chunk.  They address keys of its destination rows only and *)
(* write rows of its source only; and, unless the chunk is hot, a row that *)
(* the two sides share survives them: its delete is followed by its        *)
(* insert, and its update changes nothing.                                 *)
(***************************************************************************)
Survives(r, ops) ==
  \A i \in 1..Len(ops) :
    /\ ops[i].kind # "rewrite"
    /\ ops[i].kind = "delete" /\ r.k \in ops[i].keys =>
         \E j \in (i + 1)..Len(ops) : ops[j].kind = "insert" /\ ops[j].rows = <<r>>
    /\ ops[i].kind = "update" /\ r.k \in ops[i].keys => ops[i].rows[1] = r

Plans(K, E) == {ops \in Seq(OpsOver(K)) : \A r \in E : Survives(r, ops)}

LEMMA PlansConcat ==
  ASSUME NEW K, NEW E, NEW a \in Plans(K, E), NEW b \in Plans(K, E)
  PROVE  a \o b \in Plans(K, E)
<1>1. /\ a \in Seq(OpsOver(K)) /\ b \in Seq(OpsOver(K))
      /\ \A r \in E : Survives(r, a) /\ Survives(r, b)
  BY DEF Plans
<1>2. /\ a \o b \in Seq(OpsOver(K)) /\ Len(a \o b) = Len(a) + Len(b)
      /\ \A i \in 1..(Len(a) + Len(b)) :
           (a \o b)[i] = IF i <= Len(a) THEN a[i] ELSE b[i - Len(a)]
  BY <1>1, ConcatProperties
<1>3. Len(a) \in Nat /\ Len(b) \in Nat
  BY <1>1
<1> DEFINE c == a \o b
<1> HIDE DEF c
<1>4. /\ Len(c) = Len(a) + Len(b)
      /\ \A i \in 1..Len(a) : c[i] = a[i]
      /\ \A i \in 1..Len(b) : c[Len(a) + i] = b[i]
  BY <1>2, <1>3 DEF c
<1>5. ASSUME NEW r \in E PROVE Survives(r, c)
  <2> SUFFICES ASSUME NEW i \in 1..Len(c)
               PROVE  /\ c[i].kind # "rewrite"
                      /\ c[i].kind = "delete" /\ r.k \in c[i].keys =>
                           \E j \in (i + 1)..Len(c) : c[j].kind = "insert" /\ c[j].rows = <<r>>
                      /\ c[i].kind = "update" /\ r.k \in c[i].keys => c[i].rows[1] = r
    BY DEF Survives
  <2>1. CASE i <= Len(a)
    <3>1. i \in 1..Len(a) /\ c[i] = a[i]
      BY <1>3, <1>4, <2>1
    <3>2. ASSUME NEW j \in (i + 1)..Len(a) PROVE j \in (i + 1)..Len(c) /\ c[j] = a[j]
      BY <1>3, <1>4, <3>1
    <3>3. /\ a[i].kind # "rewrite"
          /\ a[i].kind = "delete" /\ r.k \in a[i].keys =>
               \E j \in (i + 1)..Len(a) : a[j].kind = "insert" /\ a[j].rows = <<r>>
          /\ a[i].kind = "update" /\ r.k \in a[i].keys => a[i].rows[1] = r
      BY <1>1, <3>1 DEF Survives
    <3>4. ASSUME c[i].kind = "delete", r.k \in c[i].keys
          PROVE  \E j \in (i + 1)..Len(c) : c[j].kind = "insert" /\ c[j].rows = <<r>>
      <4>1. PICK j \in (i + 1)..Len(a) : a[j].kind = "insert" /\ a[j].rows = <<r>>
        BY <3>1, <3>3, <3>4
      <4> QED
        BY <3>2, <4>1
    <3> QED
      BY <3>1, <3>3, <3>4
  <2>2. CASE i > Len(a)
    <3>1. i - Len(a) \in 1..Len(b) /\ c[i] = b[i - Len(a)]
      BY <1>3, <1>4, <2>2
    <3>2. ASSUME NEW j \in (i - Len(a) + 1)..Len(b)
          PROVE  Len(a) + j \in (i + 1)..Len(c) /\ c[Len(a) + j] = b[j]
      BY <1>3, <1>4, <3>1
    <3>3. /\ b[i - Len(a)].kind # "rewrite"
          /\ b[i - Len(a)].kind = "delete" /\ r.k \in b[i - Len(a)].keys =>
               \E j \in (i - Len(a) + 1)..Len(b) : b[j].kind = "insert" /\ b[j].rows = <<r>>
          /\ b[i - Len(a)].kind = "update" /\ r.k \in b[i - Len(a)].keys =>
               b[i - Len(a)].rows[1] = r
      BY <1>1, <3>1 DEF Survives
    <3>4. ASSUME c[i].kind = "delete", r.k \in c[i].keys
          PROVE  \E j \in (i + 1)..Len(c) : c[j].kind = "insert" /\ c[j].rows = <<r>>
      <4>1. PICK j \in (i - Len(a) + 1)..Len(b) : b[j].kind = "insert" /\ b[j].rows = <<r>>
        BY <3>1, <3>3, <3>4
      <4> QED
        BY <3>2, <4>1
    <3> QED
      BY <3>1, <3>3, <3>4
  <2> QED
    BY <1>3, <1>4, <2>1, <2>2
<1> QED
  BY <1>2, <1>5 DEF Plans, c

LEMMA PlansEmpty ==
  ASSUME NEW K, NEW E
  PROVE  <<>> \in Plans(K, E)
  BY DEF Plans, Survives

LEMMA PlansFlat ==
  ASSUME NEW K, NEW E, NEW n \in Nat, NEW seqs \in [1..n -> Plans(K, E)]
  PROVE  FlattenSeq(seqs) \in Plans(K, E)
<1> DEFINE S == Plans(K, E)
<1>1. S \in SUBSET Seq(OpsOver(K)) /\ <<>> \in S /\ \A a, b \in S : a \o b \in S
  BY PlansEmpty, PlansConcat DEF Plans
<1>2. seqs \in [1..n -> S]
  OBVIOUS
<1> HIDE DEF S
<1>3. FlattenSeq(seqs) \in S
  BY <1>1, <1>2, Flattened
<1> QED
  BY <1>3 DEF S

LEMMA KindFacts ==
  ASSUME NEW s, NEW d
  PROVE  /\ Kind(s, d) \in {"insert", "delete", "noop", "update", "replace"}
         /\ Kind(s, d) = "update" =>
              KeyUnique /\ Cardinality(s) = 1 /\ Cardinality(d) = 1 /\ d # {} /\ s # {}
  BY DEF Kind

\* A chunk's rows on either side, and the rows that shall survive.
Chunk(K, E, s, d) ==
  /\ s \subseteq Matching(Row) /\ d \subseteq Matching(Row)
  /\ K \subseteq Keys /\ \A x \in d : x.k \in K
  /\ \A r \in E : (\E x \in d : x.k = r.k) => r \in s

LEMMA GroupFacts ==
  ASSUME setting \in Settings, NEW rows, rows \subseteq Matching(Row), NEW id
  PROVE  /\ Group(rows, id) \subseteq Matching(Row) /\ Group(rows, id) \subseteq rows
         /\ IsFiniteSet(Group(rows, id)) /\ Cardinality(Group(rows, id)) \in Nat
         /\ SetToSeq(Group(rows, id)) \in Seq(Matching(Row))
         /\ Len(SetToSeq(Group(rows, id))) = Cardinality(Group(rows, id))
         /\ \A x \in Group(rows, id) : \E i \in 1..Cardinality(Group(rows, id)) :
              SetToSeq(Group(rows, id))[i] = x
         /\ \A i \in 1..Cardinality(Group(rows, id)) :
              SetToSeq(Group(rows, id))[i] \in Group(rows, id)
<1>1. Group(rows, id) \subseteq rows /\ Matching(Row) \subseteq Row
  BY DEF Group, Matching
<1>2. IsFiniteSet(Group(rows, id))
  BY <1>1, SettingFacts, FS_Subset
<1>3. SetToSeq(Group(rows, id)) \in Seq(Group(rows, id))
  BY <1>2, SetAsSeq
<1>4. SetToSeq(Group(rows, id)) \in Seq(Matching(Row))
  BY <1>1, <1>3, SeqMonotonic
<1> HIDE DEF Group
<1> QED
  BY <1>1, <1>2, <1>3, <1>4, SetAsSeq, ElementOfSeq

LEMMA DeletesFacts ==
  ASSUME NEW K, NEW d, Cardinality(d) \in Nat,
         \A i \in 1..Cardinality(d) : SetToSeq(d)[i].k \in K
  PROVE  /\ Deletes(d) \in Seq(OpsOver(K)) /\ Len(Deletes(d)) = Cardinality(d)
         /\ \A i \in 1..Cardinality(d) : Deletes(d)[i].kind = "delete"
              /\ Deletes(d)[i].keys = {SetToSeq(d)[i].k} /\ Deletes(d)[i].rows = <<>>
<1> DEFINE op(i) == Op("delete", {SetToSeq(d)[i].k}, <<>>)
<1>1. \A i \in 1..Cardinality(d) : op(i) \in OpsOver(K)
  BY DEF OpsOver, Op
<1>2. Deletes(d) = [i \in 1..Cardinality(d) |-> op(i)]
  BY DEF Deletes
<1>3. \A i \in 1..Cardinality(d) : op(i).kind = "delete" /\ op(i).keys = {SetToSeq(d)[i].k}
        /\ op(i).rows = <<>>
  BY DEF Op
<1> HIDE DEF op
<1> QED
  BY <1>1, <1>2, <1>3

LEMMA InsertsFacts ==
  ASSUME NEW K, NEW s, Cardinality(s) \in Nat,
         \A i \in 1..Cardinality(s) : SetToSeq(s)[i] \in Matching(Row)
  PROVE  /\ Inserts(s) \in Seq(OpsOver(K)) /\ Len(Inserts(s)) = Cardinality(s)
         /\ \A i \in 1..Cardinality(s) : Inserts(s)[i].kind = "insert"
              /\ Inserts(s)[i].rows = <<SetToSeq(s)[i]>> /\ Inserts(s)[i].keys = {}
<1> DEFINE op(i) == Op("insert", {}, <<SetToSeq(s)[i]>>)
<1>1. ASSUME NEW i \in 1..Cardinality(s) PROVE op(i) \in OpsOver(K)
  <2> DEFINE row == SetToSeq(s)[i]
  <2>1. row \in Matching(Row)
    OBVIOUS
  <2> HIDE DEF row
  <2>2. <<row>> \in Seq(Matching(Row)) /\ <<row>> # <<>>
    BY <2>1
  <2>3. Op("insert", {}, <<row>>) \in OpsOver(K)
    BY <2>2 DEF OpsOver, Op
  <2> QED
    BY <2>3 DEF row
<1>2. Inserts(s) = [i \in 1..Cardinality(s) |-> op(i)]
  BY DEF Inserts
<1>3. \A i \in 1..Cardinality(s) : op(i).kind = "insert" /\ op(i).rows = <<SetToSeq(s)[i]>>
        /\ op(i).keys = {}
  BY DEF Op
<1> HIDE DEF op
<1> QED
  BY <1>1, <1>2, <1>3

LEMMA GroupReplaced ==
  ASSUME setting \in Settings, NEW K, NEW E, NEW s, NEW d, Chunk(K, E, s, d), NEW id
  PROVE  Deletes(Group(d, id)) \o Inserts(Group(s, id)) \in Plans(K, E)
<1> DEFINE gs == Group(s, id)
           gd == Group(d, id)
           D  == Deletes(gd)
           I  == Inserts(gs)
           c  == D \o I
<1>1. s \subseteq Matching(Row) /\ d \subseteq Matching(Row)
  BY DEF Chunk
<1>2. /\ gs \subseteq s /\ Cardinality(gs) \in Nat
      /\ \A x \in gs : \E i \in 1..Cardinality(gs) : SetToSeq(gs)[i] = x
      /\ \A i \in 1..Cardinality(gs) : SetToSeq(gs)[i] \in Matching(Row)
  BY <1>1, GroupFacts
<1>3. /\ gd \subseteq d /\ Cardinality(gd) \in Nat
      /\ \A i \in 1..Cardinality(gd) : SetToSeq(gd)[i] \in gd /\ SetToSeq(gd)[i].k \in K
  BY <1>1, GroupFacts DEF Chunk
<1>4. ASSUME NEW r \in E, NEW x \in gd, x.k = r.k PROVE r \in gs
  BY <1>3, <1>4 DEF Chunk, Group
<1> HIDE DEF gs, gd
<1>5. /\ D \in Seq(OpsOver(K)) /\ Len(D) = Cardinality(gd)
      /\ \A i \in 1..Cardinality(gd) : D[i].kind = "delete"
           /\ D[i].keys = {SetToSeq(gd)[i].k} /\ D[i].rows = <<>>
  BY <1>3, DeletesFacts
<1>6. /\ I \in Seq(OpsOver(K)) /\ Len(I) = Cardinality(gs)
      /\ \A i \in 1..Cardinality(gs) : I[i].kind = "insert" /\ I[i].rows = <<SetToSeq(gs)[i]>>
  BY <1>2, InsertsFacts
<1> HIDE DEF D, I
<1>7. /\ c \in Seq(OpsOver(K)) /\ Len(c) = Len(D) + Len(I)
      /\ \A i \in 1..(Len(D) + Len(I)) : c[i] = IF i <= Len(D) THEN D[i] ELSE I[i - Len(D)]
  <2>1. D \in Seq(OpsOver(K)) /\ I \in Seq(OpsOver(K))
    BY <1>5, <1>6
  <2> QED
    BY <2>1, ConcatProperties
<1> HIDE DEF c
<1>8. /\ \A i \in 1..Len(D) : c[i] = D[i]
      /\ \A i \in 1..Len(I) : c[Len(D) + i] = I[i]
      /\ \A i \in 1..Len(c) : i \in 1..Len(D) \/ (i - Len(D) \in 1..Len(I) /\ c[i] = I[i - Len(D)])
  <2>1. Len(D) \in Nat /\ Len(I) \in Nat
    BY <1>2, <1>3, <1>5, <1>6
  <2> QED
    BY <1>7, <2>1
<1>9. ASSUME NEW r \in E PROVE Survives(r, c)
  <2>1. ASSUME NEW i \in 1..Len(c), c[i].kind # "insert"
        PROVE  i \in 1..Cardinality(gd) /\ c[i] = D[i] /\ c[i].kind = "delete"
    BY <1>5, <1>6, <1>8, <2>1
  <2>2. ASSUME NEW i \in 1..Len(c), c[i].kind = "delete", r.k \in c[i].keys
        PROVE  \E j \in (i + 1)..Len(c) : c[j].kind = "insert" /\ c[j].rows = <<r>>
    <3>1. i \in 1..Cardinality(gd) /\ c[i] = D[i]
      BY <2>1, <2>2
    <3>2. SetToSeq(gd)[i] \in gd /\ SetToSeq(gd)[i].k = r.k
      BY <1>3, <1>5, <2>2, <3>1
    <3>3. PICK m \in 1..Cardinality(gs) : SetToSeq(gs)[m] = r
      BY <1>2, <1>4, <3>2
    <3>4. I[m].kind = "insert" /\ I[m].rows = <<r>> /\ c[Len(D) + m] = I[m]
      BY <1>6, <1>8, <3>3
    <3>5. Len(D) + m \in (i + 1)..Len(c)
      BY <1>2, <1>3, <1>5, <1>6, <1>7, <3>1
    <3> QED
      BY <3>4, <3>5
  <2> QED
    BY <2>1, <2>2 DEF Survives
<1> QED
  BY <1>7, <1>9 DEF Plans, c, D, I, gs, gd

LEMMA GroupUpdated ==
  ASSUME setting \in Settings, NEW K, NEW E, NEW s, NEW d, Chunk(K, E, s, d), NEW id,
         Kind(Group(s, id), Group(d, id)) = "update"
  PROVE  << Op("update", {r.k : r \in Group(d, id)}, SetToSeq(Group(s, id))) >> \in Plans(K, E)
<1> DEFINE gs == Group(s, id)
           gd == Group(d, id)
           op == Op("update", {r.k : r \in gd}, SetToSeq(gs))
<1>1. s \subseteq Matching(Row) /\ d \subseteq Matching(Row)
  BY DEF Chunk
<1>2. Cardinality(gs) = 1 /\ gd # {}
  BY KindFacts
<1>3. /\ SetToSeq(gs) \in Seq(Matching(Row)) /\ Len(SetToSeq(gs)) = 1
      /\ \A x \in gs : SetToSeq(gs)[1] = x
  <2>1. /\ SetToSeq(gs) \in Seq(Matching(Row)) /\ Len(SetToSeq(gs)) = Cardinality(gs)
        /\ \A x \in gs : \E i \in 1..Cardinality(gs) : SetToSeq(gs)[i] = x
    BY <1>1, GroupFacts
  <2> HIDE DEF gs
  <2> QED
    BY <1>2, <2>1
<1>4. \A x \in gd : x.k \in K
  BY <1>1, GroupFacts DEF Chunk
<1>5. ASSUME NEW r \in E, NEW x \in gd, x.k = r.k PROVE r \in gs
  BY <1>5, GroupFacts, <1>1 DEF Chunk, Group
<1> HIDE DEF gs, gd
<1>6. op.kind = "update" /\ op.keys = {r.k : r \in gd} /\ op.rows = SetToSeq(gs)
  BY DEF Op
<1>7. op \in OpsOver(K)
  <2> DEFINE ks == {r.k : r \in gd}
             rs == SetToSeq(gs)
  <2>1. ks \in SUBSET K /\ ks # {} /\ rs \in Seq(Matching(Row)) /\ rs # <<>>
    BY <1>2, <1>3, <1>4
  <2> HIDE DEF ks, rs
  <2>2. Op("update", ks, rs) \in OpsOver(K)
    BY <2>1 DEF OpsOver, Op
  <2> QED
    BY <2>2 DEF ks, rs
<1>8. ASSUME NEW r \in E, r.k \in op.keys PROVE op.rows[1] = r
  BY <1>3, <1>5, <1>6, <1>8
<1> HIDE DEF op
<1>9. <<op>> \in Seq(OpsOver(K)) /\ Len(<<op>>) = 1 /\ <<op>>[1] = op
  BY <1>7
<1>10. ASSUME NEW r \in E PROVE Survives(r, <<op>>)
  <2> DEFINE c == <<op>>
  <2> HIDE DEF c
  <2>1. Len(c) = 1 /\ c[1] = op
    BY <1>9 DEF c
  <2>2. Survives(r, c)
    BY <1>6, <1>8, <2>1 DEF Survives
  <2> QED
    BY <2>2 DEF c
<1> QED
  BY <1>9, <1>10 DEF Plans, op, gs, gd

PlainOps(s, d, id) ==
  CASE Kind(Group(s, id), Group(d, id)) = "noop" -> <<>>
    [] Kind(Group(s, id), Group(d, id)) = "update" ->
         << Op("update", {r.k : r \in Group(d, id)}, SetToSeq(Group(s, id))) >>
    [] OTHER -> Deletes(Group(d, id)) \o Inserts(Group(s, id))

LEMMA PlainGroup ==
  ASSUME setting \in Settings, NEW K, NEW E, NEW s, NEW d, Chunk(K, E, s, d), NEW id
  PROVE  PlainOps(s, d, id) \in Plans(K, E)
<1>1. CASE Kind(Group(s, id), Group(d, id)) = "noop"
  BY <1>1, PlansEmpty DEF PlainOps
<1>2. CASE Kind(Group(s, id), Group(d, id)) = "update"
  BY <1>2, GroupUpdated DEF PlainOps
<1>3. CASE Kind(Group(s, id), Group(d, id)) \notin {"noop", "update"}
  <2>1. PlainOps(s, d, id) = Deletes(Group(d, id)) \o Inserts(Group(s, id))
    BY <1>3 DEF PlainOps
  <2> QED
    BY <2>1, GroupReplaced
<1> QED
  BY <1>1, <1>2, <1>3

LEMMA GroupIdsFinite ==
  ASSUME setting \in Settings, NEW rows, rows \subseteq Row
  PROVE  IsFiniteSet(GroupIds(rows)) /\ Cardinality(GroupIds(rows)) \in Nat
<1> DEFINE id(r) == KeyId[r.k]
<1>1. IsFiniteSet(rows)
  BY SettingFacts, FS_Subset
<1>2. rows = {} \/ rows # {}
  OBVIOUS
<1>3. PICK f \in Bijection(1..Cardinality(rows), rows) : Cardinality(rows) \in Nat
  BY <1>1, FS_CardinalityType DEF ExistsBijection
<1> DEFINE g == [i \in 1..Cardinality(rows) |-> KeyId[f[i].k]]
<1>4. g \in Surjection(1..Cardinality(rows), GroupIds(rows))
  <2>1. f \in [1..Cardinality(rows) -> rows] /\ \A r \in rows : \E i \in 1..Cardinality(rows) : f[i] = r
    BY <1>3 DEF Bijection, Surjection
  <2>2. g \in [1..Cardinality(rows) -> GroupIds(rows)]
    BY <2>1 DEF GroupIds
  <2>3. \A x \in GroupIds(rows) : \E i \in 1..Cardinality(rows) : g[i] = x
    BY <2>1 DEF GroupIds
  <2> QED
    BY <2>2, <2>3 DEF Surjection
<1>5. IsFiniteSet(GroupIds(rows))
  BY <1>3, <1>4, FS_NatSurjection DEF ExistsSurjection
<1> QED
  BY <1>5, FS_CardinalityType

HotDeletes(s, d, id) ==
  CASE Kind(Group(s, id), Group(d, id)) = "noop" ->
         IF Rewritten(s, d, id)
         THEN << Op("rewrite", {r.k : r \in Group(d, id)}, SetToSeq(Group(s, id))) >>
         ELSE <<>>
    [] OTHER -> Deletes(Group(d, id))

HotInserts(s, d, id) == IF Writes(s, d, id) THEN Inserts(Group(s, id)) ELSE <<>>

LEMMA HotGroup ==
  ASSUME setting \in Settings, NEW K, NEW s, NEW d, Chunk(K, {}, s, d), NEW id
  PROVE  HotDeletes(s, d, id) \in Plans(K, {}) /\ HotInserts(s, d, id) \in Plans(K, {})
<1>1. s \subseteq Matching(Row) /\ d \subseteq Matching(Row)
  BY DEF Chunk
<1>2. /\ Cardinality(Group(s, id)) \in Nat /\ SetToSeq(Group(s, id)) \in Seq(Matching(Row))
      /\ Len(SetToSeq(Group(s, id))) = Cardinality(Group(s, id))
      /\ \A i \in 1..Cardinality(Group(s, id)) : SetToSeq(Group(s, id))[i] \in Matching(Row)
  BY <1>1, GroupFacts
<1>3. /\ Cardinality(Group(d, id)) \in Nat /\ Group(d, id) \subseteq d
      /\ \A i \in 1..Cardinality(Group(d, id)) : SetToSeq(Group(d, id))[i] \in Group(d, id)
  BY <1>1, GroupFacts
<1>4. \A x \in Group(d, id) : x.k \in K
  BY <1>3 DEF Chunk
<1>5. Plans(K, {}) = Seq(OpsOver(K))
  BY DEF Plans
<1>6. Deletes(Group(d, id)) \in Seq(OpsOver(K))
  BY <1>3, <1>4, DeletesFacts
<1>7. Inserts(Group(s, id)) \in Seq(OpsOver(K))
  BY <1>2, InsertsFacts
<1>8. << Op("rewrite", {r.k : r \in Group(d, id)}, SetToSeq(Group(s, id))) >> \in Seq(OpsOver(K))
  <2> DEFINE ks == {r.k : r \in Group(d, id)}
             rs == SetToSeq(Group(s, id))
  <2>1. ks \in SUBSET K /\ rs \in Seq(Matching(Row))
    BY <1>2, <1>4
  <2> HIDE DEF ks, rs
  <2>2. Op("rewrite", ks, rs) \in OpsOver(K)
    BY <2>1 DEF OpsOver, Op
  <2>3. << Op("rewrite", ks, rs) >> \in Seq(OpsOver(K))
    BY <2>2
  <2> QED
    BY <2>3 DEF ks, rs
<1>9. <<>> \in Seq(OpsOver(K))
  OBVIOUS
<1> HIDE DEF Group
<1>10. HotDeletes(s, d, id) \in Seq(OpsOver(K))
  <2>1. CASE Kind(Group(s, id), Group(d, id)) = "noop"
    BY <1>8, <1>9, <2>1 DEF HotDeletes
  <2>2. CASE Kind(Group(s, id), Group(d, id)) # "noop"
    BY <1>6, <2>2 DEF HotDeletes
  <2> QED
    BY <2>1, <2>2
<1>11. HotInserts(s, d, id) \in Seq(OpsOver(K))
  BY <1>7, <1>9 DEF HotInserts
<1> QED
  BY <1>5, <1>10, <1>11

LEMMA DiffOps ==
  ASSUME setting \in Settings, NEW K, NEW E, NEW s, NEW d, Chunk(K, E, s, d)
  PROVE  /\ Diff(s, d) \in Seq(OpsOver(K))
         /\ ~Hot(s, d) => Diff(s, d) \in Plans(K, E)
<1> DEFINE ids == GroupIds(s \cup d)
           n   == Cardinality(ids)
<1>1. n \in Nat
  <2>1. s \cup d \subseteq Row
    BY DEF Chunk, Matching
  <2> QED
    BY <2>1, GroupIdsFinite
<1>2. DiffPlain(s, d) \in Plans(K, E)
  <2> DEFINE seqs == [i \in 1..n |-> PlainOps(s, d, InOrder(ids)[i])]
  <2>1. DiffPlain(s, d) = FlattenSeq(seqs)
    BY DEF DiffPlain, ForEachId, PlainOps
  <2> HIDE DEF ids, n
  <2>2. seqs \in [1..n -> Plans(K, E)]
    BY PlainGroup
  <2> HIDE DEF seqs
  <2> QED
    BY <1>1, <2>1, <2>2, PlansFlat
<1>3. DiffHot(s, d) \in Plans(K, {})
  <2> DEFINE dels == [i \in 1..n |-> HotDeletes(s, d, InOrder(ids)[i])]
             ins  == [i \in 1..n |-> HotInserts(s, d, InOrder(ids)[i])]
  <2>1. DiffHot(s, d) = FlattenSeq(dels) \o FlattenSeq(ins)
    BY DEF DiffHot, ForEachId, HotDeletes, HotInserts
  <2> HIDE DEF ids, n
  <2>2. Chunk(K, {}, s, d)
    BY DEF Chunk
  <2>3. dels \in [1..n -> Plans(K, {})] /\ ins \in [1..n -> Plans(K, {})]
    BY <2>2, HotGroup
  <2> HIDE DEF dels, ins
  <2>4. FlattenSeq(dels) \in Plans(K, {}) /\ FlattenSeq(ins) \in Plans(K, {})
    BY <1>1, <2>3, PlansFlat
  <2> QED
    BY <2>1, <2>4, PlansConcat
<1>4. Diff(s, d) = IF Hot(s, d) THEN DiffHot(s, d) ELSE DiffPlain(s, d)
  BY DEF Diff
<1> QED
  BY <1>2, <1>3, <1>4 DEF Plans

-----------------------------------------------------------------------------
(***************************************************************************)
(* A row that survives the ops is there after the transaction, unless it   *)
(* is rejected.  On the way it is in the table, with no delete pending, or *)
(* in the batched insert, or its insert is still to come.                  *)
(***************************************************************************)
InPlace(r, t) == t.dup \/ (r \in t.rows /\ r.k \notin t.dels) \/ r \in ToSet(t.pend)

LEMMA FlushDeletesKeeps ==
  ASSUME NEW K, NEW t \in TxType(K), NEW r, InPlace(r, t)
  PROVE  InPlace(r, FlushDeletes(t))
<1> DEFINE rest == {x \in t.rows : x.k \notin t.dels}
<1>1. FlushDeletes(t) = [rows |-> rest, dels |-> {}, pend |-> t.pend, dup |-> t.dup]
  BY FlushDeletesIs
<1>2. r \in t.rows /\ r.k \notin t.dels => r \in rest
  OBVIOUS
<1> HIDE DEF rest
<1> QED
  BY <1>1, <1>2 DEF InPlace

LEMMA FlushKeeps ==
  ASSUME NEW K, NEW t \in TxType(K), NEW r, InPlace(r, t), t.dels = {}
  PROVE  InPlace(r, Flush(t)) /\ (Flush(t).dup \/ r \in Flush(t).rows)
<1> DEFINE new == IF FlushBad(t) THEN t.rows ELSE t.rows \cup ToSet(t.pend)
<1>1. Flush(t) = [rows |-> new, dels |-> t.dels, pend |-> <<>>, dup |-> t.dup \/ FlushBad(t)]
  BY FlushIs
<1>2. t.dup \/ FlushBad(t) \/ r \in new
  BY DEF InPlace
<1> HIDE DEF new
<1>3. Flush(t).rows = new /\ Flush(t).dels = {}
  BY <1>1
<1>4. Flush(t).dup = (t.dup \/ FlushBad(t))
  BY <1>1
<1>5. t.dup \/ FlushBad(t) => Flush(t).dup
  BY <1>4, Zenon
<1> QED
  BY <1>2, <1>3, <1>5 DEF InPlace

LEMMA AddInsertKeeps ==
  ASSUME NEW K, NEW stay, NEW t, TxOK(t, K, stay), t.dels = {}, NEW row \in Matching(Row)
  PROVE  /\ InPlace(row, AddInsert(t, row))
         /\ \A r : InPlace(r, t) => InPlace(r, AddInsert(t, row))
<1> DEFINE room == IF Len(t.pend) >= Batch THEN Flush(t) ELSE t
<1>1. TxOK(room, K, stay) /\ room.dels = {}
  BY FlushOK
<1>2. \A r : InPlace(r, t) => InPlace(r, room)
  BY FlushKeeps DEF TxOK
<1> HIDE DEF room
<1>3. AddInsert(t, row) = [rows |-> room.rows, dels |-> room.dels,
                           pend |-> Append(room.pend, row), dup |-> room.dup]
  BY <1>1, AddInsertIs DEF TxOK, room
<1>4. row \in ToSet(Append(room.pend, row)) /\ ToSet(room.pend) \subseteq ToSet(Append(room.pend, row))
  <2>1. room.pend \in Seq(Matching(Row))
    BY <1>1 DEF TxOK, TxType
  <2> DEFINE a == Append(room.pend, row)
  <2>2. /\ DOMAIN a = 1..(Len(room.pend) + 1) /\ DOMAIN room.pend = 1..Len(room.pend)
        /\ a[Len(room.pend) + 1] = row /\ \A i \in 1..Len(room.pend) : a[i] = room.pend[i]
        /\ Len(room.pend) \in Nat
    BY <2>1
  <2> HIDE DEF a
  <2>3. row \in ToSet(a) /\ ToSet(room.pend) \subseteq ToSet(a)
    BY <2>2 DEF ToSet
  <2> QED
    BY <2>3 DEF a
<1> QED
  BY <1>1, <1>2, <1>3, <1>4 DEF InPlace

LEMMA UpdateKeeps ==
  ASSUME NEW K, NEW stay, NEW t, TxOK(t, K, stay), NEW key, NEW row,
         NEW r \in Row, InPlace(r, t), r.k = key => row = r
  PROVE  InPlace(r, UpdateRow(t, key, row))
<1> DEFINE bad == UpdateBad(t.rows, key, row)
           new == IF bad THEN t.rows
                  ELSE (t.rows \ AtKey(t.rows, key)) \cup Updated(t.rows, key, row)
<1>1. UpdateRow(t, key, row) =
        [rows |-> new, dels |-> t.dels, pend |-> t.pend, dup |-> t.dup \/ bad]
  BY UpdateIs DEF TxOK
<1>2. r \in t.rows => bad \/ r \in new
  <2>1. CASE r.k = key
    <3>1. [r EXCEPT !.k = r.k] = r
      BY DEF Row
    <3>2. r \in t.rows => r \in Updated(t.rows, key, row)
      BY <2>1, <3>1 DEF Updated, AtKey
    <3> QED
      BY <3>2
  <2>2. CASE r.k # key
    BY <2>2 DEF AtKey
  <2> QED
    BY <2>1, <2>2
<1> HIDE DEF new, bad
<1> DEFINE u == UpdateRow(t, key, row)
<1> HIDE DEF u
<1>3. u.rows = new /\ u.dels = t.dels /\ u.pend = t.pend
  BY <1>1 DEF u
<1>4. u.dup = (t.dup \/ bad)
  BY <1>1 DEF u
<1>5. t.dup \/ bad => u.dup
  BY <1>4, Zenon
<1>6. InPlace(r, u)
  BY <1>2, <1>3, <1>5 DEF InPlace
<1> QED
  BY <1>6 DEF u

Comes(r, ops, m) == \E j \in (m + 1)..Len(ops) : ops[j].kind = "insert" /\ ops[j].rows = <<r>>

LEMMA RunOpKeeps ==
  ASSUME NEW K, NEW stay, Apart(K, stay), NEW t, TxOK(t, K, stay),
         NEW ops \in Seq(OpsOver(K)), NEW m \in 0..(Len(ops) - 1),
         NEW r \in Row, Survives(r, ops), Comes(r, ops, m) \/ InPlace(r, t)
  PROVE  Comes(r, ops, m + 1) \/ InPlace(r, RunOp(t, ops[m + 1]))
<1> SUFFICES ASSUME ~Comes(r, ops, m + 1)
             PROVE  InPlace(r, RunOp(t, ops[m + 1]))
  OBVIOUS
<1> DEFINE op == ops[m + 1]
<1>1. Len(ops) \in Nat /\ m + 1 \in 1..Len(ops) /\ op \in OpsOver(K)
  OBVIOUS
<1>2. /\ op.kind # "rewrite"
      /\ op.kind = "delete" => r.k \notin op.keys
      /\ op.kind = "update" /\ r.k \in op.keys => op.rows[1] = r
  BY <1>1 DEF Survives, Comes
<1>3. (op.kind = "insert" /\ op.rows = <<r>>) \/ InPlace(r, t)
  <2>1. CASE InPlace(r, t)
    BY <2>1
  <2>2. CASE Comes(r, ops, m)
    <3>1. PICK j \in (m + 1)..Len(ops) : ops[j].kind = "insert" /\ ops[j].rows = <<r>>
      BY <2>2 DEF Comes
    <3>2. j = m + 1 \/ j \in ((m + 1) + 1)..Len(ops)
      BY <1>1, <3>1
    <3> QED
      BY <3>1, <3>2 DEF Comes
  <2> QED
    BY <2>1, <2>2
<1> HIDE DEF op
<1>4. TxOK(FlushDeletes(t), K, stay) /\ FlushDeletes(t).dels = {}
  BY FlushDeletesOK
<1>5. InPlace(r, t) => InPlace(r, FlushDeletes(t))
  BY FlushDeletesKeeps DEF TxOK
<1>6. InPlace(r, RunOp(t, op))
  <2>1. CASE op.kind = "delete"
    <3>1. RunOp(t, op) = [t EXCEPT !.dels = t.dels \cup op.keys]
      BY <1>1, <2>1, RunOpCases
    <3>2. RunOp(t, op) = [rows |-> t.rows, dels |-> t.dels \cup op.keys, pend |-> t.pend, dup |-> t.dup]
      BY <3>1, SetDels DEF TxOK
    <3> QED
      BY <1>2, <1>3, <2>1, <3>2 DEF InPlace
  <2>2. CASE op.kind = "insert"
    <3>1. RunOp(t, op) = AddInsert(FlushDeletes(t), op.rows[1]) /\ op.rows[1] \in Matching(Row)
      BY <1>1, <2>2, RunOpCases
    <3>2. CASE op.rows = <<r>>
      BY <1>4, <3>1, <3>2, AddInsertKeeps
    <3>3. CASE InPlace(r, t)
      BY <1>4, <1>5, <3>1, <3>3, AddInsertKeeps
    <3> QED
      BY <1>3, <3>2, <3>3
  <2>3. CASE op.kind = "update"
    <3> DEFINE key == CHOOSE k \in op.keys : TRUE
    <3>1. RunOp(t, op) = UpdateRow(FlushDeletes(t), key, op.rows[1]) /\ key \in op.keys
      BY <1>1, <2>3, RunOpCases
    <3> HIDE DEF key
    <3>2. InPlace(r, FlushDeletes(t)) /\ (r.k = key => op.rows[1] = r)
      BY <1>2, <1>3, <1>5, <2>3, <3>1
    <3> QED
      BY <1>4, <3>1, <3>2, UpdateKeeps
  <2> QED
    BY <1>1, <1>2, <2>1, <2>2, <2>3, RunOpCases
<1> QED
  BY <1>6 DEF op

LEMMA RunOpsKeep ==
  ASSUME NEW K, NEW stay, Apart(K, stay), NEW rows, TableOK(rows, stay), NEW E,
         NEW ops \in Plans(K, E), NEW r \in Row, r \in E, r \in rows
  PROVE  RunOps(rows, ops).dup \/ r \in RunOps(rows, ops).rows
<1>1. ops \in Seq(OpsOver(K)) /\ Survives(r, ops) /\ Len(ops) \in Nat
  BY DEF Plans
<1>2. PICK g : /\ g[0] = Begin(rows) /\ FoldOfOps(Begin(rows), ops) = g[Len(ops)]
               /\ \A i \in 1..Len(ops) : g[i] = RunOp(g[i - 1], ops[i])
  <2>1. ops \in Seq(OpsOver(K))
    BY <1>1
  <2> QED
    BY <2>1, FoldOps
<1> DEFINE Good == {i \in 0..Len(ops) : TxOK(g[i], K, stay) /\ (Comes(r, ops, i) \/ InPlace(r, g[i]))}
<1>3. 0 \in Good
  <2>1. TxOK(g[0], K, stay)
    BY <1>2, BeginIs
  <2>2. InPlace(r, g[0])
    BY <1>2 DEF InPlace, Begin
  <2> QED
    BY <1>1, <2>1, <2>2
<1>4. \A i \in 0..(Len(ops) - 1) : i \in Good => i + 1 \in Good
  <2> SUFFICES ASSUME NEW i \in 0..(Len(ops) - 1), TxOK(g[i], K, stay),
                      Comes(r, ops, i) \/ InPlace(r, g[i])
               PROVE  TxOK(g[i + 1], K, stay) /\ (Comes(r, ops, i + 1) \/ InPlace(r, g[i + 1]))
    BY <1>1
  <2>1. i + 1 \in 1..Len(ops) /\ (i + 1) - 1 = i
    BY <1>1
  <2>2. ops[i + 1] \in OpsOver(K)
    BY <1>1, <2>1
  <2>3. g[i + 1] = RunOp(g[i], ops[i + 1])
    BY <1>2, <2>1
  <2> QED
    BY <1>1, <2>2, <2>3, RunOpOK, RunOpKeeps
<1> HIDE DEF Good
<1>5. 0..Len(ops) \subseteq Good
  BY <1>1, <1>3, <1>4, UpTo
<1> DEFINE t == g[Len(ops)]
<1>6. TxOK(t, K, stay) /\ InPlace(r, t)
  BY <1>1, <1>5 DEF Good, Comes
<1> HIDE DEF t
<1>7. /\ TxOK(FlushDeletes(t), K, stay) /\ FlushDeletes(t).dels = {}
      /\ InPlace(r, FlushDeletes(t))
  BY <1>6, FlushDeletesOK, FlushDeletesKeeps DEF TxOK
<1>8. Flush(FlushDeletes(t)).dup \/ r \in Flush(FlushDeletes(t)).rows
  BY <1>7, FlushKeeps DEF TxOK
<1>9. RunOps(rows, ops) = Flush(FlushDeletes(t))
  BY <1>2 DEF RunOps, FoldOfOps, t
<1> QED
  BY <1>8, <1>9

-----------------------------------------------------------------------------
(***************************************************************************)
(* The inductive invariant: everything planned addresses keys that no row  *)
(* outside the filter has, and writes rows of the match set only.          *)
(***************************************************************************)
Unmatched == dst \ Matching(dst)

SafeKeys == {k \in Keys : \A r \in dst : r.k = k => r.p \in setting.matched}

ScanOK ==
  phase \in {"scanDestination", "check"} =>
    scan \in [src : SUBSET Matching(Row), dst : SUBSET Row, ops : Seq(OpsOver(SafeKeys))]

WorkOK ==
  /\ work \in Seq(ToSet(work))
  /\ \A i \in DOMAIN work : work[i].ops \in Seq(OpsOver(SafeKeys))

FullOK == phase \in {"truncate", "loadPlan", "load"} => ~Filtered

RowInv == TypeOK /\ ScanOK /\ WorkOK /\ keys \subseteq SafeKeys /\ FullOK

LEMMA SafeApart ==
  ASSUME TypeOK
  PROVE  Apart(SafeKeys, Unmatched) /\ TableOK(dst, Unmatched)
  BY DEF TypeOK, Apart, SafeKeys, Unmatched, Matching, TableOK, Row

\* The keys of the destination's matching rows are safe to delete: a filter
\* comes with a unique key.
LEMMA MatchingSafe ==
  ASSUME TypeOK, NEW x \in Matching(dst)
  PROVE  x.k \in SafeKeys
<1>1. x \in dst /\ x \in Row /\ x.p \in setting.matched /\ x.k \in Keys
  BY DEF TypeOK, Matching, Row
<1>2. ASSUME NEW r \in dst, r.k = x.k, r.p \notin setting.matched PROVE FALSE
  <2>1. r \in Row /\ r.p \in Payloads /\ dst \in SUBSET Row /\ Accepts(dst) /\ setting \in Settings
    BY DEF TypeOK, Row
  <2>2. KeyUnique
    BY <1>2, <2>1, SettingFacts DEF Filtered
  <2>3. r = x
    BY <1>1, <1>2, <2>1, <2>2, OneRowPerKey
  <2> QED
    BY <1>1, <1>2, <2>3
<1> QED
  BY <1>1, <1>2 DEF SafeKeys

\* Deleting by safe keys keeps what the filter does not match.
LEMMA DeletesSafe ==
  ASSUME TypeOK, NEW ks \in SUBSET SafeKeys, NEW rows,
         rows = {r \in dst : r.k \notin ks}
  PROVE  TableOK(rows, Unmatched)
<1>1. rows \in SUBSET dst
  OBVIOUS
<1>2. Accepts(rows)
  BY <1>1, SubsetAccepted DEF TypeOK
<1>3. Unmatched \subseteq rows
  BY DEF Unmatched, Matching, SafeKeys
<1> QED
  BY <1>1, <1>2, <1>3, SafeApart DEF TableOK

LEMMA UnfilteredEmpty ==
  ASSUME TypeOK, ~Filtered
  PROVE  Unmatched = {} /\ Matching(Row) = Row /\ SafeKeys = Keys
  BY DEF TypeOK, Filtered, Unmatched, Matching, SafeKeys, Row

LEMMA WorkHead ==
  ASSUME WorkOK, work # <<>>
  PROVE  /\ Head(work).ops \in Seq(OpsOver(SafeKeys)) /\ 1 \in DOMAIN work /\ Head(work) = work[1]
         /\ Tail(work) \in Seq(ToSet(Tail(work)))
         /\ \A i \in DOMAIN Tail(work) : i + 1 \in DOMAIN work /\ Tail(work)[i] = work[i + 1]
<1>1. work \in Seq(ToSet(work)) /\ Len(work) \in Nat \ {0} /\ DOMAIN work = 1..Len(work)
  BY DEF WorkOK
<1>2. Head(work) = work[1] /\ 1 \in DOMAIN work
  BY <1>1
<1>3. /\ Tail(work) \in Seq(ToSet(work)) /\ Len(Tail(work)) = Len(work) - 1
      /\ \A i \in 1..Len(Tail(work)) : Tail(work)[i] = work[i + 1]
  BY <1>1, HeadTailProperties
<1>4. DOMAIN Tail(work) = 1..(Len(work) - 1)
  BY <1>1, <1>3
<1>5. Tail(work) \in Seq(ToSet(Tail(work)))
  <2> DEFINE t == Tail(work)
  <2>1. t \in Seq(ToSet(work))
    BY <1>3
  <2> HIDE DEF t
  <2>2. t \in Seq(ToSet(t))
    BY <2>1 DEF ToSet
  <2> QED
    BY <2>2 DEF t
<1> QED
  BY <1>1, <1>2, <1>3, <1>4, <1>5 DEF WorkOK

-----------------------------------------------------------------------------
(***************************************************************************)
(* Every step leaves a table the index accepts, in which the rows outside  *)
(* the filter are the same.                                                *)
(***************************************************************************)
LEMMA OutOfRangeStep ==
  ASSUME RowInv, DeleteOutOfRange
  PROVE  TableOK(dst', Unmatched)
<1> DEFINE rows == {r \in dst : \A s \in Page : r.k # s.k}
<1>1. dst' \in {dst, rows}
  BY DEF DeleteOutOfRange, Transaction
<1>2. Page \subseteq Matching(dst)
  BY DEF Page, Matching, Tail1
<1>3. TableOK(rows, Unmatched)
  <2> DEFINE ks == {s.k : s \in Page}
  <2>1. ks \in SUBSET SafeKeys
    BY <1>2, MatchingSafe DEF RowInv
  <2>2. rows = {r \in dst : r.k \notin ks}
    OBVIOUS
  <2> HIDE DEF ks, rows
  <2> QED
    BY <2>1, <2>2, DeletesSafe DEF RowInv
<1> QED
  BY <1>1, <1>3, SafeApart DEF RowInv

LEMMA GroupStep ==
  ASSUME RowInv, ApplyGroup
  PROVE  TableOK(dst', Unmatched)
<1> DEFINE rows == RunOps(dst, Head(work).ops).rows
<1>1. dst' \in {dst, rows}
  BY DEF ApplyGroup, Transaction
<1>2. Head(work).ops \in Seq(OpsOver(SafeKeys))
  BY WorkHead DEF RowInv, ApplyGroup
<1>3. TableOK(rows, Unmatched)
  BY <1>2, SafeApart, RunOpsOK DEF RowInv
<1> QED
  BY <1>1, <1>3, SafeApart DEF RowInv

LEMMA StreamStep ==
  ASSUME RowInv, StreamDeletes
  PROVE  TableOK(dst', Unmatched)
<1> DEFINE batch == {k \in keys : Cardinality({l \in keys : EarlierKey(l, k)}) < DeleteCap}
           rows  == {r \in dst : r.k \notin batch}
<1>1. dst' \in {dst, rows}
  BY DEF StreamDeletes, Transaction
<1>2. batch \in SUBSET SafeKeys
  BY DEF RowInv
<1> HIDE DEF batch
<1>3. TableOK(rows, Unmatched)
  BY <1>2, DeletesSafe DEF RowInv
<1> QED
  BY <1>1, <1>3, SafeApart DEF RowInv

LEMMA LoadStep ==
  ASSUME RowInv, StreamChunk
  PROVE  TableOK(dst', Unmatched)
<1> DEFINE pend == SetToSeq(InChunk(src, Head(todo)))
           t    == [Begin(dst) EXCEPT !.pend = pend]
<1>1. dst' \in {dst, Flush(t).rows}
  BY DEF StreamChunk, Transaction
<1>2. ~Filtered /\ TypeOK
  BY DEF RowInv, FullOK, StreamChunk
<1>3. pend \in Seq(Matching(Row))
  <2>1. InChunk(src, Head(todo)) \subseteq Row
    BY <1>2 DEF InChunk, TypeOK
  <2>2. IsFiniteSet(InChunk(src, Head(todo)))
    BY <1>2, <2>1, SettingFacts, FS_Subset DEF TypeOK
  <2>3. pend \in Seq(InChunk(src, Head(todo)))
    BY <2>2, SetAsSeq
  <2> QED
    BY <1>2, <2>1, <2>3, UnfilteredEmpty, SeqMonotonic
<1> HIDE DEF pend
<1>4. t = [rows |-> dst, dels |-> {}, pend |-> pend, dup |-> FALSE]
  <2>1. t \in [rows : {dst}, dels : {{}}, pend : {pend}, dup : {FALSE}]
    BY DEF Begin
  <2> HIDE DEF t
  <2> QED
    BY <2>1
<1>5. TxOK(t, SafeKeys, Unmatched)
  BY <1>2, <1>3, <1>4, SafeApart DEF TxOK, TxType, TableOK
<1> HIDE DEF t
<1>6. TableOK(Flush(t).rows, Unmatched)
  BY <1>5, FlushOK DEF TxOK
<1> QED
  BY <1>1, <1>2, <1>6, SafeApart

LEMMA TruncateStep ==
  ASSUME RowInv, Truncate
  PROVE  TableOK(dst', Unmatched)
<1>1. ~Filtered /\ TypeOK /\ dst' = {}
  BY DEF RowInv, FullOK, Truncate
<1>2. Unmatched = {}
  BY <1>1, UnfilteredEmpty
<1> QED
  BY <1>1, <1>2 DEF TableOK, Accepts

\* The steps that leave the destination alone.
Reads == \/ Compare \/ Plan \/ ReadExtremes \/ ScanSource \/ ScanDestination \/ CheckHolders
         \/ StartApply \/ FinishApply \/ PlanStreamDeletes \/ PlanLoad \/ FinishLoad \/ Verify
         \/ Rerun \/ Move \/ UNCHANGED vars

LEMMA ReadStep ==
  ASSUME Reads
  PROVE  dst' = dst /\ setting' = setting
  BY DEF Reads, Compare, Plan, ReadExtremes, ScanSource, ScanDestination, CheckHolders, StartApply,
     FinishApply, PlanStreamDeletes, PlanLoad, FinishLoad, Verify, Rerun, Move, vars

LEMMA TableStep ==
  ASSUME RowInv, [Next]_vars
  PROVE  setting' = setting /\ TableOK(dst', Unmatched)
<1>1. CASE Reads
  BY <1>1, ReadStep, SafeApart DEF RowInv
<1>2. CASE DeleteOutOfRange
  BY <1>2, OutOfRangeStep DEF DeleteOutOfRange
<1>3. CASE ApplyGroup
  BY <1>3, GroupStep DEF ApplyGroup
<1>4. CASE StreamDeletes
  BY <1>4, StreamStep DEF StreamDeletes
<1>5. CASE Truncate
  BY <1>5, TruncateStep DEF Truncate
<1>6. CASE StreamChunk
  BY <1>6, LoadStep DEF StreamChunk
<1> QED
  BY <1>1, <1>2, <1>3, <1>4, <1>5, <1>6 DEF Next, Step, Reads


-----------------------------------------------------------------------------
(***************************************************************************)
(* The invariant holds: what is planned keeps addressing safe keys.        *)
(***************************************************************************)
LEMMA SameSetting ==
  ASSUME setting' = setting
  PROVE  /\ Row' = Row /\ Keys' = Keys /\ Matching(Row)' = Matching(Row)
         /\ MaxMoves' = MaxMoves /\ MaxFailures' = MaxFailures /\ Filtered' = Filtered
         /\ Accepts(dst)' <=> Accepts(dst')
         /\ SrcAccepts(src)' <=> SrcAccepts(src')
  BY DEF Row, Keys, Uniques, Payloads, Matching, MaxMoves, MaxFailures, Filtered, Accepts,
     SrcAccepts, SrcUnique, Distinct, KeyUnique, Constraints, Clash, Holds, IndexKey, Fold

LEMMA SameSafeKeys ==
  ASSUME RowInv, setting' = setting, TableOK(dst', Unmatched)
  PROVE  /\ dst' \subseteq Row /\ Accepts(dst') /\ Unmatched \subseteq dst'
         /\ SafeKeys' = SafeKeys /\ OpsOver(SafeKeys)' = OpsOver(SafeKeys)
<1>1. /\ dst' \subseteq Row /\ Accepts(dst') /\ Unmatched \subseteq dst'
      /\ dst' \ Unmatched \subseteq Matching(Row)
  BY DEF TableOK
<1>2. /\ \A r \in dst : r.p \notin setting.matched => r \in dst'
      /\ \A r \in dst' : r.p \notin setting.matched => r \in dst
  BY <1>1 DEF Unmatched, Matching
<1>3. SafeKeys' = SafeKeys
  BY <1>2, SameSetting DEF SafeKeys
<1>4. OpsOver(SafeKeys)' = OpsOver(SafeKeys)
  BY <1>3, SameSetting DEF OpsOver
<1> QED
  BY <1>1, <1>3, <1>4

LEMMA TypeStep ==
  ASSUME RowInv, [Next]_vars
  PROVE  /\ phase' \in Phases /\ duplicate' \in BOOLEAN
         /\ src' \subseteq Row /\ SrcAccepts(src')
         /\ moves' \in 0..MaxMoves /\ failures' \in 0..MaxFailures
<1>0. /\ phase \in Phases /\ duplicate \in BOOLEAN /\ src \subseteq Row /\ SrcAccepts(src)
      /\ moves \in 0..MaxMoves /\ failures \in 0..MaxFailures
      /\ MaxMoves \in Nat /\ MaxFailures \in Nat
  BY SettingFacts DEF RowInv, TypeOK
<1> USE <1>0 DEF Phases
<1>1. CASE Compare
  BY <1>1 DEF Compare
<1>2. CASE Plan
  BY <1>2 DEF Plan, Escalate
<1>3. CASE ReadExtremes
  BY <1>3 DEF ReadExtremes
<1>4. CASE ScanSource
  BY <1>4 DEF ScanSource
<1>5. CASE ScanDestination
  BY <1>5 DEF ScanDestination
<1>6. CASE CheckHolders
  BY <1>6 DEF CheckHolders, Escalate
<1>7. CASE StartApply
  BY <1>7 DEF StartApply
<1>8. CASE DeleteOutOfRange
  BY <1>8 DEF DeleteOutOfRange, Transaction
<1>9. CASE ApplyGroup
  <2>1. /\ phase' = phase \/ phase' = "failed"
        /\ duplicate' = duplicate \/ duplicate' = TRUE
        /\ failures' = failures \/ (failures < MaxFailures /\ failures' = failures + 1)
        /\ UNCHANGED <<src, moves>>
    BY <1>9, Zenon DEF ApplyGroup, Transaction
  <2>2. duplicate' \in BOOLEAN
    <3>1. duplicate \in BOOLEAN
      BY <1>0
    <3>2. duplicate' = duplicate \/ duplicate' = TRUE
      BY <2>1
    <3> QED
      BY <3>1, <3>2, Zenon
  <2>3. failures' \in 0..MaxFailures /\ phase' \in Phases
    BY <2>1
  <2> QED
    BY <2>1, <2>2, <2>3
<1>10. CASE FinishApply
  BY <1>10 DEF FinishApply
<1>11. CASE PlanStreamDeletes
  BY <1>11 DEF PlanStreamDeletes
<1>12. CASE StreamDeletes
  BY <1>12 DEF StreamDeletes, Transaction
<1>13. CASE Truncate
  BY <1>13 DEF Truncate
<1>14. CASE PlanLoad
  BY <1>14 DEF PlanLoad
<1>15. CASE StreamChunk
  <2>1. /\ phase' = phase \/ phase' = "failed"
        /\ duplicate' = duplicate \/ duplicate' = TRUE
        /\ failures' = failures \/ (failures < MaxFailures /\ failures' = failures + 1)
        /\ UNCHANGED <<src, moves>>
    BY <1>15, Zenon DEF StreamChunk, Transaction
  <2>2. duplicate' \in BOOLEAN
    <3>1. duplicate \in BOOLEAN
      BY <1>0
    <3>2. duplicate' = duplicate \/ duplicate' = TRUE
      BY <2>1
    <3> QED
      BY <3>1, <3>2, Zenon
  <2>3. failures' \in 0..MaxFailures /\ phase' \in Phases
    BY <2>1
  <2> QED
    BY <2>1, <2>2, <2>3
<1>16. CASE FinishLoad
  BY <1>16 DEF FinishLoad
<1>17. CASE Verify
  BY <1>17 DEF Verify
<1>18. CASE Rerun
  BY <1>18 DEF Rerun
<1>19. CASE Move
  <2>1. src' \subseteq Row /\ SrcAccepts(src')
    BY <1>19 DEF Move
  <2>2. moves' = moves + 1 /\ moves < MaxMoves /\ UNCHANGED <<phase, duplicate, failures>>
    BY <1>19 DEF Move
  <2> QED
    BY <2>1, <2>2
<1>20. CASE UNCHANGED vars
  BY <1>20 DEF vars
<1> QED
  BY <1>1, <1>2, <1>3, <1>4, <1>5, <1>6, <1>7, <1>8, <1>9, <1>10, <1>11, <1>12, <1>13, <1>14,
     <1>15, <1>16, <1>17, <1>18, <1>19, <1>20 DEF Next, Step

\* The chunk being planned, read from both sides one after the other.
LEMMA ScanStep ==
  ASSUME RowInv, [Next]_vars, phase' \in {"scanDestination", "check"}
  PROVE  scan' \in [src : SUBSET Matching(Row), dst : SUBSET Row, ops : Seq(OpsOver(SafeKeys))]
<1>0. TypeOK /\ setting \in Settings /\ src \subseteq Row /\ dst \subseteq Row
  BY DEF RowInv, TypeOK
<1>1. CASE ScanSource
  <2>1. scan' = [src |-> InChunk(Matching(src), Head(todo)), dst |-> {}, ops |-> <<>>]
    BY <1>1 DEF ScanSource
  <2>2. InChunk(Matching(src), Head(todo)) \subseteq Matching(Row)
    BY <1>0 DEF InChunk, Matching
  <2> QED
    BY <2>1, <2>2
<1>2. CASE ScanDestination
  <2> DEFINE d == InChunk(Matching(dst), Head(todo))
             s == scan.src
  <2>1. scan' = [scan EXCEPT !.dst = d, !.ops = Diff(s, d)]
    BY <1>2 DEF ScanDestination
  <2>2. scan \in [src : SUBSET Matching(Row), dst : SUBSET Row, ops : Seq(OpsOver(SafeKeys))]
    BY <1>2 DEF RowInv, ScanOK, ScanDestination
  <2>3. d \subseteq Matching(dst) /\ d \subseteq Matching(Row) /\ d \subseteq Row
    BY <1>0 DEF InChunk, Matching
  <2>4. Chunk(SafeKeys, {}, s, d)
    BY <1>0, <2>2, <2>3, MatchingSafe DEF Chunk, SafeKeys
  <2>5. Diff(s, d) \in Seq(OpsOver(SafeKeys))
    BY <1>0, <2>4, DiffOps
  <2> HIDE DEF d
  <2> QED
    BY <2>1, <2>2, <2>3, <2>5
<1>3. CASE ~ScanSource /\ ~ScanDestination
  <2>1. scan' = scan /\ phase' = phase
    BY <1>3 DEF Next, Step, Compare, Plan, Escalate, ReadExtremes, CheckHolders, StartApply,
       DeleteOutOfRange, ApplyGroup, FinishApply, PlanStreamDeletes, StreamDeletes, Truncate,
       PlanLoad, StreamChunk, FinishLoad, Verify, Rerun, Move, Transaction, vars, planVars
  <2> QED
    BY <2>1 DEF RowInv, ScanOK
<1> QED
  BY <1>1, <1>2, <1>3


Planned(w, P) == w \in Seq(ToSet(w)) /\ \A i \in DOMAIN w : w[i].ops \in P

\* The planned ops are those of the chunks that passed the holder check.
LEMMA WorkStep ==
  ASSUME RowInv, [Next]_vars, NEW P, Planned(work, P), phase = "check" => scan.ops \in P
  PROVE  Planned(work', P)
<1>1. CASE CheckHolders
  <2> DEFINE unit == [ch |-> Head(todo), rows |-> scan.src, ops |-> scan.ops]
  <2>1. work' \in {work, Append(work, unit)}
    BY <1>1 DEF CheckHolders
  <2>2. unit.ops \in P
    BY <1>1 DEF CheckHolders
  <2> HIDE DEF unit
  <2>3. Planned(Append(work, unit), P)
    <3> DEFINE a == Append(work, unit)
               n == Len(work)
    <3>1. work \in Seq(ToSet(work)) /\ n \in Nat
      BY DEF Planned
    <3>2. /\ a \in Seq(ToSet(work) \cup {unit}) /\ Len(a) = n + 1 /\ DOMAIN a = 1..(n + 1)
          /\ a[n + 1] = unit /\ \A i \in 1..n : a[i] = work[i]
      <4>1. work \in Seq(ToSet(work) \cup {unit})
        BY <3>1, SeqMonotonic
      <4> QED
        BY <4>1, AppendProperties
    <3> HIDE DEF a
    <3>3. a \in Seq(ToSet(a))
      BY <3>2 DEF ToSet
    <3>4. \A i \in DOMAIN a : a[i].ops \in P
      BY <2>2, <3>1, <3>2 DEF Planned
    <3>5. Planned(a, P)
      BY <3>3, <3>4 DEF Planned
    <3> QED
      BY <3>5 DEF a
  <2> QED
    BY <2>1, <2>3
<1>2. CASE ApplyGroup
  <2>1. work' \in {work, Tail(work)} /\ work # <<>>
    BY <1>2 DEF ApplyGroup, Transaction
  <2>2. Planned(Tail(work), P)
    BY <2>1, WorkHead DEF RowInv, Planned
  <2> QED
    BY <2>1, <2>2
<1>3. CASE Plan \/ Rerun
  <2>1. work' = <<>>
    BY <1>3 DEF Plan, Rerun
  <2>2. Planned(<<>>, P)
    BY DEF Planned, ToSet
  <2> QED
    BY <2>1, <2>2
<1>4. CASE ~CheckHolders /\ ~ApplyGroup /\ ~Plan /\ ~Rerun
  <2>1. work' = work
    BY <1>4 DEF Next, Step, Compare, ReadExtremes, ScanSource, ScanDestination, StartApply,
       DeleteOutOfRange, FinishApply, PlanStreamDeletes, StreamDeletes, Truncate,
       PlanLoad, StreamChunk, FinishLoad, Verify, Move, Transaction, vars, planVars
  <2> QED
    BY <2>1
<1> QED
  BY <1>1, <1>2, <1>3, <1>4

LEMMA KeysStep ==
  ASSUME RowInv, [Next]_vars
  PROVE  keys' \subseteq SafeKeys
<1>0. TypeOK /\ keys \subseteq SafeKeys
  BY DEF RowInv
<1>1. CASE StreamDeletes
  <2> DEFINE ks == {r.k : r \in InChunk(Matching(dst), Head(todo))}
  <2>1. ks \subseteq SafeKeys
    BY <1>0, MatchingSafe DEF InChunk
  <2>2. keys' \subseteq keys \/ keys' = ks
    BY <1>1 DEF StreamDeletes, Transaction
  <2> QED
    BY <1>0, <2>1, <2>2
<1>2. CASE Rerun
  BY <1>2 DEF Rerun
<1>3. CASE ~StreamDeletes /\ ~Rerun
  <2>1. keys' = keys
    BY <1>3 DEF Next, Step, Compare, Plan, ReadExtremes, ScanSource, ScanDestination,
       CheckHolders, StartApply, DeleteOutOfRange, ApplyGroup, FinishApply, PlanStreamDeletes,
       Truncate, PlanLoad, StreamChunk, FinishLoad, Verify, Move, Transaction, vars, planVars
  <2> QED
    BY <1>0, <2>1
<1> QED
  BY <1>1, <1>2, <1>3

\* The full resync is entered by Escalate only, never under a filter.
FullPhases == {"truncate", "loadPlan", "load"}

LEMMA FullStep ==
  ASSUME RowInv, [Next]_vars, phase' \in FullPhases
  PROVE  ~Filtered
<1>0. phase \in FullPhases => ~Filtered
  BY DEF RowInv, FullOK, FullPhases
<1> USE DEF FullPhases
<1>1. CASE Compare
  BY <1>1 DEF Compare
<1>2. CASE Plan
  BY <1>2 DEF Plan, Escalate
<1>3. CASE ReadExtremes
  BY <1>3 DEF ReadExtremes
<1>4. CASE ScanSource
  BY <1>4 DEF ScanSource
<1>5. CASE ScanDestination
  BY <1>5 DEF ScanDestination
<1>6. CASE CheckHolders
  BY <1>6 DEF CheckHolders, Escalate
<1>7. CASE StartApply
  BY <1>7 DEF StartApply
<1>8. CASE DeleteOutOfRange
  BY <1>8 DEF DeleteOutOfRange, Transaction
<1>9. CASE ApplyGroup
  BY <1>9 DEF ApplyGroup, Transaction
<1>10. CASE FinishApply
  BY <1>10 DEF FinishApply
<1>11. CASE PlanStreamDeletes
  BY <1>11 DEF PlanStreamDeletes
<1>12. CASE StreamDeletes
  BY <1>12 DEF StreamDeletes, Transaction
<1>13. CASE Truncate
  BY <1>0, <1>13 DEF Truncate
<1>14. CASE PlanLoad
  BY <1>0, <1>14 DEF PlanLoad
<1>15. CASE StreamChunk
  BY <1>0, <1>15 DEF StreamChunk, Transaction
<1>16. CASE FinishLoad \/ Verify \/ Rerun
  BY <1>16 DEF FinishLoad, Verify, Rerun
<1>17. CASE Move \/ UNCHANGED vars
  BY <1>0, <1>17 DEF Move, vars
<1> QED
  BY <1>1, <1>2, <1>3, <1>4, <1>5, <1>6, <1>7, <1>8, <1>9, <1>10, <1>11, <1>12, <1>13, <1>14,
     <1>15, <1>16, <1>17 DEF Next, Step

LEMMA RowInvHolds == Spec => []RowInv
<1>1. Init => RowInv
  <2> SUFFICES ASSUME Init PROVE RowInv
    OBVIOUS
  <2>1. /\ setting \in Settings /\ phase = "compare" /\ work = <<>> /\ keys = {}
        /\ duplicate = FALSE /\ moves = 0 /\ failures = 0
        /\ SrcAccepts(src) /\ Accepts(dst) /\ src \in TablesWithin /\ dst \in TablesWithin
    BY DEF Init
  <2>2. src \subseteq Row /\ dst \subseteq Row
    BY <2>1 DEF TablesWithin, kSubset
  <2>3. MaxMoves \in Nat /\ MaxFailures \in Nat
    BY <2>1, SettingFacts
  <2>4. TypeOK
    <3>1. moves \in 0..MaxMoves /\ failures \in 0..MaxFailures
      BY <2>1, <2>3
    <3>2. phase \in Phases /\ duplicate \in BOOLEAN
      BY <2>1 DEF Phases
    <3> QED
      BY <2>1, <2>2, <3>1, <3>2 DEF TypeOK
  <2>5. WorkOK /\ ScanOK /\ FullOK /\ keys \subseteq SafeKeys
    BY <2>1 DEF WorkOK, ScanOK, FullOK, ToSet
  <2> QED
    BY <2>4, <2>5 DEF RowInv
<1>2. RowInv /\ [Next]_vars => RowInv'
  <2> SUFFICES ASSUME RowInv, [Next]_vars PROVE RowInv'
    OBVIOUS
  <2>1. setting' = setting /\ TableOK(dst', Unmatched)
    BY TableStep
  <2>2. /\ dst' \subseteq Row /\ Accepts(dst')
        /\ SafeKeys' = SafeKeys /\ OpsOver(SafeKeys)' = OpsOver(SafeKeys)
    BY <2>1, SameSafeKeys
  <2>3. TypeOK'
    <3>1. setting' \in Settings
      BY <2>1 DEF RowInv, TypeOK
    <3>2. keys' \subseteq Keys
      BY KeysStep DEF SafeKeys
    <3> QED
      BY <2>1, <2>2, <3>1, <3>2, SameSetting, TypeStep DEF TypeOK, Phases
  <2>4. ScanOK'
    BY <2>1, <2>2, SameSetting, ScanStep DEF ScanOK
  <2>5. WorkOK'
    <3> DEFINE P == Seq(OpsOver(SafeKeys))
    <3>0. Planned(work, P) /\ (phase = "check" => scan.ops \in P)
      BY DEF RowInv, WorkOK, ScanOK, Planned
    <3> HIDE DEF P
    <3>1. work' \in Seq(ToSet(work')) /\ \A i \in DOMAIN work' : work'[i].ops \in P
      BY <3>0, WorkStep DEF Planned
    <3> QED
      BY <2>2, <3>1 DEF WorkOK, ToSet, P
  <2>6. (keys \subseteq SafeKeys)'
    BY <2>2, KeysStep
  <2>7. FullOK'
    BY <2>1, SameSetting, FullStep DEF FullOK, FullPhases
  <2> QED
    BY <2>3, <2>4, <2>5, <2>6, <2>7 DEF RowInv
<1> QED
  BY <1>1, <1>2, PTL DEF Spec

-----------------------------------------------------------------------------
(***************************************************************************)
(* The theorems.                                                           *)
(***************************************************************************)

\* TypeOK: among the rest, whatever the run does and whenever it stops, the
\* destination is a table its unique indexes accept.
THEOREM TypeCorrect == Spec => []TypeOK
<1>1. RowInv => TypeOK
  BY DEF RowInv
<1> QED
  BY <1>1, RowInvHolds, PTL

\* FilterRespected: a run with --where never deletes or changes a row that
\* the filter does not match, also not by a delete or an update addressed
\* to a key that such a row has, and however the source changes meanwhile.
THEOREM FilterCorrect == Spec => FilterRespected
<1>1. RowInv /\ [Next]_vars => [Filtered => dst \ Matching(dst) \subseteq dst']_vars
  <2> SUFFICES ASSUME RowInv, [Next]_vars PROVE dst \ Matching(dst) \subseteq dst'
    OBVIOUS
  <2> QED
    BY TableStep, SameSafeKeys DEF Unmatched
<1> QED
  BY <1>1, RowInvHolds, PTL DEF Spec, FilterRespected


-----------------------------------------------------------------------------
(***************************************************************************)
(* EqualRowsStay.  The invariant of a run without --allow-row-rewrite whose*)
(* source nobody has written to: the plan is of the source as it still is, *)
(* and the rows of its match set survive every planned chunk.              *)
(***************************************************************************)
Cautiously == moves = 0 /\ ~AllowRowRewrite

PlanIds == {ch.id : ch \in ToSet(PlanChunks(Matching(src), ChunkSize))}

StillPlanned ==
  /\ phase \notin FullPhases
  /\ phase = "plan" => targets \subseteq PlanIds
  /\ phase \in {"dstPlan", "dstDelete"} => Matching(src) = {}
  /\ phase = "outOfRange" => span = Extremes(Matching(src)) /\ span # <<>>

StillScanned ==
  /\ phase \in {"scanDestination", "check"} => scan.src = InChunk(Matching(src), Head(todo))
  /\ phase = "check" => scan.ops \in Plans(SafeKeys, Matching(src))

StillSurvive == \A i \in DOMAIN work : work[i].ops \in Plans(SafeKeys, Matching(src))

QuietInv == Cautiously => StillPlanned /\ StillScanned /\ StillSurvive

LEMMA SamePlan ==
  ASSUME setting' = setting, src' = src
  PROVE  PlanIds' = PlanIds
<1>1. Matching(src)' = Matching(src) /\ ChunkSize' = ChunkSize /\ Keys' = Keys /\ IntLead' = IntLead
  BY DEF Matching, ChunkSize, Keys, IntLead
<1> QED
  BY <1>1 DEF PlanIds, PlanChunks

\* Only Move counts: while it has not happened, the source is the same.
LEMMA Undisturbed ==
  ASSUME RowInv, [Next]_vars, Cautiously'
  PROVE  Cautiously /\ src' = src /\ setting' = setting /\ ~Move
<1>1. setting' = setting /\ moves' = 0 /\ ~AllowRowRewrite'
  BY TableStep DEF Cautiously
<1>2. ~Move
  BY <1>1 DEF Move, RowInv, TypeOK
<1>3. moves' = moves /\ src' = src
  BY <1>2 DEF Next, Step, Compare, Plan, ReadExtremes, ScanSource, ScanDestination, CheckHolders,
     StartApply, DeleteOutOfRange, ApplyGroup, FinishApply, PlanStreamDeletes, StreamDeletes,
     Truncate, PlanLoad, StreamChunk, FinishLoad, Verify, Rerun, vars
<1> QED
  BY <1>1, <1>2, <1>3 DEF Cautiously, AllowRowRewrite

LEMMA PlannedStep ==
  ASSUME RowInv, QuietInv, Cautiously, [Next]_vars, ~Move
  PROVE  /\ phase' \notin FullPhases
         /\ phase' = "plan" => targets' \subseteq PlanIds
         /\ phase' \in {"dstPlan", "dstDelete"} => Matching(src) = {}
         /\ phase' = "outOfRange" => span' = Extremes(Matching(src)) /\ span' # <<>>
<1>0. StillPlanned /\ ~AllowRowRewrite
  BY DEF QuietInv, Cautiously
<1> USE DEF FullPhases
<1>1. CASE Compare
  BY <1>1 DEF Compare, PlanIds
<1>2. CASE Plan
  <2>1. {PlanChunks(Matching(src), ChunkSize)[i].id :
           i \in DOMAIN PlanChunks(Matching(src), ChunkSize)} = PlanIds
    BY DEF PlanIds, ToSet
  <2>2. targets \subseteq PlanIds
    BY <1>0, <1>2 DEF StillPlanned, Plan
  <2> HIDE DEF FullPhases
  <2>3. \/ Matching(src) = {} /\ phase' \in {"applied", "dstPlan"}
        \/ phase' = "extremes"
    BY <1>2, <2>1, <2>2 DEF Plan
  <2> QED
    BY <2>3 DEF FullPhases
<1>3. CASE ReadExtremes
  BY <1>3 DEF ReadExtremes
<1>4. CASE ScanSource
  BY <1>4 DEF ScanSource
<1>5. CASE ScanDestination
  BY <1>5 DEF ScanDestination
<1>6. CASE CheckHolders
  BY <1>0, <1>6 DEF CheckHolders
<1>7. CASE StartApply
  BY <1>7 DEF StartApply
<1>8. CASE DeleteOutOfRange
  <2>1. phase = "outOfRange" /\ span' = span
    BY <1>8 DEF DeleteOutOfRange
  <2>2. phase' \in {phase, "groups", "failed"}
    BY <1>8 DEF DeleteOutOfRange, Transaction
  <2> QED
    BY <1>0, <2>1, <2>2 DEF StillPlanned
<1>9. CASE ApplyGroup
  BY <1>9 DEF ApplyGroup, Transaction
<1>10. CASE FinishApply
  BY <1>10 DEF FinishApply
<1>11. CASE PlanStreamDeletes
  BY <1>0, <1>11 DEF PlanStreamDeletes, StillPlanned
<1>12. CASE StreamDeletes
  BY <1>0, <1>12 DEF StreamDeletes, Transaction, StillPlanned
<1>13. CASE Truncate \/ PlanLoad \/ StreamChunk
  BY <1>0, <1>13 DEF Truncate, PlanLoad, StreamChunk, StillPlanned
<1>14. CASE FinishLoad \/ Verify \/ Rerun
  BY <1>14 DEF FinishLoad, Verify, Rerun
<1>15. CASE UNCHANGED vars
  BY <1>0, <1>15 DEF vars, StillPlanned
<1> QED
  BY <1>1, <1>2, <1>3, <1>4, <1>5, <1>6, <1>7, <1>8, <1>9, <1>10, <1>11, <1>12, <1>13, <1>14,
     <1>15 DEF Next, Step

LEMMA ScannedStep ==
  ASSUME RowInv, QuietInv, Cautiously, [Next]_vars, ~Move
  PROVE  /\ phase' \in {"scanDestination", "check"} =>
              scan'.src = InChunk(Matching(src), Head(todo'))
         /\ phase' = "check" => scan'.ops \in Plans(SafeKeys, Matching(src))
<1>0. StillScanned /\ ~AllowRowRewrite
  BY DEF QuietInv, Cautiously
<1>1. CASE ScanSource
  BY <1>1 DEF ScanSource
<1>2. CASE ScanDestination
  <2> DEFINE d == InChunk(Matching(dst), Head(todo))
             s == scan.src
  <2>1. /\ scan' = [scan EXCEPT !.dst = d, !.ops = Diff(s, d)] /\ todo' = todo
        /\ phase' = "check" => ~Hot(s, d)
    BY <1>0, <1>2 DEF ScanDestination
  <2>2. /\ scan \in [src : SUBSET Matching(Row), dst : SUBSET Row, ops : Seq(OpsOver(SafeKeys))]
        /\ s = InChunk(Matching(src), Head(todo))
    BY <1>0, <1>2 DEF RowInv, ScanOK, ScanDestination, StillScanned
  <2>3. Chunk(SafeKeys, Matching(src), s, d)
    <3>1. TypeOK /\ d \subseteq Matching(dst) /\ d \subseteq Matching(Row) /\ s \subseteq Matching(Row)
      BY <2>2 DEF RowInv, TypeOK, InChunk, Matching
    <3>2. \A x \in d : x.k \in SafeKeys
      BY <3>1, MatchingSafe
    <3>3. \A r \in Matching(src) : (\E x \in d : x.k = r.k) => r \in s
      BY <2>2 DEF InChunk
    <3> QED
      BY <3>1, <3>2, <3>3 DEF Chunk, SafeKeys
  <2>4. ~Hot(s, d) => Diff(s, d) \in Plans(SafeKeys, Matching(src))
    BY <2>3, DiffOps DEF RowInv, TypeOK
  <2>5. scan'.src = s /\ scan'.ops = Diff(s, d)
    <3> HIDE DEF d
    <3> QED
      BY <2>1, <2>2
  <2> QED
    BY <2>1, <2>2, <2>4, <2>5
<1>3. CASE CheckHolders
  BY <1>0, <1>3 DEF CheckHolders
<1>4. CASE ~ScanSource /\ ~ScanDestination /\ ~CheckHolders
  <2>1. phase' \in {"scanDestination", "check"} =>
          scan' = scan /\ todo' = todo /\ phase' = phase
    BY <1>4 DEF Next, Step, Compare, Plan, Escalate, ReadExtremes, StartApply,
       DeleteOutOfRange, ApplyGroup, FinishApply, PlanStreamDeletes, StreamDeletes, Truncate,
       PlanLoad, StreamChunk, FinishLoad, Verify, Rerun, Transaction, vars, planVars
  <2> QED
    BY <1>0, <2>1 DEF StillScanned
<1> QED
  BY <1>1, <1>2, <1>3, <1>4

LEMMA QuietStep ==
  ASSUME RowInv, QuietInv, [Next]_vars
  PROVE  QuietInv'
<1> SUFFICES ASSUME Cautiously'
             PROVE  StillPlanned' /\ StillScanned' /\ StillSurvive'
  BY DEF QuietInv
<1>1. Cautiously /\ src' = src /\ setting' = setting /\ ~Move
  BY Undisturbed
<1>2. /\ Matching(src)' = Matching(src) /\ PlanIds' = PlanIds
      /\ Plans(SafeKeys, Matching(src))' = Plans(SafeKeys, Matching(src))
  <2>1. Matching(src)' = Matching(src)
    BY <1>1 DEF Matching
  <2>2. OpsOver(SafeKeys)' = OpsOver(SafeKeys)
    BY <1>1, TableStep, SameSafeKeys
  <2>3. Plans(SafeKeys, Matching(src))' = Plans(SafeKeys, Matching(src))
    BY <2>1, <2>2 DEF Plans, Survives
  <2> QED
    BY <1>1, <2>1, <2>3, SamePlan
<1>3. StillPlanned'
  BY <1>1, <1>2, PlannedStep DEF StillPlanned, FullPhases
<1>4. StillScanned'
  BY <1>1, <1>2, ScannedStep DEF StillScanned, InChunk
<1>5. StillSurvive'
  <2> DEFINE P == Plans(SafeKeys, Matching(src))
  <2>1. Planned(work, P) /\ (phase = "check" => scan.ops \in P)
    BY <1>1 DEF RowInv, WorkOK, Planned, QuietInv, StillScanned, StillSurvive
  <2> HIDE DEF P
  <2>2. \A i \in DOMAIN work' : work'[i].ops \in P
    BY <2>1, WorkStep DEF Planned
  <2> QED
    BY <1>2, <2>2 DEF StillSurvive, P
<1> QED
  BY <1>3, <1>4, <1>5

\* A finite set of integers has its extremes.
LEMMA ExtremesOf ==
  ASSUME NEW S \in SUBSET Int, IsFiniteSet(S), S # {}
  PROVE  /\ Min(S) \in S /\ Max(S) \in S
         /\ \A x \in S : Min(S) <= x /\ x <= Max(S)
<1> DEFINE n == Cardinality(S)
           q == SetToSeq(S)
<1>1. n \in Nat /\ Len(q) = n /\ q \in Seq(S) /\ \A x \in S : \E i \in 1..n : q[i] = x
  BY SetAsSeq
<1> HIDE DEF n, q
<1>2. \A i \in 1..n : q[i] \in S /\ q[i] \in Int
  <2>1. \A i \in 1..n : q[i] \in S
    BY <1>1
  <2> QED
    BY <2>1
<1> DEFINE Between(i) == \E a, b \in 1..i : \A l \in 1..i : q[a] <= q[l] /\ q[l] <= q[b]
           Good == {i \in 0..n : i = 0 \/ Between(i)}
<1>0. \A i \in 0..(n - 1) : i \in Good => Between(i + 1)
  <2> SUFFICES ASSUME NEW i \in 0..(n - 1), i \in Good
               PROVE  Between(i + 1)
    OBVIOUS
  <2>0. i = 0 \/ Between(i)
    OBVIOUS
  <2>1. i + 1 \in 1..n /\ 1..(i + 1) = (1..i) \cup {i + 1} /\ \A l \in 1..i : l \in 1..n
    BY <1>1
  <2>2. CASE i = 0
    <3>1. \A l \in 1..(i + 1) : l = i + 1
      BY <2>2
    <3>2. \A l \in 1..(i + 1) : q[i + 1] <= q[l] /\ q[l] <= q[i + 1]
      BY <1>2, <2>1, <3>1
    <3> QED
      BY <2>1, <3>2
  <2>3. CASE Between(i)
    <3>1. PICK a, b \in 1..i : \A l \in 1..i : q[a] <= q[l] /\ q[l] <= q[b]
      BY <2>3
    <3> DEFINE c == IF q[i + 1] <= q[a] THEN i + 1 ELSE a
               d == IF q[b] <= q[i + 1] THEN i + 1 ELSE b
    <3>2. c \in 1..(i + 1) /\ d \in 1..(i + 1)
      BY <2>1
    <3>3. \A l \in 1..(i + 1) : q[c] <= q[l] /\ q[l] <= q[d]
      BY <1>2, <2>1, <3>1
    <3> HIDE DEF c, d
    <3> QED
      BY <3>2, <3>3
  <2> QED
    BY <2>0, <2>2, <2>3
<1> HIDE DEF Between
<1>3. \A i \in 0..(n - 1) : i \in Good => i + 1 \in Good
  <2>1. \A i \in 0..(n - 1) : i + 1 \in 0..n
    BY <1>1
  <2> QED
    BY <1>0, <2>1
<1>4. 0 \in Good
  BY <1>1
<1> HIDE DEF Good
<1>5. n \in Good
  BY <1>1, <1>3, <1>4, UpTo
<1>6. n # 0
  <2>1. n = 0 => 1..n = {}
    BY <1>1
  <2> QED
    BY <1>1, <2>1
<1>7. PICK a, b \in 1..n : \A l \in 1..n : q[a] <= q[l] /\ q[l] <= q[b]
  BY <1>5, <1>6 DEF Good, Between
<1>8. \A x \in S : q[a] <= x /\ x <= q[b]
  BY <1>1, <1>7
<1>9. q[a] \in S /\ q[b] \in S
  BY <1>2
<1>10. \E x \in S : \A y \in S : x <= y
  BY <1>8, <1>9
<1>11. \E x \in S : \A y \in S : x >= y
  BY <1>2, <1>8, <1>9
<1> QED
  BY <1>10, <1>11 DEF Min, Max

\* A key of the source is not outside the source's extremes.
LEMMA NotOutside ==
  ASSUME setting \in Settings, NEW rows \in SUBSET Row, NEW r \in rows
  PROVE  /\ LessThan3(<<r.k>>, <<Extremes(rows)[1]>>) # True3
         /\ GreaterThan3(<<r.k>>, <<Extremes(rows)[2]>>) # True3
<1> DEFINE ks == {x.k : x \in rows}
<1>1. ks \in SUBSET Keys /\ ks \in SUBSET Int /\ r.k \in ks /\ r.k \in Int
  BY SettingFacts DEF Row
<1>2. IsFiniteSet(ks)
  <2>1. IsFiniteSet(Keys)
    BY RowAssumption DEF Keys
  <2> QED
    BY <1>1, <2>1, FS_Subset
<1>3. Extremes(rows) = <<Min(ks), Max(ks)>>
  BY DEF Extremes
<1> HIDE DEF ks
<1>4. Min(ks) \in Int /\ Max(ks) \in Int /\ Min(ks) <= r.k /\ r.k <= Max(ks)
  BY <1>1, <1>2, ExtremesOf
<1>5. /\ <<Min(ks)>> \in KeysOf(1) /\ <<Max(ks)>> \in KeysOf(1) /\ <<r.k>> \in KeysOf(1)
  BY <1>1, <1>4 DEF KeysOf, Values
<1>6. KeyLeq(<<Min(ks)>>, <<r.k>>) /\ KeyLeq(<<r.k>>, <<Max(ks)>>)
  BY <1>1, <1>4, NullAssumption DEF KeyLeq, KeyLess, ColumnLess
<1>7. /\ LessThan3(<<r.k>>, <<Min(ks)>>) # True3
      /\ GreaterThan3(<<r.k>>, <<Max(ks)>>) # True3
  <2> DEFINE low == <<Min(ks)>>
             high == <<Max(ks)>>
             key == <<r.k>>
  <2>1. low \in KeysOf(1) /\ high \in KeysOf(1) /\ key \in KeysOf(1) /\ 1 \in Nat \ {0} /\ 1 <= 2
    BY <1>5
  <2>2. KeyLeq(low, key) /\ KeyLeq(key, high)
    BY <1>6
  <2> HIDE DEF low, high, key
  <2>3. ~KeyLess(key, low) /\ ~KeyLess(high, key)
    BY <2>1, <2>2, KeyOrder
  <2>4. LessThan3(key, low) # True3 /\ RowAbove(key, high, FALSE) # True3
    BY <2>1, <2>3, LessThanTrue, RowAboveTrue
  <2> QED
    BY <2>4 DEF GreaterThan3, low, high, key
<1> QED
  BY <1>3, <1>7

LEMMA EqualRowKept ==
  ASSUME RowInv, QuietInv, Cautiously, [Next]_vars, NEW r \in dst \cap src
  PROVE  r \in dst'
<1>0. /\ TypeOK /\ WorkOK /\ setting \in Settings /\ dst \subseteq Row /\ src \subseteq Row
      /\ StillPlanned /\ StillSurvive
  BY DEF RowInv, TypeOK, QuietInv
<1>1. CASE r \notin Matching(dst)
  <2>1. r \in Unmatched
    BY <1>1 DEF Unmatched
  <2> QED
    BY <2>1, TableStep DEF TableOK
<1>2. CASE r \in Matching(dst)
  <2>0. r \in Matching(src) /\ r \in Row
    BY <1>0, <1>2 DEF Matching
  <2>1. CASE Reads
    BY <2>1, ReadStep
  <2>2. CASE DeleteOutOfRange
    <3>1. span = Extremes(Matching(src))
      BY <1>0, <2>2 DEF DeleteOutOfRange, StillPlanned
    <3>2. /\ LessThan3(<<r.k>>, <<span[1]>>) # True3
          /\ GreaterThan3(<<r.k>>, <<span[2]>>) # True3
      <4>1. Matching(src) \in SUBSET Row
        BY <1>0 DEF Matching
      <4> QED
        BY <1>0, <2>0, <3>1, <4>1, NotOutside
    <3>3. \A s \in Page : \/ LessThan3(<<s.k>>, <<span[1]>>) = True3
                           \/ GreaterThan3(<<s.k>>, <<span[2]>>) = True3
      BY DEF Page, Matching, Tail1
    <3>4. \A s \in Page : r.k # s.k
      BY <3>2, <3>3
    <3>5. dst' \in {dst, {x \in dst : \A s \in Page : x.k # s.k}}
      BY <2>2 DEF DeleteOutOfRange, Transaction
    <3> QED
      BY <3>4, <3>5
  <2>3. CASE ApplyGroup
    <3> DEFINE ops == Head(work).ops
               result == RunOps(dst, ops)
    <3>1. dst' = dst \/ (~result.dup /\ dst' = result.rows)
      BY <2>3 DEF ApplyGroup, Transaction
    <3>2. ops \in Plans(SafeKeys, Matching(src))
      BY <1>0, <2>3, WorkHead DEF ApplyGroup, StillSurvive
    <3> HIDE DEF ops
    <3>3. result.dup \/ r \in result.rows
      BY <1>0, <2>0, <3>2, SafeApart, RunOpsKeep
    <3> QED
      BY <3>1, <3>3
  <2>4. CASE StreamDeletes
    BY <1>0, <2>0, <2>4 DEF StreamDeletes, StillPlanned
  <2>5. CASE Truncate \/ StreamChunk
    BY <1>0, <2>5 DEF Truncate, StreamChunk, StillPlanned, FullPhases
  <2> QED
    BY <2>1, <2>2, <2>3, <2>4, <2>5 DEF Next, Step, Reads
<1> QED
  BY <1>1, <1>2

\* EqualRowsStay: no delete of an unchanged row, to be re-inserted later in
\* the chunk's transaction or in another one, and no batched delete that
\* takes it along, unless --allow-row-rewrite was given or the source has
\* changed since the plan read it.
THEOREM EqualRowsCorrect == Spec => EqualRowsStay
<1>1. Init => QuietInv
  <2> SUFFICES ASSUME Init PROVE QuietInv
    OBVIOUS
  <2>1. phase = "compare" /\ work = <<>>
    BY DEF Init
  <2> QED
    BY <2>1 DEF QuietInv, StillPlanned, StillScanned, StillSurvive, FullPhases
<1>2. RowInv /\ QuietInv /\ [Next]_vars => QuietInv'
  BY QuietStep
<1>3. RowInv /\ QuietInv /\ [Next]_vars =>
        [~AllowRowRewrite /\ moves = 0 => dst \cap src \subseteq dst']_vars
  <2> SUFFICES ASSUME RowInv, QuietInv, [Next]_vars, Cautiously
               PROVE  dst \cap src \subseteq dst'
    BY DEF Cautiously
  <2> QED
    BY EqualRowKept
<1> QED
  BY <1>1, <1>2, <1>3, RowInvHolds, PTL DEF Spec, EqualRowsStay
=============================================================================
