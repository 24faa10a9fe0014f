---------------------------- MODULE ChunkPlanner ----------------------------
(***************************************************************************)
(* chunk.Planner.Plan: the queries that cut one table into chunks.  Every  *)
(* query is a step of its own, because the planner runs outside any        *)
(* snapshot on the sync path and other sessions may change the rows        *)
(* between two of them (Change).  The recursion of planSample is the stack *)
(* "work" of intervals still to split.                                     *)
(***************************************************************************)
EXTENDS KeyRange, FiniteSetsExt

CONSTANTS
  KeySpaces,   \* the possible keys: the values each can hold (keys), and
               \* whether the lead column is INT or UINT (intLead)
  ChunkSize,   \* target rows per chunk
  MaxN,        \* MaxInt32 in the code: more chunks than this are sampled
  MaxRows,     \* bound: rows in the table
  MaxTotal,    \* bound: the count the caller passes
  MaxChanges   \* bound: changes by other sessions during one plan

ASSUME PlannerAssumption ==
  /\ ChunkSize \in Nat \ {0} /\ MaxN \in 1..Half
  /\ MaxRows \in Nat /\ MaxTotal \in Nat /\ MaxChanges \in Nat

\* The keys of a table are tuples of one length; an integer lead column holds
\* signed or unsigned values of the planner's width.
ASSUME KeyAssumption ==
  \A s \in KeySpaces :
    /\ s.keys # {} /\ s.keys \subseteq Seq(Int \cup {NULL}) /\ s.intLead \in BOOLEAN
    /\ \A k, l \in s.keys : Len(k) = Len(l)
    /\ s.intLead => \A k \in s.keys : k # <<>> /\ k[1] \in (MinInt..(MaxInt + Half)) \cup {NULL}

VARIABLES
  space,    \* the table's key
  rows,     \* the matching rows: how many have each key
  total,    \* the caller's COUNT, taken before the plan
  phase,    \* the query that runs next
  lo, hi,   \* the extremes read so far
  work,     \* intervals still to split, the next one first
  chunks,   \* the chunks emitted so far
  changes   \* changes by other sessions so far

vars == <<space, rows, total, phase, lo, hi, work, chunks, changes>>

-----------------------------------------------------------------------------
Tables(keys) ==
  {[k \in keys |-> Cardinality({i \in DOMAIN s : s[i] = k})] :
     s \in UNION {[1..n -> keys] : n \in 0..MaxRows}}
Present == {k \in DOMAIN rows : rows[k] > 0}
KeyCols == Len(CHOOSE k \in space.keys : TRUE)   \* 0: a keyless table

\* SELECT key ... ORDER BY key LIMIT 1 OFFSET off over the rows of a chunk:
\* the empty set when there are not that many.
RowAt(ch, off) ==
  LET selected == {k \in Present : Selects(ch, k)}
      upTo(k)  == SumFunction([l \in {m \in selected : KeyLeq(m, k)} |-> rows[l]])
  IN  {k \in selected : upTo(k) - rows[k] <= off /\ off < upTo(k)}

\* Mutants of Interval: ids counted from 1; every lower bound inclusive.
IntervalFromOne(id, low, high, incl) ==
  [id |-> id + 1, lo |-> low, loIncl |-> incl, hi |-> high, prefix |-> 0]
IntervalClosed(id, low, high, incl) ==
  [id |-> id, lo |-> low, loIncl |-> TRUE, hi |-> high, prefix |-> 0]

Interval(id, low, high, incl) ==
  [id |-> id, lo |-> low, loIncl |-> incl, hi |-> high, prefix |-> 0]

\* The two recursive calls of split: its interval cut at the row mid.
Part(low, high, incl, n) == [lo |-> low, hi |-> high, incl |-> incl, rows |-> n]

\* Mutants of Halves: the upper half first; the upper half as large as both.
HalvesSwapped(w, mid) ==
  << Part(mid, w.hi, FALSE, w.rows - w.rows \div 2), Part(w.lo, mid, w.incl, w.rows \div 2) >>
HalvesNotReduced(w, mid) ==
  << Part(w.lo, mid, w.incl, w.rows \div 2), Part(mid, w.hi, FALSE, w.rows) >>

Halves(w, mid) ==
  << Part(w.lo, mid, w.incl, w.rows \div 2), Part(mid, w.hi, FALSE, w.rows - w.rows \div 2) >>

\* planInt's conditions on the extremes, after the conversion to int64.
IntPlannable(low, high, n) ==
  /\ space.intLead /\ n > 1 /\ n <= MaxN
  /\ low[1] # NULL /\ high[1] # NULL /\ high[1] <= MaxInt
  /\ SpanSafe(Signed(Unsigned(low[1])), high[1])

-----------------------------------------------------------------------------
Init ==
  /\ space \in KeySpaces
  /\ rows \in Tables(space.keys)
  /\ total \in 0..MaxTotal
  /\ phase = "plan" /\ changes = 0
  /\ lo = <<>> /\ hi = <<>> /\ work = <<>> /\ chunks = <<>>

\* No rows, no chunks; a keyless table is one unbounded chunk.
Plan ==
  /\ phase = "plan"
  /\ IF total > 0 /\ KeyCols > 0
     THEN phase' = "min" /\ UNCHANGED chunks
     ELSE /\ phase' = "done"
          /\ chunks' = IF total = 0 THEN <<>>
                       ELSE << Interval(0, Unbounded, Unbounded, FALSE) >>
  /\ UNCHANGED <<space, rows, total, lo, hi, work, changes>>

\* extremes: the first row in key order ...
ReadMin ==
  /\ phase = "min"
  /\ IF Present = {}
     THEN phase' = "error" /\ UNCHANGED lo
     ELSE /\ lo' = CHOOSE k \in Present : \A l \in Present : KeyLeq(k, l)
          /\ phase' = "max"
  /\ UNCHANGED <<space, rows, total, hi, work, chunks, changes>>

\* ... and the last one, then the integer split or the start of sampling.
ReadMax ==
  /\ phase = "max"
  /\ IF Present = {}
     THEN phase' = "error" /\ UNCHANGED <<hi, work, chunks>>
     ELSE LET high == CHOOSE k \in Present : \A l \in Present : KeyLeq(l, k)
              n    == Ceil(total, ChunkSize)
          IN  /\ hi' = high
              /\ IF IntPlannable(lo, high, n)
                 THEN /\ chunks' = IntBoundaries(Signed(Unsigned(lo[1])), high[1], n,
                                                 IF KeyCols > 1 THEN 1 ELSE 0)
                      /\ phase' = "done" /\ UNCHANGED work
                 ELSE /\ work' = << Part(lo, high, TRUE, n * ChunkSize) >>
                      /\ phase' = "split" /\ UNCHANGED chunks
  /\ UNCHANGED <<space, rows, total, lo, changes>>

\* planSample: one call of split, on the interval on top of the stack.
Split ==
  /\ phase = "split" /\ work # <<>>
  /\ LET w    == Head(work)
         ch   == Interval(Len(chunks), w.lo, w.hi, w.incl)
         mids == IF w.rows <= ChunkSize THEN {} ELSE RowAt(ch, w.rows \div 2) \ {w.hi}
     IN  \/ /\ mids = {}
            /\ chunks' = Append(chunks, ch)
            /\ work' = Tail(work)
         \/ \E mid \in mids :
            /\ work' = Halves(w, mid) \o Tail(work)
            /\ UNCHANGED chunks
  /\ phase' = IF work' = <<>> THEN "done" ELSE "split"
  /\ UNCHANGED <<space, rows, total, lo, hi, changes>>

\* Another session inserts and deletes rows between two of the queries.
Change ==
  /\ phase \notin {"done", "error"} /\ changes < MaxChanges
  /\ rows' \in Tables(space.keys) \ {rows}
  /\ changes' = changes + 1
  /\ UNCHANGED <<space, total, phase, lo, hi, work, chunks>>

Next == Plan \/ ReadMin \/ ReadMax \/ Split \/ Change

Spec == Init /\ [][Next]_vars

-----------------------------------------------------------------------------
Emitted == {chunks[i] : i \in DOMAIN chunks}
Planned == phase = "done" /\ chunks # <<>>
InSpan(k) == KeyLeq(lo, k) /\ KeyLeq(k, hi)
HasNull(k) == \E i \in DOMAIN k : k[i] = NULL
NullUpperBound == KeyCols = 1 /\ \E ch \in Emitted : HasNull(ch.hi)

TypeOK ==
  /\ phase \in {"plan", "min", "max", "split", "done", "error"}
  /\ space \in KeySpaces /\ rows \in [space.keys -> 0..MaxRows]
  /\ \A i \in DOMAIN chunks : chunks[i].id = i - 1
  /\ \A i \in DOMAIN work : work[i].rows \in Nat \ {0}

\* A chunk's predicate is exact on keys of at most two columns, and on the
\* lead column alone; the terms of a longer key reach beyond the bounds.
ExactRanges == KeyCols <= 2 \/ \A ch \in Emitted : ch.prefix > 0

\* No row is scanned twice: whatever the other sessions did between the
\* planner's queries, a key value is selected by at most one chunk, NULL
\* included unless it became the upper bound of a chunk of one column.  Not
\* so of a sampled key of three or more columns.
NoOverlap ==
  Planned /\ ~NullUpperBound /\ ExactRanges =>
    \A k \in space.keys : Cardinality({ch \in Emitted : Selects(ch, k)}) <= 1

\* No row is skipped: every key value between the extremes the plan read is
\* selected by a chunk, so the two sides cannot both miss the same rows; for
\* a key of any columns, although the split points of three or more need not
\* rise.  A single column may be NULL.
NoGap ==
  Planned => \A k \in space.keys :
    KeyCols > 0 /\ InSpan(k) /\ (KeyCols = 1 \/ ~HasNull(k)) => \E ch \in Emitted : Selects(ch, k)

\* The same of every key value: "adjacent chunks form an exact partition",
\* also where a column of a composite key is NULL.
NoGapAtNull ==
  Planned => \A k \in space.keys :
    KeyCols > 0 /\ InSpan(k) => \E ch \in Emitted : Selects(ch, k)

\* The row-level sync deletes the destination rows outside the source's
\* extremes before it writes: its predicate selects every key that is not
\* between them, NULL components included, and of a key of at most two
\* columns none that is.
OutOfRangeIsOutsideSpan ==
  Planned /\ KeyCols > 0 /\ KeyLeq(lo, hi) =>
    \A k \in space.keys :
      /\ ~InSpan(k) => OutOfRange(k, lo, hi)
      /\ KeyCols <= 2 /\ InSpan(k) => ~OutOfRange(k, lo, hi)

\* "every row strictly below the bound", "every row strictly above": of a
\* key of any columns, no row between the extremes is taken for outside.
InSpanIsKept ==
  Planned /\ KeyCols > 0 /\ KeyLeq(lo, hi) =>
    \A k \in space.keys : InSpan(k) => ~OutOfRange(k, lo, hi)

\* Each chunk starts where the one before it ends and, where the ranges are
\* exact, they come in key order; holderPosition relies on it to tell an
\* earlier chunk from a later.
ChunksInKeyOrder ==
  Planned /\ KeyLeq(lo, hi) /\ ~NullUpperBound => \A i \in 1..(Len(chunks) - 1) :
    /\ chunks[i + 1].lo = chunks[i].hi /\ ~chunks[i + 1].loIncl
    /\ ExactRanges => KeyLess(chunks[i].hi, chunks[i + 1].hi)

\* The recursion ends, also when every key is equal or the rows come and go
\* while it runs: it never holds more intervals than the rows it was asked
\* to cut.
PlanIsBounded == Len(chunks) + Len(work) <= Ceil(total, ChunkSize) * ChunkSize
=============================================================================
