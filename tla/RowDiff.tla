------------------------------- MODULE RowDiff -------------------------------
(***************************************************************************)
(* internal/sync/rows.go and the statement order of apply.go as operators: *)
(* the row operations that turn one chunk of the destination into the      *)
(* source's, the check that no row outside the chunk holds a unique value  *)
(* they write, and what one transaction of them does to a table whose      *)
(* unique indexes reject duplicates.                                       *)
(*                                                                         *)
(* A row is [k, u, p]: its key, one column under a unique index, and the   *)
(* rest.  A table is a set of rows (two rows equal in every column are not *)
(* told apart).  Each column is compared in three ways, and the code's     *)
(* hazards live in their differences: raw equality, the normalizer's       *)
(* (KeyId, Canon), and the unique index's collation (Fold).                *)
(***************************************************************************)
EXTENDS KeyRange, SequencesExt

CONSTANT Settings   \* the instances and options a run of TLC covers

VARIABLE setting    \* the tables' definition and the options of the run: one
                    \* of Settings, never changed

Keys       == setting.keys        \* the key values (integers)
Uniques    == setting.uniques     \* the values of the unique column
Payloads   == setting.payloads    \* the values of the other columns
KeyId      == setting.keyId       \* [Keys -> Int]: normalized key; groups run in its order
Canon      == setting.canon       \* [Uniques -> ...]: normalized value of u
Fold       == setting.fold        \* [Uniques -> ...]: what the unique index compares
KeyUnique  == setting.keyUnique   \* the key is unique on both sides (Engine.unique)
Batch      == setting.batch       \* rows per INSERT
MaxTracked == setting.maxTracked  \* maxTrackedTuples
OrderKnown == setting.orderKnown  \* the client can reproduce the order of the keys

ASSUME RowAssumption ==
  \A s \in Settings :
    /\ s.keys \subseteq Int /\ NULL \notin s.keys /\ s.keyId \in [s.keys -> Int]
    /\ IsFiniteSet(s.keys) /\ IsFiniteSet(s.uniques) /\ IsFiniteSet(s.payloads)
    /\ {s.keyUnique, s.orderKnown} \subseteq BOOLEAN
    /\ s.batch \in Nat \ {0} /\ s.maxTracked \in Nat

Row == [k : Keys, u : Uniques, p : Payloads]

\* Engine.uc: the unique constraints of either side, the key included when
\* it is one.
Constraints == IF KeyUnique THEN {"k", "u"} ELSE {"u"}

\* The row holds a slot of the constraint: a NULL never does.
Holds(c, r)    == r[c] # NULL
SameTuple(c, r, s) == Holds(c, r) /\ Holds(c, s) /\ r[c] = s[c]

\* The unique index compares by its collation, not by raw values.
IndexKey(c, v) == IF c = "u" THEN Fold[v] ELSE v
Clash(c, r, s) == Holds(c, r) /\ Holds(c, s) /\ IndexKey(c, r[c]) = IndexKey(c, s[c])
Accepts(rows)  == \A r, s \in rows, c \in Constraints : r # s => ~Clash(c, r, s)

\* srow.canon: a row as the comparison sees it.
CanonRow(r) == <<KeyId[r.k], Canon[r.u], r.p>>

SameMultiset(s, d) ==
  /\ Cardinality(s) = Cardinality(d)
  /\ \A r \in s : Cardinality({x \in s : CanonRow(x) = CanonRow(r)}) =
                  Cardinality({x \in d : CanonRow(x) = CanonRow(r)})

-----------------------------------------------------------------------------
(* Engine.Diff                                                             *)

GroupIds(rows)  == {KeyId[r.k] : r \in rows}
Group(rows, id) == {r \in rows : KeyId[r.k] = id}

\* Mutant of Kind: rows of the same key are taken for equal.
KindByKey(s, d) == IF d = {} THEN "insert" ELSE IF s = {} THEN "delete" ELSE "noop"

\* The kind of a key group, by its source and destination rows.
Kind(s, d) ==
  CASE d = {} -> "insert"
    [] d # {} /\ s = {} -> "delete"
    [] d # {} /\ s # {} /\ SameMultiset(s, d) -> "noop"
    [] OTHER -> IF KeyUnique /\ Cardinality(s) = 1 /\ Cardinality(d) = 1
                THEN "update" ELSE "replace"

\* An op: the destination keys it addresses and the source rows it writes.
Op(kind, keys, rows) == [kind |-> kind, keys |-> keys, rows |-> rows]

Deletes(d) == [i \in 1..Cardinality(d) |-> Op("delete", {SetToSeq(d)[i].k}, <<>>)]
Inserts(s) == [i \in 1..Cardinality(s) |-> Op("insert", {}, <<SetToSeq(s)[i]>>)]

\* The integers of a set in their order, and f of each group's id in turn.
InOrder(S) ==
  [i \in 1..Cardinality(S) |-> CHOOSE x \in S : Cardinality({y \in S : y < x}) = i - 1]
ForEachId(ids, f(_)) ==
  FlattenSeq([i \in 1..Cardinality(ids) |-> f(InOrder(ids)[i])])

\* diffPlain: group by group.
DiffPlain(src, dst) ==
  LET ops(id) ==
        LET s == Group(src, id)
            d == Group(dst, id)
        IN  CASE Kind(s, d) = "noop" -> <<>>
              [] Kind(s, d) = "update" ->
                   << Op("update", {r.k : r \in d}, SetToSeq(s)) >>
              [] OTHER -> Deletes(d) \o Inserts(s)
  IN ForEachId(GroupIds(src \cup dst), ops)

\* Two groups of different ids share a raw tuple, one about to write it.
Writes(src, dst, id) == Kind(Group(src, id), Group(dst, id)) \notin {"delete", "noop"}
Hot(src, dst) ==
  \E r \in src, h \in dst, c \in Constraints :
    /\ SameTuple(c, r, h) /\ KeyId[r.k] # KeyId[h.k]
    /\ Writes(src, dst, KeyId[r.k])

\* A no-op group one of whose rows holds a tuple that is written.
Rewritten(src, dst, id) ==
  /\ Kind(Group(src, id), Group(dst, id)) = "noop"
  /\ \E r \in src, h \in Group(dst, id), c \in Constraints :
       SameTuple(c, r, h) /\ Writes(src, dst, KeyId[r.k])

\* The two-phase emission of a hot chunk: every delete, then every insert;
\* a rewritten group is deleted and re-inserted by one op of phase one.
DiffHot(src, dst) ==
  LET ids == GroupIds(src \cup dst)
      phase1(id) ==
        LET d == Group(dst, id) IN
        CASE Kind(Group(src, id), d) = "noop" ->
               IF Rewritten(src, dst, id)
               THEN << Op("rewrite", {r.k : r \in d}, SetToSeq(Group(src, id))) >>
               ELSE <<>>
          [] OTHER -> Deletes(d)
      phase2(id) == IF Writes(src, dst, id) THEN Inserts(Group(src, id)) ELSE <<>>
  IN ForEachId(ids, phase1) \o ForEachId(ids, phase2)

Diff(src, dst) == IF Hot(src, dst) THEN DiffHot(src, dst) ELSE DiffPlain(src, dst)

-----------------------------------------------------------------------------
(* runOpsGroup: one chunk's ops in one transaction.  The state is the      *)
(* table as the transaction sees it, the keys whose deletes are batched,   *)
(* the rows whose insert is batched, and whether a statement has failed on *)
(* a unique index (the transaction then rolls back).                       *)

Begin(rows) == [rows |-> rows, dels |-> {}, pend |-> <<>>, dup |-> FALSE]

FlushDeletes(t) ==
  [t EXCEPT !.rows = {r \in t.rows : r.k \notin t.dels}, !.dels = {}]

Flush(t) ==
  LET new == ToSet(t.pend)
      bad == ~Accepts(t.rows \cup new) \/ t.rows \cap new # {}
  IN [t EXCEPT !.rows = IF bad THEN @ ELSE @ \cup new,
               !.pend = <<>>, !.dup = @ \/ bad]

AddInsert(t, row) ==
  LET room == IF Len(t.pend) >= Batch THEN Flush(t) ELSE t
  IN [room EXCEPT !.pend = Append(@, row)]

\* UPDATE sets every column but the key, of the row at the destination's key.
UpdateRow(t, key, row) ==
  LET old == {r \in t.rows : r.k = key}
      new == {[row EXCEPT !.k = key] : r \in old}
      bad == ~Accepts((t.rows \ old) \cup new)
  IN [t EXCEPT !.rows = IF bad THEN @ ELSE (@ \ old) \cup new, !.dup = @ \/ bad]

RunOp(t, op) ==
  LET after == FlushDeletes(t) IN
  CASE op.kind = "delete"  -> [t EXCEPT !.dels = @ \cup op.keys]
    [] op.kind = "update"  -> UpdateRow(after, CHOOSE k \in op.keys : TRUE, op.rows[1])
    [] op.kind = "rewrite" -> FoldLeft(AddInsert, FlushDeletes([after EXCEPT !.dels = op.keys]),
                                       op.rows)
    [] op.kind = "insert"  -> AddInsert(after, op.rows[1])

RunOps(rows, ops) == Flush(FlushDeletes(FoldLeft(RunOp, Begin(rows), ops)))

-----------------------------------------------------------------------------
(* crossChunkCheck                                                         *)

\* The raw tuples the ops write.
Written(ops) ==
  {w \in Constraints \X UNION {ToSet(ops[i].rows) : i \in DOMAIN ops} : Holds(w[1], w[2])}
WrittenValues(ops) == {<<w[1], w[2][w[1]]>> : w \in Written(ops)}

\* The key groups whose destination rows the ops address.
Targeted(ops) ==
  {KeyId[k] : k \in UNION {ops[i].keys : i \in DOMAIN ops}}

\* Mutant of Before: any other chunk is taken for an earlier one.
BeforeAlways(ch, key) == ch.lo # Unbounded

\* holderPosition relative to the chunk's bounds, for a lead-column key.
Before(ch, key) == ch.lo # Unbounded /\ (key < ch.lo[1] \/ (key = ch.lo[1] /\ ~ch.loIncl))

\* holderInOtherChunk: the source's row at the holder's key decides, and
\* the slot is free in time only when the holder's chunk comes earlier.
OtherChunkVerdicts(src, ch, c, h, ops) ==
  LET at        == {r \in src : r.k = h.k}
      twice(r)  == Holds(c, r) /\ <<c, r[c]>> \in WrittenValues(ops)
      inOrder   == IF Before(ch, h.k) THEN "safe" ELSE "conflict"
  IN  IF at = {} THEN {inOrder} ELSE {IF twice(r) THEN "duplicate" ELSE inOrder : r \in at}

\* classifyHolderConn: why a destination row that holds a written tuple is
\* no obstacle.  span is the source's extremes, <<>> when there are none;
\* where the client knows the key order its own comparison with the span
\* agrees with the server's flag.
Verdicts(src, span, ch, dstChunk, c, h, ops, oorActive) ==
  CASE KeyId[h.k] \in Targeted(ops) -> {"safe"}
    [] KeyId[h.k] \notin Targeted(ops) /\ KeyId[h.k] \in GroupIds(dstChunk) -> {"conflict"}
    [] OTHER ->
         IF ~oorActive THEN {"conflict"}
         ELSE IF span # <<>> /\ OutOfRange(<<h.k>>, <<span[1]>>, <<span[2]>>) THEN {"safe"}
         ELSE IF ~OrderKnown THEN {"conflict"}
         ELSE OtherChunkVerdicts(src, ch, c, h, ops)

\* The possible results for a chunk: the first holder that is not safe ends
\* the check, in an order the server chooses.
CrossChunkCheck(src, dst, span, ch, dstChunk, ops, oorActive) ==
  IF Cardinality(WrittenValues(ops)) > MaxTracked THEN {"conflict"}
  ELSE LET blocked == {x \in Written(ops) \X dst : Clash(x[1][1], x[1][2], x[2])}
           found   == UNION {Verdicts(src, span, ch, dstChunk, x[1][1], x[2], ops, oorActive) :
                               x \in blocked}
       IN IF found \subseteq {"safe"} THEN {"safe"} ELSE found \ {"safe"}
=============================================================================
