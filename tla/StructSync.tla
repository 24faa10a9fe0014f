------------------------------ MODULE StructSync ------------------------------
(***************************************************************************)
(* internal/sync/struct.go: the changes that bring one table's structure   *)
(* in line with another's (DiffStructure) and the ALTER TABLE statements   *)
(* they are rendered as (RenderDDL), beside what a server does with such a *)
(* statement.                                                              *)
(*                                                                         *)
(* A structure is [cols, keys]: the columns in order, each a record of     *)
(*   name, def (type and default), null, auto (AUTO_INCREMENT), gen        *)
(*   (Plain, an expression, or Hidden: an expression the server does not   *)
(*   show), coll (collation)                                               *)
(* and the set of its primary and unique keys, [primary, cols].            *)
(***************************************************************************)
EXTENDS Integers, FiniteSets, Sequences, SequencesExt

CONSTANTS
  ColumnNames,
  Definitions,
  Family,        \* [Definitions -> type family]: "datetime", "timestamp", ...
  Generations,
  Collations

Plain       == "plain"     \* not a generated column
Hidden      == "hidden"    \* generated, the expression cannot be read
Expression  == "(now())"   \* the definition with an expression default
First       == ""          \* the position before all columns

ASSUME StructAssumption == First \notin ColumnNames

Column == [name : ColumnNames, def : Definitions, null : BOOLEAN, auto : BOOLEAN,
           gen : Generations, coll : Collations]
Key    == [primary : BOOLEAN, cols : Seq(ColumnNames)]
Struct == [cols : Seq(Column), keys : SUBSET Key]

\* The elements of s at these positions, in their order.
AtPositions(s, P) ==
  [j \in 1..Cardinality(P) |-> s[CHOOSE i \in P : Cardinality({h \in P : h < i}) = j - 1]]

Names(s)    == {s.cols[i].name : i \in DOMAIN s.cols}
Col(s, n)   == CHOOSE c \in ToSet(s.cols) : c.name = n
KeySeqs(s)  == {k.cols : k \in s.keys}
Refs(k, ns) == ToSet(k.cols) \cap ns # {}

\* filterStruct: --ignore-columns, and the keys that touch one.
Visible(s, ignore) ==
  IF ignore = {} THEN s
  ELSE [cols |-> AtPositions(s.cols, {i \in DOMAIN s.cols : s.cols[i].name \notin ignore}),
        keys |-> {k \in s.keys : ~Refs(k, ignore)}]

-----------------------------------------------------------------------------
(* DiffStructure.                                                          *)

GenExprDiffers(sc, dc) == Hidden \in {sc.gen, dc.gen} \/ sc.gen # dc.gen

\* Each side's collation is its own database's default ("": unknown).
DefaultCollationsMatch(sc, dc, defaults) ==
  /\ defaults.src # "" /\ defaults.dst # ""
  /\ defaults.src = sc.coll /\ defaults.dst = dc.coll

\* DATETIME on one side, TIMESTAMP on the other.
IsTime(c) == Family[c.def] \in {"datetime", "timestamp"}
TimePair(sc, dc) == IsTime(sc) /\ IsTime(dc) /\ Family[sc.def] # Family[dc.def]

\* A time pair never differs, whatever else its columns disagree in.
ColDiffers(sc, dc, defaults) ==
  /\ ~TimePair(sc, dc)
  /\ \/ (sc.gen # Plain) # (dc.gen # Plain)
     \/ sc.gen # Plain /\ dc.gen # Plain /\ GenExprDiffers(sc, dc)
     \/ sc.def # dc.def \/ sc.null # dc.null \/ sc.auto # dc.auto
     \/ sc.coll # dc.coll /\ ~DefaultCollationsMatch(sc, dc, defaults)

Addable(c) == c.gen = Plain /\ c.def # Expression

Added(src, dst)              == Names(src) \ Names(dst)
Modified(src, dst, defaults) ==
  {n \in Names(src) \cap Names(dst) : ColDiffers(Col(src, n), Col(dst, n), defaults)}

\* A definition that cannot be reproduced refuses the whole plan.
Refused(src, dst, defaults) ==
  \E n \in Added(src, dst) \cup Modified(src, dst, defaults) : ~Addable(Col(src, n))

\* Mutant of AddedAfter: new columns are put last.
AddedAfterLast(src, dst) ==
  LET new == AtPositions(src.cols, {i \in DOMAIN src.cols : src.cols[i].name \in Added(src, dst)})
  IN  [i \in DOMAIN new |-> [col |-> new[i], after |-> Last(dst.cols).name]]

\* The new columns in source order, each with the column before it.
AddedAfter(src, dst) ==
  AtPositions([i \in DOMAIN src.cols |->
                 [col |-> src.cols[i], after |-> IF i = 1 THEN First ELSE src.cols[i - 1].name]],
              {i \in DOMAIN src.cols : src.cols[i].name \in Added(src, dst)})

\* Keys are compared by their columns, not by their names.
Changes(src, dst, defaults) ==
  [add |-> AddedAfter(src, dst), modify |-> {Col(src, n) : n \in Modified(src, dst, defaults)},
   dropCol |-> Names(dst) \ Names(src),
   addKey  |-> {k \in src.keys : k.cols \notin KeySeqs(dst)},
   dropKey |-> {k \in dst.keys : k.cols \notin KeySeqs(src)}]

NoChanges == [add |-> <<>>, modify |-> {}, dropCol |-> {}, addKey |-> {}, dropKey |-> {}]

-----------------------------------------------------------------------------
(* RenderDDL.  A statement has the clauses of a set of changes.            *)

Touched(ch) == {c.name : c \in ch.modify} \cup {ch.add[i].col.name : i \in DOMAIN ch.add}

\* The statement of these changes, if there is anything to do.
Clauses(ch) == IF ch = NoChanges THEN <<>> ELSE <<ch>>

\* Mutant of RenderDDL: the key changes that were put off come first.
RenderLateFirst(ch) ==
  LET late == [NoChanges EXCEPT !.dropKey = {k \in ch.dropKey : Refs(k, Touched(ch))},
                                !.addKey  = {k \in ch.addKey : Refs(k, Touched(ch))}]
      rest == [ch EXCEPT !.dropKey = @ \ late.dropKey, !.addKey = @ \ late.addKey]
  IN  Clauses(late) \o Clauses(rest)

\* One ALTER, and a second one for the key changes on columns the first one
\* adds or re-defines.  The drop of a key that loses a column is left to the
\* server.
RenderDDL(ch) ==
  LET dropKey == {k \in ch.dropKey : ~Refs(k, ch.dropCol)}
      late == [NoChanges EXCEPT !.dropKey = {k \in dropKey : Refs(k, Touched(ch))},
                                !.addKey  = {k \in ch.addKey : Refs(k, Touched(ch))}]
      rest == [ch EXCEPT !.dropKey = dropKey \ late.dropKey, !.addKey = @ \ late.addKey]
  IN  Clauses(rest) \o Clauses(late)

\* Mutant of Destructive: key drops are not listed.
DestructiveColumns(stmt) == stmt.dropCol # {}

\* DestructiveDDL.
Destructive(stmt) == stmt.dropCol # {} \/ stmt.dropKey # {}

-----------------------------------------------------------------------------
(* What a server does with ALTER TABLE: the clauses take effect together   *)
(* or the statement is rejected.                                           *)

\* Dropped columns leave the keys they are in; a key without columns is gone.
Shrunk(k, ns) ==
  [primary |-> k.primary, cols |-> AtPositions(k.cols, {i \in DOMAIN k.cols : k.cols[i] \notin ns})]

KeptKeys(s, stmt) ==
  {Shrunk(k, stmt.dropCol) : k \in {l \in s.keys \ stmt.dropKey : ~(ToSet(l.cols) \subseteq stmt.dropCol)}}

KeptCols(s, stmt) ==
  LET kept == AtPositions(s.cols, {i \in DOMAIN s.cols : s.cols[i].name \notin stmt.dropCol})
      new  == {m.name : m \in stmt.modify}
  IN  [i \in DOMAIN kept |-> IF kept[i].name \in new
                             THEN CHOOSE m \in stmt.modify : m.name = kept[i].name ELSE kept[i]]

PutAfter(cols, a) ==
  LET at == IF a.after = First THEN 0 ELSE CHOOSE i \in DOMAIN cols : cols[i].name = a.after
  IN  InsertAt(cols, at + 1, a.col)

\* The columns of the primary key are NOT NULL whatever their definition says.
NotNull(cols, keys) ==
  LET primary == UNION {ToSet(k.cols) : k \in {l \in keys : l.primary}}
  IN  [i \in DOMAIN cols |-> [cols[i] EXCEPT !.null = @ /\ cols[i].name \notin primary]]

Altered(s, stmt) ==
  LET keys == KeptKeys(s, stmt) \cup stmt.addKey
  IN  [cols |-> NotNull(FoldLeft(PutAfter, KeptCols(s, stmt), stmt.add), keys), keys |-> keys]

\* A server has no table without a column, or with an AUTO_INCREMENT column
\* of a time type or that leads no key.
Impossible(s) ==
  \/ s.cols = <<>>
  \/ \E c \in ToSet(s.cols) : c.auto /\ (IsTime(c) \/ ~\E k \in s.keys : Head(k.cols) = c.name)

\* A clause names something that is not there, or the result has two primary
\* keys or is impossible.
Rejected(s, stmt) ==
  LET added == {stmt.add[i].col.name : i \in DOMAIN stmt.add}
      names == (Names(s) \ stmt.dropCol) \cup added
      keys  == KeptKeys(s, stmt) \cup stmt.addKey
  IN  \/ ~(stmt.dropKey \subseteq s.keys) \/ added \cap Names(s) # {}
      \/ ~(stmt.dropCol \cup {m.name : m \in stmt.modify} \subseteq Names(s))
      \/ \E k \in keys : ~(ToSet(k.cols) \subseteq names)
      \/ \E i \in DOMAIN stmt.add : stmt.add[i].after \notin names \cup {First}
      \/ \E k, l \in keys : k # l /\ k.primary /\ l.primary
      \/ Impossible(Altered(s, stmt))

-----------------------------------------------------------------------------
(* The structures there are, and the pairs of them RenderDDL can repair.   *)

\* A structure a server can have.
IsStruct(s) ==
  /\ s \in Struct
  /\ \A i, j \in DOMAIN s.cols : s.cols[i].name = s.cols[j].name => i = j
  /\ \A k \in s.keys : k.cols # <<>> /\ ToSet(k.cols) \subseteq Names(s)
  /\ \A k, l \in s.keys : k.primary /\ l.primary => k = l
  /\ \A k \in {l \in s.keys : l.primary} : \A n \in ToSet(k.cols) : ~Col(s, n).null
  /\ ~Impossible(s)

Before(s, m, n) ==
  \E i, j \in DOMAIN s.cols : i < j /\ s.cols[i].name = m /\ s.cols[j].name = n

\* Two columns of both sides come in the same order on both.
OrderAgrees(src, dst) ==
  \A m, n \in Names(src) \cap Names(dst) : Before(src, m, n) <=> Before(dst, m, n)

\* A key of the destination does not lose some of its columns and keep others.
NoKeyShrinks(src, dst) ==
  \A k \in dst.keys : ToSet(k.cols) \subseteq Names(src) \/ ~Refs(k, Names(src))

\* The primary key of the destination makes way for a new one in time: it is
\* not kept for being a unique key of the source, nor dropped in the second
\* statement while its successor is added in the first.
PrimaryStays(src, dst, defaults) ==
  LET ch == Changes(src, dst, defaults)
      touched(k) == Refs(k, Touched(ch))
  IN  ~\E p \in dst.keys, q \in ch.addKey :
        p.primary /\ q.primary /\ (p \notin ch.dropKey \/ (touched(p) /\ ~touched(q)))

\* A key that leads with the AUTO_INCREMENT column is there already.
AutoIsKeyed(src, dst) ==
  \A n \in Names(src) : Col(src, n).auto =>
    \E ks \in KeySeqs(src) \cap KeySeqs(dst) : Head(ks) = n

\* No column is nullable on the source and in the destination's primary key,
\* which the statement that re-defines the column still finds there.
PrimaryNotNull(src, dst) ==
  \A k \in {l \in dst.keys : l.primary} :
    \A n \in ToSet(k.cols) \cap Names(src) : ~Col(src, n).null

Repairable(src, dst, defaults) ==
  /\ OrderAgrees(src, dst) /\ NoKeyShrinks(src, dst) /\ PrimaryStays(src, dst, defaults)
  /\ AutoIsKeyed(src, dst) /\ PrimaryNotNull(src, dst) /\ ~Refused(src, dst, defaults)

\* A column of both sides is DATETIME on one and TIMESTAMP on the other.
HasTimePair(src, dst) ==
  \E n \in Names(src) \cap Names(dst) : TimePair(Col(src, n), Col(dst, n))

\* The destination has the source's columns and keys, and the definitions of
\* the columns are the source's, save those of a time pair.
Aligned(src, dst, defaults) ==
  /\ KeySeqs(src) = KeySeqs(dst)
  /\ Names(src) = Names(dst)
  /\ \A n \in Names(src) :
       LET sc == Col(src, n)
           dc == Col(dst, n)
       IN  \/ TimePair(sc, dc)
           \/ /\ dc = [sc EXCEPT !.coll = dc.coll] /\ sc.gen # Hidden
              /\ sc.coll = dc.coll \/ DefaultCollationsMatch(sc, dc, defaults)
=============================================================================
