---------------------------- MODULE MCDatabaseSync ----------------------------
(* Structures, databases and options for the runs of DatabaseSync.         *)
EXTENDS DatabaseSync

TwoTables    == {"t1", "t2"}
ThreeColumns == {"a", "b", "c"}
SomeTypes    == {"int", "bigint", "double", "text", "datetime", "timestamp", Expression}
Families     == [d \in SomeTypes |-> IF d \in {"bigint", Expression} THEN "int" ELSE d]
SomeKinds    == {Plain, Hidden, "(a)"}
SomeOrders   == {"", "general", "unicode"}

AColumn(n)  == [name |-> n, def |-> "int", null |-> FALSE, auto |-> FALSE, gen |-> Plain, coll |-> ""]
AKey(p, cs) == [primary |-> p, cols |-> cs]
Table(cs, ks) == [cols |-> cs, keys |-> ks]

A == AColumn("a")
B == AColumn("b")
C == AColumn("c")
Keyed == {AKey(TRUE, <<"a">>)}

\* One table on each side, the other name taken by none.
One(src, dst) == [d \in Sides |-> [t \in TwoTables |->
                    IF t = "t2" THEN Absent ELSE IF d = "src" THEN src ELSE dst]]

\* The keys two columns can have: at most one primary key, at most one
\* unique key beside it.
Seqs     == {<<"a">>, <<"b">>, <<"a", "b">>, <<"b", "c">>}
KeySets  == {{k \in {AKey(TRUE, p), AKey(FALSE, u)} : k.cols # <<>>} :
               p, u \in Seqs \cup {<<>>}}
Over(cs) == {ks \in KeySets : \A k \in ks : ToSet(k.cols) \subseteq {cs[i].name : i \in DOMAIN cs}}
Several(cs) == {Table(cs, ks) : ks \in {ks \in Over(cs) : Cardinality(KeySeqs([keys |-> ks])) = Cardinality(ks)}}

\* Every two key sets, over columns that are missing, redefined, too many and
\* in another order.
Wide      == [B EXCEPT !.def = "bigint"]
KeyPairs  == {One(s, d) : s \in Several(<<A, B>>) \cup {Table(<<A, B, C>>, Keyed)},
                          d \in UNION {Several(cs) : cs \in {<<A>>, <<A, B>>, <<B, A>>, <<A, Wide>>, <<A, C>>, <<A, B, C>>}}}

\* Every two definitions of a column.
Defs == {B, Wide, [B EXCEPT !.null = TRUE], [B EXCEPT !.auto = TRUE],
         [B EXCEPT !.gen = "(a)"], [B EXCEPT !.gen = Hidden], [B EXCEPT !.def = Expression],
         [B EXCEPT !.coll = "general"], [B EXCEPT !.coll = "unicode"]}
Unique   == Keyed \cup {AKey(FALSE, <<"b">>)}
Other    == {AKey(TRUE, <<"b">>)}
Loose    == {AKey(FALSE, <<"b">>)}
DefPairs == {p \in {One(Table(<<A, s>>, k), Table(<<A, d>>, l)) : s, d \in Defs, k \in {Keyed, Unique, Loose},
                                                              l \in {Keyed, Unique, Other, {}}} :
               IsStruct(p["src"]["t1"]) /\ IsStruct(p["dst"]["t1"])}
              \cup {One(Table(<<A, C>>, Keyed), Table(<<C, A>>, Keyed))}
              \cup {One(Table(<<A, s>>, Unique), Absent) : s \in Defs}

Plainly == [databases |-> "keys", named |-> {}, excluded |-> {}, filtered |-> FALSE, schema |-> TRUE,
            truncate |-> FALSE, ignore |-> {}, tzSwap |-> FALSE, defaults |-> [src |-> "", dst |-> ""], yes |-> TRUE,
            drifts |-> 0, failures |-> 0]

Keys == {[Plainly EXCEPT !.truncate = t, !.failures = 1] : t \in BOOLEAN}

DefSettings ==
  {[Plainly EXCEPT !.databases = "definitions", !.schema = s, !.ignore = i, !.defaults = f] :
     s \in BOOLEAN, i \in {{}, {"b"}},
     f \in {[src |-> "", dst |-> ""], [src |-> "general", dst |-> "unicode"]}}

\* Every two types of a column, as they are compared and altered; of the time
\* types also those that differ in more, beside a column to be added.
Typed     == {[B EXCEPT !.def = d] : d \in SomeTypes \ {Expression}}
Times     == {[B EXCEPT !.def = d, !.null = n, !.gen = g] :
                d \in {"datetime", "timestamp"}, n \in BOOLEAN, g \in {Plain, "(a)"}}
TypePairs == {One(Table(<<A, s>>, Keyed), Table(<<A, d>>, Keyed)) : s, d \in Typed}
              \cup {One(Table(cs, Keyed), Table(<<A, d>>, Keyed)) :
                      cs \in {<<A, s>> : s \in Times} \cup {<<A, s, C>> : s \in Times}, d \in Times}

TypeSettings == {[Plainly EXCEPT !.databases = "types", !.tzSwap = z, !.schema = s, !.failures = 1] :
                   z, s \in BOOLEAN}

\* Two tables that come, go and change while the run works on them.
Small     == Table(<<A>>, Keyed)
Large     == Table(<<A, B>>, Keyed)
Two       == {[d \in Sides |-> [t \in TwoTables |-> IF d = "src" THEN s[t] ELSE r[t]]] :
                s \in [TwoTables -> {Absent, Small}], r \in [TwoTables -> {Absent, Small, Large}]}
NewShapes == {Absent, Small, Large}
Viewed    == [d \in Sides |-> [t \in TwoTables |-> IF d = "src" /\ t = "t2" THEN View ELSE Small]]
Drifting  == [Plainly EXCEPT !.databases = "tables", !.drifts = 1, !.failures = 1]
Scopes    == {Drifting, [Drifting EXCEPT !.yes = FALSE, !.drifts = 0], [Drifting EXCEPT !.filtered = TRUE],
              [Drifting EXCEPT !.excluded = {"t2"}], [Drifting EXCEPT !.named = {"t1"}],
              [Drifting EXCEPT !.schema = FALSE], [Drifting EXCEPT !.drifts = 2, !.failures = 0]}

Initial     == [keys |-> KeyPairs, definitions |-> DefPairs, types |-> TypePairs, tables |-> Two \cup {Viewed}]
AllSettings == Keys \cup DefSettings \cup TypeSettings \cup Scopes
===============================================================================
