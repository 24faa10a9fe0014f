---------------------------- MODULE MCTableCompare ----------------------------
(* Key columns, tables and options for the runs of TableCompare.           *)
EXTENDS TableCompare

KeySet == 1..3

\* Key columns: numbers, strings of two collations, of none and of none but
\* BINARY, and ENUMs of two definitions.
Number    == Column("value", "", FALSE, <<>>)
Bytes     == Column("string", "bytes", FALSE, <<>>)
Reversed   == Column("string", Descending, FALSE, <<>>)
Defaulted == Column("string", "", FALSE, <<>>)
Binary    == Column("string", "", TRUE, <<>>)
EnumUp    == Column("enum", "bytes", FALSE, <<1, 2, 3>>)
EnumDown  == Column("enum", "bytes", FALSE, <<3, 2, 1>>)
Columns   == {NoKey, Number, Bytes, Reversed, Defaulted, Binary, EnumUp, EnumDown}

Pair(s, d) == [side \in Sides |-> IF side = "src" THEN s ELSE d]
Rows(f)    == [k \in KeySet |-> IF k \in DOMAIN f THEN f[k] ELSE NoRow]

\* Every two tables with as many rows of one content, and two of as many
\* rows of different contents; a few for the other instances.
Size(t)  == Cardinality({k \in KeySet : t[k] # NoRow})
Simple   == {p \in {Pair(s, d) : s, d \in [KeySet -> {1, NoRow}]} : Size(p["src"]) = Size(p["dst"])}
OneTwo   == Rows(<<1, 1>>)
Changed  == Pair(OneTwo, Rows(<<1, 2>>))
Equal    == Pair(OneTwo, OneTwo)
Few      == {Equal, Changed, Pair(OneTwo, Rows(<<1>>))}

Plain == [key |-> Pair(Number, Number), default |-> Pair("bytes", "bytes"), parallel |-> 1,
          snapshot |-> FALSE, drill |-> FALSE, limit |-> 10, lookup |-> [k \in KeySet |-> k],
          isolation |-> "settable",
          tables |-> Simple, moves |-> 0, faults |-> 0]

\* Any two key columns, on servers of the same default and, where a column
\* leaves its collation to it, of another.
Drift == {[Plain EXCEPT !.key = Pair(a, b)] : a, b \in Columns}
           \cup {[Plain EXCEPT !.key = Pair(a, b), !.default = Pair("bytes", Descending)] :
                   a \in Columns, b \in {Defaulted, Binary}}

\* Other sessions write; with and without a snapshot, on backends that do
\* and do not let the isolation level be set.
Moving == {[Plain EXCEPT !.snapshot = s, !.drill = TRUE, !.isolation = i, !.tables = Few,
                         !.moves = 1] :
             s \in BOOLEAN, i \in {"settable", "fixedRR", "fixedRC"}}

\* Connections are killed, refused, lost in a result: two workers a side and
\* one fault; one worker a side and two faults, with and without a snapshot
\* and a drill-down.
Faulty == {[Plain EXCEPT !.parallel = 2, !.tables = {Changed}, !.faults = 1]}
            \cup {[Plain EXCEPT !.snapshot = s, !.drill = d, !.tables = {Changed}, !.faults = 2] :
                    s, d \in BOOLEAN}
            \cup {[Plain EXCEPT !.tables = {Equal}, !.faults = 2]}

\* Any two tables of rows of one content are drilled into: chunked by the
\* key and not, with a key on both sides and on one, with the keys 1 and 2
\* alike to lookupKey or not, with one example asked for or many.
Folding  == [k \in KeySet |-> IF k = 2 THEN 1 ELSE k]
OneValue == {Pair(s, d) : s, d \in [KeySet -> {1, NoRow}]}
Drilling ==
  LET drill == [Plain EXCEPT !.drill = TRUE, !.tables = OneValue]
  IN  {[drill EXCEPT !.key = Pair(Bytes, k), !.lookup = l] :
         k \in {Bytes, Reversed}, l \in {Plain.lookup, Folding}}
        \cup {[drill EXCEPT !.key = Pair(NoKey, Bytes)], [drill EXCEPT !.limit = 1]}

AllSettings == Drift \cup Moving \cup Faulty \cup Drilling

\* One worker, a killed session and a refused replacement.
LostSettings == {[Plain EXCEPT !.tables = {Changed}, !.faults = 2]}
==============================================================================
