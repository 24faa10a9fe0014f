--------------------------- MODULE MCChunkPlanner ---------------------------
(* Keys for the planner's model-checking runs. *)
EXTENDS ChunkPlanner

Key(values, int) == [keys |-> values, intLead |-> int]
Column(values)   == {<<v>> : v \in values}

\* One 3-bit integer column: a signed one, and an unsigned one whose upper
\* half does not fit the planner's signed integers.
Integers == {Key(Column(-4..3), TRUE), Key(Column(0..7), TRUE)}

\* NOT NULL keys: a column that is not an integer, two columns, two columns
\* with an integer lead, and no key at all.
NotNullKeys ==
  {Key(Column(1..4), FALSE), Key({1, 2, 3} \X {1, 2}, FALSE),
   Key({1, 2, 3} \X {1, 2}, TRUE), Key({<<>>}, FALSE)}

\* An explicit --key on nullable columns: one column, or two.
NullableColumn  == {Key(Column({NULL, 1, 2, 3}), FALSE), Key(Column({NULL, 1, 2, 3}), TRUE)}
NullableColumns == {Key({NULL, 1, 2} \X {NULL, 1}, FALSE)}

\* NOT NULL keys of three columns, also with an integer lead.
ThreeColumns == {Key({1, 2} \X {1, 2} \X {1, 2}, FALSE), Key({1, 2} \X {1, 2} \X {1, 2}, TRUE)}
ThreeSampled == {Key({1, 2} \X {1, 2} \X {1, 2}, FALSE)}

AllKeys == Integers \cup NotNullKeys \cup NullableColumn \cup NullableColumns \cup ThreeColumns
=============================================================================
