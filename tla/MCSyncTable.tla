---------------------------- MODULE MCSyncTable ----------------------------
(* Keys and statements for the model-checking runs of SyncTable. *)
EXTENDS SyncTable

CONSTANTS g1, g2, addColumn, dropIndex

OneGroup      == {g1}
TwoGroups     == {g1, g2}
OneStatement  == {addColumn}
TwoStatements == {addColumn, dropIndex}
JustAddColumn == {addColumn}

\* The same primary key on both sides, and each way it can fall short.
PrimaryKey == [srcKeyed |-> TRUE, dstKeyed |-> TRUE, unique |-> TRUE,
               agree |-> TRUE, ordered |-> TRUE, chunkable |-> TRUE]
Keyless    == [PrimaryKey EXCEPT !.srcKeyed = FALSE, !.dstKeyed = FALSE]
EnumKey    == [PrimaryKey EXCEPT !.chunkable = FALSE]
OtherKey   == [PrimaryKey EXCEPT !.agree = FALSE]
Unordered  == [PrimaryKey EXCEPT !.ordered = FALSE]
AllKeys    == {PrimaryKey, Keyless, EnumKey, OtherKey, [PrimaryKey EXCEPT !.unique = FALSE]}
SomeKeys   == {PrimaryKey, EnumKey, Unordered}

\* The options of a run: every combination, also with a repair that restores
\* a key no chunk can address, or a different one on each side; and those of a run that allows everything.
Setting(filtered, schema, structureTruncate, rowRewrite, repaired) ==
  [filtered |-> filtered, schema |-> schema, structureTruncate |-> structureTruncate,
   rowRewrite |-> rowRewrite, repaired |-> repaired]
EverySetting ==
  {Setting(f, s, t, r, PrimaryKey) : f \in BOOLEAN, s \in BOOLEAN, t \in BOOLEAN, r \in BOOLEAN}
    \cup {Setting(FALSE, TRUE, t, r, k) : t \in BOOLEAN, r \in BOOLEAN, k \in {EnumKey, OtherKey}}
Permissive == {Setting(FALSE, TRUE, TRUE, TRUE, PrimaryKey)}
=============================================================================
