------------------------------- MODULE KeyCompat -------------------------------
(***************************************************************************)
(* internal/conn/keycompat.go: when the key bounds of one side may be used *)
(* to select rows of the other.  A key column is a record of what the gate *)
(* looks at; what the server does with the column (the order of ORDER BY,  *)
(* the order of a comparison in WHERE) is stated beside it, because the    *)
(* gate is right only relative to that.                                    *)
(*                                                                         *)
(* A key value is an integer.  A column is                                 *)
(*   family     "value" (ordered by its value on every server: numbers,    *)
(*              dates, bytes), "string", "enum" (ENUM and SET), "other"    *)
(*   collation  of a string: its name, or "" when none is reported         *)
(*   binary     a string type with the BINARY attribute: byte order        *)
(*   members    of an enum: the values in definition order                 *)
(***************************************************************************)
EXTENDS Integers, Sequences

\* A collation the server applies without reporting it (the backend's
\* default), and the two that columns name: bytes, and one that orders the
\* values the other way round.
Descending == "descending"

Column(family, collation, binary, members) ==
  [family |-> family, collation |-> collation, binary |-> binary, members |-> members]

-----------------------------------------------------------------------------
(* What a server does, by the column's definition.                         *)

Position(seq, k) == CHOOSE i \in DOMAIN seq : seq[i] = k

\* The order of a string's values: its collation's; with none reported it is
\* byte order under BINARY and the server's default otherwise.
StringRank(col, default, k) ==
  LET effective == IF col.collation # "" THEN col.collation
                   ELSE IF col.binary THEN "bytes" ELSE default
  IN  IF effective = Descending THEN -k ELSE k

\* A comparison in WHERE: an enum compares with a string by the collation of
\* the members' names.
WhereRank(col, default, k) ==
  IF col.family \in {"string", "enum", "other"} THEN StringRank(col, default, k) ELSE k

\* ORDER BY: an enum is ordered by the position of the member.
OrderRank(col, default, k) ==
  IF col.family = "enum" THEN Position(col.members, k) ELSE WhereRank(col, default, k)

-----------------------------------------------------------------------------
(* The gate.                                                               *)

\* The two columns sort the same values in the same order, provably.
KeyOrderCompatible(a, b) ==
  /\ a.family = b.family
  /\ \/ a.family = "value"
     \/ /\ a.family = "string" /\ a.collation = b.collation
        /\ a.collation = "" => a.binary /\ b.binary
     \/ a.family = "enum" /\ a.members = b.members

\* The column's ORDER BY and its comparisons agree.
KeyRangeAddressable(col) == col.family # "enum"

KeyRangeChunkable(a, b) ==
  KeyOrderCompatible(a, b) /\ KeyRangeAddressable(a) /\ KeyRangeAddressable(b)
=============================================================================
