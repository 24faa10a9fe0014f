------------------------------ MODULE MCRowSync ------------------------------
(* Tables, comparison rules and options for the runs of RowSync.           *)
EXTENDS RowSync

\* Normalized keys are ordered as bytes, not as numbers (10 before 9).
ByteOrder(ks) == [k \in ks |-> IF k = Max(ks) THEN 0 ELSE k]

\* Two keys that only the normalizer takes for one.
FoldedKeys(ks) == [k \in ks |-> IF k = Max(ks) THEN 1 ELSE k]

\* Values of the unique column: "a" and "A" are one value to whoever
\* folds.
Exact  == [v \in {NULL, "a", "A", "b"} |-> v]
Folded == [v \in {NULL, "a", "A", "b"} |-> IF v = "A" THEN "a" ELSE v]

\* The plain instance the others are variations of: no filter, nothing
\* allowed, nothing disturbs the run.
Plain ==
  [keys |-> 1..3, uniques |-> {"a", "b", NULL}, payloads |-> {1},
   keyId |-> ByteOrder(1..3), canon |-> Exact, fold |-> Exact,
   keyUnique |-> TRUE, srcUnique |-> TRUE, intLead |-> TRUE, orderKnown |-> TRUE,
   batch |-> 2, maxTracked |-> 20, chunkSize |-> 2, deleteCap |-> 1,
   matched |-> {1}, rowRewrite |-> FALSE, full |-> FALSE,
   maxRows |-> 3, maxMoves |-> 0, maxFailures |-> 0]

\* Three rows over four keys and a nullable unique column, one failing
\* transaction, without and with the two permissions.
Cautious   == [Plain EXCEPT !.keys = 1..4, !.keyId = ByteOrder(1..4), !.maxFailures = 1]
Permissive == [Cautious EXCEPT !.rowRewrite = TRUE, !.full = TRUE]

\* --where selects the payload 1; the source changes under the run.
Where == [Plain EXCEPT !.uniques = {"a", NULL}, !.payloads = {1, 2}, !.chunkSize = 1,
                       !.maxRows = 2, !.maxMoves = 1, !.maxFailures = 1]

\* A key that is not unique, and keys and values that only the normalizer
\* takes for equal.
Loose == [Plain EXCEPT !.uniques = {"a", "A", "b"}, !.canon = Folded,
                       !.keyId = FoldedKeys(1..3), !.keyUnique = FALSE,
                       !.intLead = FALSE, !.orderKnown = FALSE, !.batch = 9, !.chunkSize = 9,
                       !.rowRewrite = TRUE, !.full = TRUE]

\* Chunks of two rows, one of which can leave the source's range after the
\* plan has read it.
Shrinking == [Plain EXCEPT !.uniques = {"a", NULL}, !.maxMoves = 1]

\* The unique index folds what the comparison tells apart.
IndexFolds == [Plain EXCEPT !.uniques = {"a", "A", "b", NULL}, !.fold = Folded,
                            !.batch = 9, !.chunkSize = 9]

\* The normalizer folds what the index and the raw comparison tell apart,
\* over chunks of one row.
Spread == [Plain EXCEPT !.uniques = {"a", "A", NULL}, !.canon = Folded, !.chunkSize = 1,
                        !.rowRewrite = TRUE, !.full = TRUE]

\* The source lacks the unique index and may hold a value twice.
Unguarded == [Plain EXCEPT !.srcUnique = FALSE, !.chunkSize = 1]

\* A permitted run while the source changes and transactions fail.
Moving == [Permissive EXCEPT !.keys = 1..2, !.keyId = ByteOrder(1..2),
                             !.uniques = {"a", "b"}, !.payloads = {1, 2}, !.matched = {1, 2},
                             !.maxTracked = 3, !.chunkSize = 1, !.maxRows = 2, !.maxMoves = 1]

TableSettings == {Cautious, Permissive, Where, Loose, Shrinking, Spread, IndexFolds, Unguarded}
MovingSettings == {Moving}
SpreadSettings == {Spread}
==============================================================================
