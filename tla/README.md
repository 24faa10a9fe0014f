# mtdiff: a TLA+ model of its synchronisation

mtdiff compares a table on two MySQL endpoints (`diff`) and makes the
destination's copy equal to the source's (`sync --apply`).  This directory
holds TLA+ modules that model how it plans, decides, confirms and writes, TLC
runs that check them on small instances, and TLAPS proofs of what matters most
for instances of any size.  The reference is the code under `src/`; `map` in
`PROJECT.json` names the lines every definition stands for.

## 1. The system

| component | state it keeps | operations |
|---|---|---|
| chunk planner, `internal/chunk/plan.go` | none; a plan is a list of key ranges | `Plan`: extremes of the key, then an integer split without queries or a recursive sampling with one query per split point |
| key predicates, `internal/chunk/predicate.go` | none | `Pred` (rows of a chunk), `LessThan`, `GreaterThan` (rows outside a bound) |
| comparison, `internal/compare` | digests per chunk while it runs | counts, plans on the source, scans both sides concurrently with one pinned connection per worker, folds digests to a verdict and the ids of the differing chunks |
| row diff engine, `internal/sync/rows.go` | the rows of one chunk of each side | `Diff` (operations per key group), `crossChunkCheck` (may a value that is about to be written be held outside this chunk?) |
| applier, `internal/sync/apply.go` | one transaction at a time, statistics | `ApplyOps`, `ApplyFull`, `resync`, `execDirect` |
| runner, `internal/sync/sync.go`, `plan.go` | `TableSync`: the plan shown, its destructive scope, the outcome | `PrePass`, `PlanTable`, `ApplyTable`, `ApplyStructureTable`, `convergeAfterDDL`, `applyCreate`, `PlanRowWork`, `ApplyRowWork`, `streamKeyDeletes`, `streamOORDeletes`, `checkState`, `applyState`, `VerifyState`, `ApplyDrop` |
| fingerprints, `internal/sync/fingerprint.go` | the identity of a rewrite group | subset test at apply time |
| structure diff, `internal/sync/struct.go` | none | `DiffStructure`, `RenderDDL`, `RenderCreateTable` |
| connections, `internal/conn/conn.go`, `writer.go` | a control pool of one connection, a scan pool, the write connection | checked checkout (three attempts), replacement of a dead session, session policy before every use |
| schema and key facts, `internal/conn/schema.go`, `keycompat.go`, `compat.go` | none | introspection; are two keys equally ordered and addressable by ranges? |
| normalization and digests, `internal/normalize`, `internal/hash` | none | canonical bytes of a row, 64- or 128-bit digest of a chunk |
| command, `cmd/mtdiff/sync.go` | the plans of all tables | pre-pass, plan, summary and confirmation, apply table by table, verify, exit code |
| configuration, reports, other commands | none | parsing, output |

How they interact.  `syncRunE` calls `PrePass` (a comparison of every table)
and `PlanTable` for each result.  The plan that is shown carries a destructive
scope: may the table be truncated, and which row groups would be deleted and
inserted again.  After the confirmation `ApplyTable` takes nothing from that
plan but the scope; it decides again on the tables as they are, plans the rows
again, compares with the scope, and writes.  All state that lasts is in the two
databases, where other sessions read and write too: no lock is held between
any two statements, and nothing but a single transaction or DDL statement is
atomic.

What is hard:

- every query of the planner, of the row plan and of the apply sees another
  version of the tables, so ranges, extremes, chunk ids and decisions are stale
  when they are used;
- unique indexes reject what comes in the wrong order: swaps, cycles, values
  held by rows of another chunk or outside the source's range;
- three notions of equality meet: raw values, the normalizer's, and the unique
  index's collation;
- keys can be NULL, and a comparison with NULL is UNKNOWN; a comparison of
  three columns is text in which AND binds tighter than OR;
- a statement can fail, or take effect and lose its answer; what was committed
  before stays, and the operator starts another run;
- what the operator confirmed must bound what happens on tables that changed
  after the confirmation;
- two servers may order the same key values differently, and one server orders
  an ENUM in two ways;
- a connection dies at any moment, the pool may hand it out again, and the
  control pool has a single one to wait for;
- a structure is repaired by up to two statements, and what is left after the
  first must still be repairable.

What makes each part correct.  The planner: its chunks are disjoint (they are not
for three key columns), cover what lies between the extremes and are bounded in
number.  The diff and the applier:
no statement is rejected, a committed chunk is final, rows that are equal or
filtered out are left alone.  The row-level sync: an apply that ends without an
error has converged, and repeated runs get there.  The table sync: nothing
destructive outside the confirmed scope, no DDL twice, exit code 0 only for a
converged table.  The comparison: a true verdict or an error, about one moment
of each side with `--snapshot`, and a result whatever dies on the way.  The
sessions: none without its policy, none leaked, none waited for in vain.  The
structure sync and the drops: every repair is one the server accepts, nothing
is lost that was not listed, and a table is dropped only if the source lacks
it.

## 2. The modules

| module | models | extends |
|---|---|---|
| `KeyRange` | predicates in three truth values, the integer splitter in wrapping unsigned arithmetic of range `2 * Half` | |
| `KeyRangeProofs` | theorems about the order of keys, the predicates and the integer splitter | `KeyRange`, `TLAPS` |
| `ChunkPlanner` | `Planner.Plan`, one action per query, `Change` by other sessions | `KeyRange` |
| `ChunkPlannerProofs` | theorems about `ChunkPlanner` | `ChunkPlanner`, `KeyRangeProofs` |
| `RowDiff` | the operators of `rows.go` and of `runOpsGroup`; no state | `KeyRange` |
| `RowSync` | comparison, row plan, apply, escalation, rerun of one table | `RowDiff` |
| `RowSyncProofs` | theorems about the types, the filter and the equal rows of `RowSync`, lemmas about `Diff` and `RunOps` | `RowSync`, `KeyRangeProofs` |
| `RowCommitProofs` | theorems about what a plan's chunks cover and what a chunk's transaction commits | `RowSyncProofs` |
| `RowConvergeProofs` | theorems about the convergence of a run and of a chunk | `RowCommitProofs` |
| `SyncTable` | pre-pass to exit code of one table, all four paths of `ApplyTable` | |
| `ConfirmedScope` | the abstract promise of a confirmation | |
| `SyncTableProofs` | theorems about `SyncTable` | `SyncTable`, `TLAPS` |
| `KeyCompat` | `keycompat.go`, beside the orders a server gives key values; no state | |
| `ConnPool` | the pools, sessions and replacement of dead ones, with the server's failures | |
| `TableCompare` | the comparison of one table: main program and the workers of both sides | `ConnPool`, `KeyCompat` |
| `TableCompareProofs` | theorems about the sessions of `TableCompare`, about what killed, refused and broken connections do to it, and about its verdicts | `TableCompare`, `TLAPS` |
| `StructSync` | `DiffStructure`, `RenderDDL`, and what a server does with an ALTER; no state | |
| `DatabaseSync` | the sync command over several tables, down to their structures | `StructSync` |
| `DatabaseSyncProofs` | theorems about `DatabaseSync` | `DatabaseSync`, `TLAPS` |
| `MCChunkPlanner`, `MCRowSync`, `MCSyncTable`, `MCTableCompare`, `MCDatabaseSync` | values for the constants | |

**KeyRange, ChunkPlanner.**  A key is a tuple of integers and NULLs.  `Pred`
is not rendered but evaluated: AND is the minimum and OR the maximum of FALSE <
UNKNOWN < TRUE, and a row is selected when the value is TRUE.  What is kept of
the text is its grouping: `RowTerms` builds a row comparison column by column as
`rowCompare` and `strictCompare` do, where the text of the next column's term is
inlined without parentheses, so that AND takes the first alternative of it and
leaves the rest to stand by itself.  Two columns are unaffected; three are not
(finding 2).  In `ChunkPlanner`
the recursion of `planSample` is the variable `work`, a stack of intervals; its
actions are `Plan`, `ReadMin`, `ReadMax` (which runs `planInt` too), `Split`
(one call of the recursion with its one query), and `Change`.  The values of an
unsigned column are naturals beyond `MaxInt`, and converting one wraps, as in
the code.

**RowDiff, RowSync.**  A row is `[k, u, p]`: key, a column with a unique index,
and the rest.  `KeyId` and `Canon` are what the normalizer makes of a raw value,
`Fold` what the unique index compares.  `Diff`, `CrossChunkCheck` and `RunOps`
translate the functions of the same names, with the order of the operations and
of the statements.  The phases of `RowSync` follow the calls: `Compare`;
`Plan`, `ReadExtremes`, then for each chunk `ScanSource`, `ScanDestination`,
`CheckHolders` (`PlanRowWork`); `StartApply`, `DeleteOutOfRange`, `ApplyGroup`,
`FinishApply` (`ApplyRowWork`); `PlanStreamDeletes`, `StreamDeletes` for a
source without matching rows; `Truncate`, `PlanLoad`, `StreamChunk`,
`FinishLoad` (`ApplyFull`); `Verify`.  `Escalate` is what `ApplyTable` makes of
a plan that cannot be row-level.  The row count that decides between no chunk
and the stream of deletes is read in the same step as the plan.  `Transaction`
commits, is rejected, or fails with its effect in place or not.  The
comparison here is atomic and the destination is written by the run alone.

**SyncTable.**  The rows are reduced to facts: they are equal, the groups a row
plan would rewrite (`hot`), a cross-chunk conflict (`cross`), stale chunk ids
(`stale`).  Structure is the set of DDL statements that are `missing`, the
counter of AUTO_INCREMENT its order relative to the source's, and `key` the
verdicts of the key functions.  `Decision` is `planDecision`, `DecidePlan` the
function of that name, `PlanFor` the plan `PlanTable` shows.  `ApplyTable`
chooses a path; the structure path is `ExecDDL`, `Fallback`, `ReplanDDL`,
`ExecutedDDL`, `Recompare`, then `PlanRows` or `LoadGate`.  `Statement` gives
every write its three outcomes.  `Drift` lets another session change one thing:
the destination's existence, the structure and key, the rows, the counter.  The
reads within `planDecision` are one step, as are those of `PlanRowWork` before
its gate; both are followed by a step in which the tables can change before the
result is used.  An ALTER can change rows in any way (a new column has to be
filled), TRUNCATE resets the counter.

**ConfirmedScope** has a confirmation that grants a TRUNCATE or not and a set
of groups, and actions for exactly those.  `SyncTable` implements it under the
mapping `Scope`.  The mapping states what a confirmation really grants: besides
what the plan showed, `--allow-structure-truncate` grants a TRUNCATE (the
summary announces it), and with the structure sync on, a plan that showed one
rewrite grants the rewrites of any group, which is finding 4 below.

**KeyCompat.**  A key column is what the gate looks at: family, collation,
BINARY, members.  `OrderRank` and `WhereRank` say how a server orders the
column's values in ORDER BY and compares them in WHERE; the gate
(`KeyRangeChunkable`) is right only relative to those.

**ConnPool, TableCompare.**  A slot is a physical connection, a handle a
variable of the program that holds a session.  A killed connection is reported
as dead once or twice (`AfterFailure`), because the driver's first error leaves
it in the pool; `checkoutChecked` is `Checkout`, `InitSession` and `AfterDead`,
`ControlQueryer` is `Swap` and `QueryFails`.  Which idle connection a checkout
takes is open between connections in different states; of those in the same
state it is the first (`Distinguishable`), which loses nothing.  `TableCompare` runs on those
sessions: the phases of `compareTable` (schemas, snapshots, counts, plan), one
action per step of a worker of `scanSide` (`TakeJob`, `ScanChunk`, `Rescan`,
`FailWorker`, `CancelWorker`, `ReplacementFails`, `FinishWorker`), `Fold`, the
drill-down, and the deferred closes.  Of the drill-down everything is there that
decides whether a difference is shown: which chunks are read, on which session,
the first `DrillMaxRows` rows kept (`Buffers`), what a row is found by on the
other side (`Identity`: its key with long strings shortened, the constant
function `lookup` of the setting, or the whole row when a side has no key), the
first row of an identity standing for all of them (`Kept`), the pairing
(`Examples`) and the limit (`Enough`).  Rows of one side are never equal here,
so the multiplicities of a table without a key are 1.  A chunk holds the rows of one source key;
its rows are read by `WhereRank`.  `Digest` is the set of rows together with the
pairs of which the first is read before the second (`OrderRank`); the digest of
a whole-table chunk, a multiset hash, has no pairs.  A plan is any sequence of
chunks in the source's key order, and the chunks still to scan are a set: the
workers take them in any order.  In a snapshot the
statements read what the transaction saw when it began, unless the backend runs
READ COMMITTED.  More happens in the model than in the code where it does no
harm: a plan of an empty source still asks the control session, a
transaction's view is fixed at its begin also where the server fixes it at the
first read.

**StructSync, DatabaseSync.**  A structure is a sequence of columns and a set of
primary and unique keys.  `Changes`, `RenderDDL`, `Visible` and `Destructive`
translate the code; `Altered` and `Rejected` are the server.  `IsStruct` is what
a server's tables are, in the databases a run starts with and in what other
sessions make of them: column names differ, a key has columns and they are the
table's, there is one primary key at most and its columns are NOT NULL, there is
a column, and an AUTO_INCREMENT column leads a key.  The server keeps it so: it
makes the columns of a primary key NOT NULL whatever their definition says (the
code writes `NOT NULL` or nothing, `renderColDef`, which the server takes for
that), and rejects a statement whose result is `Impossible`.  `Repairable` names
the pairs of structures the code can repair, and each of its conjuncts is a
limit of the code listed in section 5.  `Mendable` adds that no key is out of
sight behind an ignored column (`InSight`).  `Mirrored` compares columns by
position, and by name under `--ignore-columns`, as the pre-pass does.  `DatabaseSync` is `syncRunE`: listing
(`ListSource`, `ListDestination`), the pre-pass (`CompareTable`), the preflight
(`PlanTable`, with `Decide` for `planDecision`), `Confirm`, then table by table
`StartTable`, `ExecStatement` or `FailStatement`, `Replan` (the TRUNCATE of
`--allow-structure-truncate`), `Converge`; then `StartDrop`, `ProbeSource`,
`ProbeDestination`, `DropTable`, `CheckDropped`; then `Verify`, whose queries can
fail too, with the exit code.  `Comparable` is `Compatible`: names by position
and, by `CompatibleCol`, type families that can be compared, a DATETIME beside a
TIMESTAMP only with `--allow-tz-swap` (`tzSwap`).  The constant `Family` gives
each column definition its family; such a pair (`TimePair`) is never a drift to
`ColDiffers`, whatever else the two columns disagree in.  Every query can fail, every statement can fail or take effect and lose
its answer, and `Drift` creates, alters or drops a table on either side between
any two steps.  Rows are left to `RowSync` and `SyncTable`: here tables whose
structures can be compared have equal rows.  The tables are worked on in a fixed
order, as in the code.

## 3. The runs

| run | instance | checks |
|---|---|---|
| `planner_moving` | 3-bit integers; signed, unsigned, non-integer, two-column, three-column, nullable and no keys; 3 rows, counts to 5, chunk size 1, one change by another session | `TypeOK`, `NoOverlap`, `NoGap`, `ChunksInKeyOrder`, `OutOfRangeIsOutsideSpan`, `PlanIsBounded` |
| `rowsync_tables` | every pair of tables of up to 3 rows over 4 keys and `u` in {a, b, NULL}, cautious and permissive options, one failure; a key that is not unique, with two raw keys that normalize to one and unique values the normalizer folds; `--where` for one of 2 payloads with one write to the source anywhere and one failure, pages and chunks of one row; chunks of two rows with one write to the source; an index that folds values, a normalizer that folds them over chunks of one row, and a source without the index | `TypeOK`, `OnlyFoldsAreRejected`, `AppliedIsConverged`, `ChunkCommitConverges`, `EqualRowsStay`, `FilterRespected` |
| `rowsync_moving` | 2 keys, 2 payloads, one write to the source anywhere, one failure, reruns; permissive options; chunks of one row; at most 3 tracked values | `EventuallyConverged` |
| `sync_apply` | all 16 combinations of the four options, a repair that restores an ENUM key, and one after which the sides select different keys; 2 groups, 2 statements, one drift and one failure anywhere | `TypeOK`, `ScopeRespected`, `FilteredKeepsTable`, `NoReplay`, `NoReplanUndisturbed`, `ExitIdenticalMeansConverged`, refinement `ScopeSpec` |
| `sync_rerun` | permissive options, one drift, one failure, reruns | `EventuallyConverges` |
| `compare_scan` | 8 x 8 pairs of key columns on servers of one default collation and, where the destination column leaves its to it, of another, tables of up to 3 rows; one write by another session anywhere with and without a snapshot on three kinds of backend, drilled down; two workers a side with one fault, one worker with two faults (kills, refusals, broken results); drill-downs with keys on both sides or one, in one chunk or several, keys that are alike once shortened, 2 rows kept, a limit of one example or many | `TypeOK`, `NoUnguardedSession`, `NothingLeaks`, `VerdictIsTrue`, `SnapshotVerdictIsTrue`, `DrillShowsDifference`, `BlamedSideFailed`, `OneKillSurvived`, `AllReturned`, `Terminates` |
| `database_sync` | every small set of keys over columns that are missing, redefined, too many or in another order, with one failure; every pair of nine column definitions with and without an ignored column and default collations; every pair of column types with and without `--allow-tz-swap`, DATETIME beside TIMESTAMP also where NULL or generation differ, with one failure; two tables that come, go and change on both sides, seven combinations of scope options and faults, up to two drifts, one failure, reruns | `TypeOK`, `ExitZeroMeansMirrored`, `RepairIsAccepted`, `LossWasShown`, `DropsOnlyLacked`, `RepairStaysRepairable`, `EventuallyMirrors` |
| `planner_null_gap`, `planner_in_range`, `rowsync_spread`, `sync_unconfirmed`, `compare_nil_close` | see the findings | one property each, violated: `NoGapAtNull`, `InSpanIsKept`, `NoDuplicateKey`, `OnePromiseIsKept`, `OneResultPerTable` |

Why the bounds are enough.  The planner's arithmetic has its corners at the
ends of the integers and at spans of all of them: with 3 bits each end is a
value of the instance, as are unsigned values with the top bit set; `MaxN` is
the limit of 2^31 chunks in small.  Three rows give empty, single and split
intervals on both sides of a split point, and counts that are above and below
the real number of rows.  Three key columns are the fewest whose terms nest
twice, and two values a column are enough for a key to meet the inner term while
it misses the outer one.  A swap needs two rows and a cycle three; a holder in
an earlier and in a later chunk and one outside the range need four keys.
`Batch`, `DeleteCap` and `ChunkSize` of 1 or 2 let every full and short batch
and page occur, and `MaxTracked` 3 is exceeded.  A write to the source meets
chunks of two rows, because a row of a planned chunk that then leaves the
source's range is deleted by the pass before it: the chunk does not get it
back, which `ChunkCommitConverges` leaves out.  With a write it also asks that
the normalizer tell the keys apart (`KeysTold`): of two raw keys that normalize
to one the pass may have deleted only the other.  `ByteOrder` sorts the keys
differently from their numbers, because groups run in the order of normalized
bytes while chunks run in the order of the server.  In `SyncTable` one drift
and one failure can meet at any two steps; a second one only repeats a
situation that is initial for another run.  In `TableCompare` three keys are
the fewest on which two orders can agree at the ends and differ between them;
two faults are a kill and the loss of its replacement, and two workers a side
with two chunks have one worker finish while the other rescans.  In
`DatabaseSync` up to three columns and two keys give every way a key can meet a
column that is added, dropped or redefined; two tables are what the order of
tables, drops and results needs, and a drift can meet any two steps.

Deadlock is not checked: a run ends (`done` and `identical`, `converged`,
`ended` with exit code 0 or 3, a comparison with its result), and a planner
without rows stops in `error`.  That nothing hangs before that is
`Terminates`.  No state constraint and no symmetry
is used; every bound is a constant in a guard or in `Init`.

Fairness.  `WF(Step)`: the program's own next step is taken, it has one thread
of control and every query returns or fails.  `WF(Rerun)`: an operator whose
run did not end with exit code 0 starts another.  `SF(Confirm)` in `SyncTable`:
an operator who is asked again and again does not decline for ever.  Moves,
drift, failures and `Decline` have none.  The liveness properties need all
three: without them an operator may give up, which refutes nothing.
`TableCompare` has `WF(Step)` only: the whole program, not each worker, and
`Terminates` is as strong under it because every step uses up something finite.
`DatabaseSync` has `WF(Step)` and `WF(Rerun)`, and `EventuallyMirrors` is stated
for confirmed runs (`--yes`).

Each property of a passing run has a mutant in `PROJECT.json`: an operator of
the model with a plausible defect (`HalvesSwapped`, `SwapAcquireFirst`,
`LoadUngated` ...) under which the same run reports that property violated.
The mutated forms stand before the definitions they mutate and are used by
nothing.

## 4. What is proved

Every theorem is about all values of the constants; the assumptions are those
the modules state (`NullAssumption`, `HalfAssumption`, `PlannerAssumption`,
`KeyAssumption`, `RowAssumption`, `SyncAssumption`, `PoolAssumption`,
`CompareAssumption`, `SyncTableAssumption`, `StructAssumption`,
`DatabaseAssumption`), which say no more than what type each constant has, that
there is at least one key, worker and row per chunk, that structures are
`IsStruct`, and what is said under row-level sync below.  The invariants of
`SyncTable`, of `RowSync` and of the verdicts were checked by TLC on the
instances of their runs before they were proved.

**Keys and planner** (`KeyRangeProofs`, `ChunkPlannerProofs`).  Values are any
integers and NULL, and the splitter has any width.  Keys have any number of
columns where the code's predicates allow it, and each statement says where
not: from three columns on a predicate selects everything it should and more
(finding 2), so what says that nothing more is selected is stated for at
most two columns, or for ranges of the lead column.

- `OutOfRangeSelects`, `SelectsSingle`, `SelectsComposite`: what the rendered
  predicates select.  `RowTermsTrue` says of the nested terms, with their
  missing parentheses, that they are true where the columns agree up to one
  whose strict term holds, or all but the last agree and its term holds
  (`Decided`), whatever the number of columns, and for at most two columns
  nowhere else.  A key beyond the bound is decided by the first column in which
  it differs.  The
  other defect, for any number of columns: the upper bound of a composite key
  loses a key with a NULL (finding 1).
- `IntRangesDisjoint`, `IntRangesCover`: the ranges of the integer splitter in
  its wrapping unsigned arithmetic.  They do not overlap even if the minimum
  was read after the maximum had sunk below it.
- `PlanHasNoOverlap`, `PlanHasNoGap`, `PlanIsInKeyOrder`, `PlanOutOfRange`,
  `PlanStaysBounded`, `PlanTypes`: the invariants of the run `planner_moving`.
  The inductive invariant `PlanInv` looks at the chunks emitted and at the
  intervals still on the stack as one chain of cuts: emitting an interval leaves
  the cuts as they are, splitting one adds a cut between its two ends
  (`Joined`; for at most two columns also `Rising`).  That the cuts rise does not
  depend on the rows: a split point comes from a row the predicate of its
  interval selects, so it lies inside, and no change by another session can
  disturb it.  From three columns on it need not lie inside.  `PlanHasNoGap` does
  without `Rising`: the chunk that ends at the first cut not below
  a key starts below it and selects it.  `Budget` bounds the chunks by the rows handed down.

**Comparison** (`TableCompareProofs`).  Any number of workers, keys, tables, key columns,
settings and faults.

- `PoolsCorrect`, `PolicyCorrect`: `NothingLeaks` and `NoUnguardedSession`.
  The two hold together (`PoolInv`): that a session which is closed, failed or
  still to be checked out has no slot is what makes reusing its name sound, and
  that a session has at most one slot makes the policy applied on that slot the
  policy of everything it does.  One lemma per operation of `ConnPool` says
  that it keeps `PoolInv` and touches one session only.
- `ReturnCorrect`: `AllReturned`.  `HeldByUsers` says who may hold a session in
  each phase, `SnapshotCourse` that with a snapshot only the first worker of a
  side runs.  A run that panics (finding 5) is not done and gives nothing back.
- `BlameCorrect`, `KillSurvived`, `TypeCorrect`: `BlamedSideFailed`,
  `OneKillSurvived`, `TypeOK`.  `FaultInv` counts: a dead or discarded connection
  and a failed session stand for a fault on their side.  While there has been
  at most one fault in all and it was a kill (`Calm`), `OneDead` follows that
  one connection: it is the only dead one, no open session is on it once it has
  been reported, and no session has spent its three attempts.
- `VerdictCorrect`, `SnapshotCorrect`, `DrillCorrect`: `VerdictIsTrue`,
  `SnapshotVerdictIsTrue`, `DrillShowsDifference`.  Three invariants: what is
  read stands still, because nobody writes or because the snapshots have been
  taken (`StillInv`); every chunk of the plan is waiting, with a worker, or
  digested, so a side that finishes without an error has all digests
  (`ScanInv`); and each digest is that of its rows (`DataInv`).  That equal
  digests then mean equal tables is where the gate of `KeyCompat` is used: the
  sides order the keys alike, so they read them in the same chunks.  For
  `DrillCorrect` a row that one side has and the other lacks is followed through
  the buffers: it is kept, or the cap has cut its side; it is the row of its
  identity, or another row of the chunk has the same; and then the other side
  keeps a different row there, or none (`KeptIs`, `ExampleIs`).

**Row-level sync** (`RowSyncProofs`, `RowCommitProofs`,
`RowConvergeProofs`).  Tables of any size over finite sets of
keys of one column and values, any normalizer, collation, batch, cap and chunk size, key
unique or not, any options, failures and moves.  `RowAssumption` says that the
sets are finite (a column's type is) and `SyncAssumption` that a filter comes
with a unique key, the gate of `DecidePlan` (`plan.go:79`), and that the key of
an integer column has the column's values.  `MaxN` is at most `Half`, as in the
code (`plan.go:220`).

- `RunOpsOK`, `RunOpsKeep` and `DiffOps` are what the theorems rest on.  The
  fold of `RunOps` is unrolled once into the sequence of its states
  (`FoldOps`), over which an invariant of the transaction goes step by step:
  the table stays one the index accepts, rows whose key no op addresses stay,
  and nothing but rows of the match set comes in (`TxOK`).  A row with its
  delete ahead of its insert is in the table, in the batch, or still to come
  (`InPlace`, `Comes`).  `DiffOps` says of the ops of a chunk that they address
  keys of its destination rows and write rows of its source, and, unless the
  chunk is hot, that a row the two sides share survives them (`Plans`).
- `TypeCorrect`: `TypeOK`.
- `FilterCorrect`: `FilterRespected`.  `RowInv` says that all that is planned,
  the chunk in hand, the chunks waiting and the keys to delete, addresses
  `SafeKeys`, the keys that no row outside the filter has.  The set never
  changes, since those rows never do.
- `EqualRowsCorrect`: `EqualRowsStay`.  `QuietInv`: the plan is of the source as
  it still is, the extremes too, the full resync is never entered, and the rows
  of the source survive every planned chunk.
- `PlanChunksIs`: the chunks of a plan tile the span of its rows (`Tiles`).
  The recursion of `Sampled` is unrolled by the number of rows of an interval
  (`SplitUpTo`); the integer splitter comes from `IntRangesDisjoint` and
  `IntRangesCover`.
- `ChunkSame`: what `Diff` and `RunOps` do together.  `RunOpsResult` says which
  rows a transaction leaves that is not rejected: those whose key no op
  addresses, and those written by an op and not addressed by a later one.
  `DiffGroups` says that each key group is untouched, replaced (its deletes
  before its inserts, in a hot chunk with other groups between them) or updated
  once.  Group by group (`SameByGroup`), and by a count of canonical rows that
  is the code's multiset comparison (`SameIs`), the chunk equals the source's.
- `AppliedCorrect`, `ChunkCorrect`: `AppliedIsConverged` and
  `ChunkCommitConverges`.  Two invariants.  `PlanInv` holds under any writes to
  the source: the chunks to scan and the planned ones have no key in common;
  each planned chunk still has, in the destination, the rows it was planned
  against, less those the pass over the rows out of range has taken
  (`WorkFits`); and that pass has left nothing behind its cursor (`CursorOK`).
  From it a chunk that commits equals what the plan read.  `StillInv` is for
  a run whose source nobody writes to: every chunk of the plan is still to do,
  planned, or settled (`PlanCovers`), from the ids the comparison reported
  (`Reported`) to the last commit; no matching row is left outside the span once
  the pass is done (`OneSpan`); and the other two ways to write, the batched
  deletes (`Emptied`) and the load (`Loaded`), have accounted for every row.
  The first form of `ChunkCommitConverges` could not be proved because it is
  false without `KeysTold`; TLC shows it with two raw keys that normalize to one.

**Table sync** (`SyncTableProofs`).  Any groups, statements, key facts and
settings, any number of failures and of changes by other sessions.

- `TypeCorrect`: `TypeOK`.
- `ScopeCorrect`: `ScopeRespected`.  It is not inductive: a TRUNCATE is guarded
  where the phase is chosen, steps before it runs.  `ScopeInv` says what each
  gate has established while its consequence is still to come.
- `ScopeImplemented`: `Spec => ScopeSpec`, the refinement of `ConfirmedScope`:
  initial states map to the idle state, and every action maps to one of its
  actions or a stutter (`ScopeStep`), with `Course` tying the phases to the
  status and the scope.
- `FilterCorrect`, `ReplayCorrect`: `FilteredKeepsTable`, `NoReplay`.
- `ExitCorrect`: `ExitIdenticalMeansConverged`, over any number of runs.
  `ExitInv` says what a run that nobody disturbs knows of the tables: the
  verdict of the pre-pass is true until the first write (`VerdictHolds`), the
  statements still to execute are those still missing (`DDLRemains`), and a
  table is skipped or handed to the state path only when nothing is left to
  write (`OutcomeHolds`).
- `ReplanCorrect`: `NoReplanUndisturbed`.  `ReplanInv` compares the confirmed
  plan with the decision: until the first write they are the same function of
  the same tables (`PlanHolds`, `PlainPlanHolds`); behind a structure repair the
  key is the repaired one, of which the plan predicted the mode
  (`RepairPredicted`, `RepairHolds`); a created table is empty, so nothing has
  to be rewritten (`CreatedEmpty`).  The attempt to prove an earlier form failed
  for a reason in the code: see section 5, the keys a repair leaves.

**Database sync** (`DatabaseSyncProofs`).  Any tables, structures, databases
and settings.

- `TypeCorrect`: `TypeOK`, through `TypeInv`, which adds what step may be
  current in which phase and that a statement list has the shape of its step.
- `DropsCorrect`: `DropsOnlyLacked`.  `DropOK` says that once confirmed,
  `lacked` contains what the source lacks, and that the table being dropped has
  been in it since the first probe.
- `NothingLeft`, `FirstAccepted`, `MendsKept`: the structure diff and the server
  together, for structures of any columns and keys.  The columns `AtPositions`
  selects and those `FoldLeft` inserts are described once, by the columns a name
  has and the order the names come in (`AlteredFacts`); the fold is unrolled
  into the sequence of its states.  From that: the first statement makes every
  difference of the columns and the keys it may (`FirstFacts`), the difference
  that remains is exactly the second statement (`RestFacts`), and without a
  statement the structures agree.  New columns are put after a column that is
  there because they come in the source's order and the columns both sides have
  keep theirs.
- `RepairableStays`, `RepairAccepted`: `RepairStaysRepairable` and
  `RepairIsAccepted`.  `StructInv` says that the databases hold structures
  (`DbOK`) and that the statements in hand are those of some plan (`DdlOK`).
  `CalmInv` is for a run nobody disturbs: the source is as it was; a table not
  yet worked on is (`UntouchedOK`); what can be repaired stays so (`KeepsOK`,
  which is `RepairStaysRepairable` for every table at once); and the statements
  in hand are what remains to be done on the table as it is (`WorkOK`), also
  after one that failed or lost its answer and was planned again.
- `LossesShown`: `LossWasShown`.  `PlansInv` compares with the plan that was
  shown: until a table is worked on the plan decided again is the one shown
  (`StillDecided`), and a table that differs from what it was has been altered
  by statements that drop what that plan drops, and no more (`WorkShown`,
  `ChangeShown`).  A later plan can drop nothing new, because the structure it
  starts from differs from the source only by what the second statement holds.
- `ExitZeroMirrors`: `ExitZeroMeansMirrored`.  `DoneInv` keeps the book of a
  whole-database run: what the listings found (`ListOK`), that a comparison
  which succeeded is still true of a table not worked on (`ComparedTrue`), and
  that a table reported as applied or skipped is mirrored, or one of the
  exceptions (`DoneTrue`).  The third exception, a DATETIME/TIMESTAMP pair, is
  inside `Mirrored`: such columns are aligned because `colDiffers` compares
  nothing of them, and a comparison that let them pass shows that
  `--allow-tz-swap` was given.

Two of these could not be proved as they were first stated, because the model
was wrong: structures no server can have were among the inputs, and the server
gave a primary key a nullable column.  With `IsStruct` and `NotNull` the second
exception of `ExitZeroMeansMirrored` appeared, which section 5 describes.

Only model-checked:

- liveness (`EventuallyConverged`, `EventuallyConverges`, `Terminates`,
  `EventuallyMirrors`), out of the provers' reach under fairness;
- `OnlyFoldsAreRejected` of `RowSync`, what is left of `NoDuplicateKey`: that is
  false where the normalizer folds values and the plan has several chunks
  (finding 3) and where the index folds them (section 5), and checked in every
  other case the settings of the run can be in.

Where an argument by induction was needed (columns of a key, cuts of a plan,
ranges of the splitter, columns a statement adds) it takes the least element of
a set of numbers instead, which the provers can do.

## 5. Findings

1. `planner_null_gap`.  The upper bound of a composite key leaves out a row
   with NULL in a column (`predicate.go:177`): the value is UNKNOWN on both
   sides of the OR.  The row is compared by neither side and never synced.
   Reachable with an explicit `--key` on nullable columns.
2. `planner_in_range`.  `strictCompare` inlines the text of the next column's
   term without parentheses (`predicate.go:283`), and so do `rowCompare`
   (`predicate.go:200`) and the cursor of the pages (`sync.go:1363`).  For three
   columns the server evaluates
   `k1 < ? OR (k1 = ? AND k2 < ?) OR (k2 = ? AND k3 < ?)`: keys between the
   extremes count as outside of them, and the pass over the rows out of range
   deletes rows of the destination the source has.  With extremes (1, 2, 2) and
   (2, 2, 2) the row (2, 2, 1) is below `k2 = 2 AND k3 < 2`.
3. `rowsync_spread`.  A holder in an earlier chunk whose source value differs raw
   from the one written is passed as safe: "that chunk's write removes the
   value, so the slot is safe" (`rows.go:849`).  If its row is equal once
   normalized (trimming, case folding, the float tolerance:
   `normalize/value.go:206`) that chunk never writes it, and the insert is
   rejected, on every run.
4. `sync_unconfirmed`.  The apply decides a table again and goes beyond what was
   shown in two ways.  The DDL it executes is never compared with the DDL that
   was shown (`sync.go:2253`); and behind a structure repair the gate on rewrites
   asks whether the confirmed plan had any, not which (`sync.go:1800`), against
   the promise at `sync.go:80`.  One drift after the confirmation is enough for
   both, and the run's trace shows them in one apply.
5. `compare_nil_close`.  A worker whose dead session cannot be replaced has a
   nil connection, and its deferred `Close` panics (`comparer.go:367`): the
   process ends without a result for the table.  The row plan has the same
   shape (`sync.go:914`).

Divergences observed while modelling and not given a run of their own:

- the chunks of a sampled key of three columns overlap, against "an exact
  partition with no overlap and no gap" (`plan.go:300`): the cause is that of
  finding 2, in `rowCompare`.  Both sides read the same chunks, so a verdict
  stays right; a row plan has the row in two chunks.  `ExactRanges` is the
  exception in `NoOverlap` and `ChunksInKeyOrder`;
- a holder in an addressed group is passed as safe (`rows.go:593`) although an
  update deletes nothing.  With a unique index that folds values (any
  case-insensitive collation) a plan that passed the checks is rejected with a
  duplicate key, and so is its repetition: `NoDuplicateKey` is false in the
  setting `IndexFolds` as well, and `IndexTells` is the exception in
  `OnlyFoldsAreRejected`;
- the drill-down finds rows by their keys with long strings cut to 77 bytes
  (`drilldown.go:222`), keeps one row of each and does not count the others: two
  long keys that begin alike hide a missing row, and a differing chunk gives no
  example (`Collapsed`, the exception in `DrillShowsDifference`);
- a NULL split point of a single nullable column makes a chunk unbounded above
  (`predicate.go:79`; `NoOverlap` excludes it by name);
- values that fold are not seen to be written twice by the source
  (`rows.go:873`);
- a DATETIME column facing a TIMESTAMP one is no drift (`struct.go:142`), whatever
  NULL, default or generation of the two: with `--allow-tz-swap` a whole-database
  run exits with 0 and leaves the types as they are (the third exception in
  `ExitZeroMeansMirrored`); without it the comparison refuses the table
  (`compat.go:61`) and the structure sync has nothing to repair, on every run
  (`Possible`);
- a single ALTER whose answer is lost is reported as rolled back
  (`sync.go:1685`), and inserts are credited before their transaction commits
  (`apply.go:400`);
- a primary key that moves is rejected by the server ("Multiple primary key
  defined") on every run when its drop is put off to the second statement
  because its column is redefined, or when it is kept because the source has a
  unique key of the same columns, which `indexKey` does not tell apart
  (`struct.go:98`, `struct.go:461`).  With `--allow-structure-truncate` the table is emptied
  first and fails again.  `PrimaryStays` leaves both out;
- the comment of `RenderDDL` says the drop of an index "confined to columns that
  are themselves dropped" is left out (`struct.go:430`), but `refsAny` leaves it
  out when any column is dropped: a composite key that loses one column is
  shrunk by the server and stays, and the run exits with 0
  (`NoKeyShrinks`; the first exception in `ExitZeroMeansMirrored`);
- the order of columns both sides have is never compared with names in mind nor
  repaired: the comparison refuses such a table on every run (`OrderAgrees`);
- an AUTO_INCREMENT column is redefined before the key it needs, which was put
  off (`AutoIsKeyed`);
- a column that is nullable on the source and in the destination's primary key:
  the column is redefined while that key is there, with a definition that says
  nothing of NULL (`renderColDef`), so the server keeps it NOT NULL without an
  error.  If the key then goes the run exits with 0 and the next one finds the
  difference; if the source has a unique key of the same columns the primary key
  stays, and no run removes the difference (`PrimaryNotNull`; the second exception
  in `ExitZeroMeansMirrored`);
- a source view with the name of a destination table: `ListBaseTables` leaves
  views out and `TableExists` counts them, so the table is listed as extra and
  its DROP refused on every run (`Possible`);
- a table whose preflight failed is altered by the apply all the same, which is
  finding 4 and the exception in `LossWasShown`;
- the keys a repair leaves: `indexKey` compares keys by their columns, so two
  structures agree that have the same two unique keys and make a different one
  the primary key.  The mode shown for a structure repair is predicted from the
  source's key (`sync.go:2024`, "the prediction must match what the apply
  re-decides"), while the apply finds that the sides select different keys and
  needs the full resync; the load gate stops the table with nothing truncated
  (`sync.go:1824`), and the next run shows the full plan.  `RepairAgrees` is the
  exception in `NoReplanUndisturbed`;
- `normalizeIntType` takes `int(10) unsigned zerofill` for `int`: the drift to
  and from `unsigned` is not seen there (`struct.go:247`).

## 6. What is not modelled

SQL text, literals and byte limits of a statement; composite unique
constraints of the rows; foreign keys and triggers; formats of values (only that a
normalizer may identify some); `--strict`; collisions of digests; progress and statistics;
configuration, reports and the read-only commands, which keep no state.  Of the
schema queries only what they return is modelled, not their SQL nor the parsing
of types and of SHOW CREATE TABLE.  The write connection has no session model
of its own: it is the same checked checkout, and what a dead one does to a
statement is a failure, or a lost answer, of the modules that write.  Writes of
other sessions to the destination's rows occur in `SyncTable`, `TableCompare`
and not in `RowSync`; changes of structure and changes of rows are not combined
in one module: `SyncTable` has both for one table with the statements as a set,
`DatabaseSync` the structures themselves for several.

## 7. What is left

Everything the code keeps state for is modelled, and every safety property the
passing runs check is a theorem, `OnlyFoldsAreRejected` aside.  To prove that
one needs a statement of when a holder is really gone, over all chunks of a
plan.  `RowSync` has keys of one column: what overlapping chunks of three key
columns (section 5) do to a row plan is not modelled.  The liveness properties
stay with TLC.
