----------------------------- MODULE TableCompare -----------------------------
(***************************************************************************)
(* internal/compare/comparer.go: the comparison of one table, on the       *)
(* sessions of ConnPool.  The main program reads the schemas, the counts   *)
(* and the plan on the control sessions, then the workers of both sides    *)
(* scan the planned chunks at the same time; an error of one side cancels  *)
(* the other.  With --snapshot each side is read on one session in one     *)
(* transaction.  Other sessions write to the tables meanwhile (Move) and   *)
(* the server kills connections or refuses new ones.                       *)
(***************************************************************************)
EXTENDS ConnPool, KeyCompat, SequencesExt

CONSTANTS
  Keys,      \* key values (integers)
  Values,    \* contents of a row
  NoRow,     \* no row at the key
  DrillMaxRows,  \* rows of a chunk the drill-down keeps of a side
  Settings   \* the instances: see setting

Least(a, b) == IF a < b THEN a ELSE b

NoTable == <<>>
NoKey   == Column("none", "", FALSE, <<>>)
Table   == [Keys -> Values \cup {NoRow}]

ASSUME CompareAssumption ==
  /\ NoRow \notin Values
  /\ Keys \subseteq Int /\ Keys # {} /\ IsFiniteSet(Keys)
  /\ DrillMaxRows \in Nat \ {0}
  /\ \A s \in Settings :
       /\ s.parallel \in 1..Parallel /\ s.moves \in Nat /\ s.tables \subseteq [Sides -> Table]
       /\ s.limit \in Nat \ {0} /\ s.lookup \in [Keys -> Keys]

VARIABLES
  setting,   \* one of Settings: key, default (collation): [Sides -> ...],
             \* parallel, snapshot, drill, limit (examples), lookup (what
             \* the drill-down tells keys by), isolation, tables, moves (bound)
  table,     \* [Sides -> Table]
  seen,      \* [Sides -> Table]: what the side's transaction reads, NoTable for none
  phase,     \* what the main program does
  total,     \* [Sides -> Nat]
  chunks,    \* the plan
  jobs,      \* [Sides -> Seq(chunk)]: the channel the workers take from
  worker,    \* [Handles -> [state, chunk]]
  digests,   \* [Sides -> [ids of scanned chunks -> digest]]
  sideErr,   \* [Sides -> "none" | "failed" | "canceled"]: the side's first error
  verdict,   \* [status, blamed, diff (ids of the differing chunks)]
  todo,      \* ids of the differing chunks still to drill down
  drilled,   \* [Sides -> [ids of drilled chunks -> [rows, truncated]]]
  moves

mainVars == <<phase, total, chunks, verdict, todo, drilled>>
scanVars == <<jobs, worker, digests, sideErr>>
dataVars == <<setting, table, moves>>
vars == <<poolVars, mainVars, scanVars, dataVars, seen>>

Other(side)   == CHOOSE d \in Sides : d # side
Scan(side, w) == <<side, w>>
Control(side) == <<side, 0>>
Workers       == Sides \X (1..Parallel)
Nothing       == [c \in {} |-> <<>>]
Put(f, x, v)  == [y \in DOMAIN f \cup {x} |-> IF y = x THEN v ELSE f[y]]

-----------------------------------------------------------------------------
(* What is read.                                                           *)

\* A statement outside a transaction, or in one at READ COMMITTED, reads the
\* table as it is; in a transaction at REPEATABLE READ, as it was when the
\* transaction began.
Read(side) ==
  IF seen[side] = NoTable \/ setting.isolation = "fixedRC" THEN table[side] ELSE seen[side]
RowsIn(t)     == {k \in Keys : t[k] # NoRow}
Present(side) == RowsIn(Read(side))

\* Mutant of SnapshotIsolated: the refused SET is ignored.
SnapshotIsolatedOrNot == TRUE

\* The session runs at REPEATABLE READ, forced or verified, or --snapshot is
\* refused: "settable", or a backend that refuses the SET and is "fixedRR"
\* or "fixedRC" already.
SnapshotIsolated == setting.isolation \in {"settable", "fixedRR"}

\* Mutant of RangeMode: only the agreement of the sides is looked at.
RangeModeAgreeing == KeyOrderCompatible(setting.key["src"], setting.key["dst"])

\* The key partitions both sides; else both compare as whole-table multisets.
RangeMode == KeyRangeChunkable(setting.key["src"], setting.key["dst"])

By(side, k)    == OrderRank(setting.key[side], setting.default[side], k)
Where(side, k) == WhereRank(setting.key[side], setting.default[side], k)

\* The keys of the source, in its key order (the only member of the set).
KeyOrders ==
  {ks \in [1..Cardinality(Present("src")) -> Present("src")] :
     /\ Range(ks) = Present("src")
     /\ \A i, j \in DOMAIN ks : i < j => By("src", ks[i]) < By("src", ks[j])}

\* One chunk per row of the source; a whole-table chunk has no bounds.
WholeTable == [id |-> 0, lo |-> <<>>, hi |-> <<>>, loIncl |-> TRUE]
ChunksOf(ks) ==
  [i \in DOMAIN ks |->
     [id |-> i - 1, lo |-> <<ks[IF i = 1 THEN 1 ELSE i - 1]>>, hi |-> <<ks[i]>>, loIncl |-> i = 1]]
PlanChunks ==
  IF total["src"] = 0 THEN {<<>>}
  ELSE IF ~RangeMode THEN {<< WholeTable >>} ELSE {ChunksOf(ks) : ks \in KeyOrders}

\* The keys a chunk's WHERE selects, and its rows in a state of the table.
Selects(side, ch, k) ==
  ch.lo = <<>> \/
    /\ Where(side, ch.lo[1]) < Where(side, k) \/ (ch.loIncl /\ Where(side, ch.lo[1]) = Where(side, k))
    /\ Where(side, k) <= Where(side, ch.hi[1])

ChunkOf(t, side, ch) == {<<k, t[k]>> : k \in {l \in RowsIn(t) : Selects(side, ch, l)}}
RowsOf(side, ch)     == ChunkOf(Read(side), side, ch)

\* Mutant of DrillRows: not in the snapshot's transaction.
DrillRowsLatest(side, ch) == ChunkOf(table[side], side, ch)

\* DrillDown.scanRows: the rows read, the first of which bufferRows keeps.
DrillRows(side, ch) == RowsOf(side, ch)

\* Without a key the rows come in any order.
Buffers(side, rows) ==
  {b \in SUBSET rows :
     /\ Cardinality(b) = Least(DrillMaxRows, Cardinality(rows))
     /\ setting.key[side] = NoKey \/ \A r \in b, q \in rows \ b : By(side, r[1]) <= By(side, q[1])}

BothKeyed == \A d \in Sides : setting.key[d] # NoKey

\* What a row is found by on the other side: its key as lookupKey renders it,
\* which shortens long strings, or the whole row.
Identity(row) == IF BothKeyed THEN setting.lookup[row[1]] ELSE row

\* Of the rows of one identity the first one is kept.
Kept(side, rows, i) ==
  {r \in rows : Identity(r) = i /\ \A q \in rows \ {r} : Identity(q) = i => By(side, r[1]) <= By(side, q[1])}

\* keyedDiff and multisetDiff: the identities with another row, or none, on
\* the other side (no two rows are equal here, so each counts once).
Examples(read, id) ==
  LET src == read["src"][id].rows
      dst == read["dst"][id].rows
  IN  {i \in {Identity(r) : r \in src \cup dst} : Kept("src", src, i) # Kept("dst", dst, i)}

\* The examples of all the chunks read are as many as were asked for.
Enough(read) ==
  Cardinality(UNION {{id} \X Examples(read, id) : id \in DOMAIN read["dst"]}) >= setting.limit

\* The ordered digest depends on the order of ORDER BY (which rows come
\* before which), the other does not.
Digest(side, ch) ==
  [rows   |-> RowsOf(side, ch),
   before |-> {p \in RowsOf(side, ch) \X RowsOf(side, ch) :
                 RangeMode /\ By(side, p[1][1]) < By(side, p[2][1])}]

-----------------------------------------------------------------------------
Init ==
  /\ setting \in Settings /\ PoolInit(setting.parallel) /\ budget = setting.faults
  /\ table \in setting.tables
  /\ seen = [d \in Sides |-> NoTable]
  /\ phase = "srcSchema" /\ total = [d \in Sides |-> 0] /\ chunks = <<>>
  /\ jobs = [d \in Sides |-> <<>>]
  /\ worker = [h \in Workers |-> [state |-> "idle", chunk |-> WholeTable]]
  /\ digests = [d \in Sides |-> Nothing] /\ sideErr = [d \in Sides |-> "none"]
  /\ verdict = [status |-> "none", blamed |-> Nobody, diff |-> {}]
  /\ todo = {} /\ drilled = [d \in Sides |-> Nothing] /\ moves = 0

-----------------------------------------------------------------------------
(* The main program: schemas, snapshots, counts, plan.                     *)

SideOf(p) == IF p \in {"srcSchema", "srcSnapshot", "srcCount", "plan"} THEN "src" ELSE "dst"
Questions == {"srcSchema", "dstSchema", "srcSnapshot", "dstSnapshot", "srcCount", "dstCount", "plan"}

\* The session a step of the main program runs on: after a snapshot was
\* opened, its; before, and without one, the control session.
Asks == IF setting.snapshot /\ phase \notin {"srcSchema", "dstSchema"}
        THEN Scan(SideOf(phase), 1) ELSE Control(SideOf(phase))
Answered == State(Asks) = "open" /\ Alive(Asks)

Error(side) == [status |-> "ERROR", blamed |-> side, diff |-> {}]

StartQuestion ==
  /\ phase \in Questions /\ Acquire(Asks)
  /\ UNCHANGED <<mainVars, scanVars, dataVars, seen>>

FailQuestion ==
  /\ phase \in Questions /\ QueryFails(Asks)
  /\ verdict' = Error(SideOf(phase)) /\ phase' = "closing"
  /\ UNCHANGED <<total, chunks, todo, drilled, scanVars, dataVars, seen>>

\* PrepareSchemas: one control session per side, released before the next.
ReadSchema ==
  /\ phase \in {"srcSchema", "dstSchema"} /\ Answered /\ Close(Asks)
  /\ phase' = CASE phase = "srcSchema" -> "dstSchema"
                [] phase = "dstSchema" /\ setting.snapshot -> "srcSnapshot"
                [] OTHER -> "srcCount"
  /\ UNCHANGED <<total, chunks, verdict, todo, drilled, scanVars, dataVars, seen>>

\* beginSnapshotTx: the transaction sees the table as it is at its begin.
BeginSnapshot ==
  /\ phase \in {"srcSnapshot", "dstSnapshot"} /\ Answered
  /\ IF SnapshotIsolated
     THEN /\ seen' = [seen EXCEPT ![SideOf(phase)] = table[SideOf(phase)]]
          /\ phase' = IF phase = "srcSnapshot" THEN "dstSnapshot" ELSE "srcCount"
          /\ UNCHANGED <<poolVars, verdict>>
     ELSE /\ verdict' = Error(SideOf(phase)) /\ phase' = "closing"
          /\ Close(Asks) /\ UNCHANGED seen
  /\ UNCHANGED <<total, chunks, todo, drilled, scanVars, dataVars>>

\* The control session of a count is released, a snapshot's is kept.
Keep == IF setting.snapshot THEN UNCHANGED poolVars ELSE Close(Asks)

CountSource ==
  /\ phase = "srcCount" /\ Answered /\ Keep
  /\ total' = [total EXCEPT !["src"] = Cardinality(Present("src"))]
  /\ phase' = "dstCount"
  /\ UNCHANGED <<chunks, verdict, todo, drilled, scanVars, dataVars, seen>>

\* skipRowScan: different counts are a verdict, unless --drill-down asks for
\* the rows.
CountDestination ==
  /\ phase = "dstCount" /\ Answered /\ Keep
  /\ total' = [total EXCEPT !["dst"] = Cardinality(Present("dst"))]
  /\ IF total["src"] # total'["dst"] /\ ~setting.drill
     THEN verdict' = [verdict EXCEPT !.status = "DIFFERENT"] /\ phase' = "closing"
     ELSE /\ phase' = IF total["src"] = 0 /\ total'["dst"] = 0 THEN "scan" ELSE "plan"
          /\ UNCHANGED verdict
  /\ UNCHANGED <<chunks, todo, drilled, scanVars, dataVars, seen>>

Scanners(n) == IF n = 0 THEN 0 ELSE IF setting.snapshot THEN 1 ELSE Least(setting.parallel, n)

\* The plan, and the workers of both sides, each on a session of its own or
\* on the snapshot's.  The control session stays open until the table is done.
Plan ==
  /\ phase = "plan" /\ Answered
  /\ chunks' \in PlanChunks
  /\ jobs' = [d \in Sides |-> chunks']
  /\ LET started == {h \in Workers : h[2] <= Scanners(Len(chunks'))}
     IN  /\ worker' = [h \in Workers |->
              [worker[h] EXCEPT !.state = IF h \in started THEN "ready" ELSE "idle"]]
         /\ session' = [h \in Handles |->
              IF h \in started /\ ~setting.snapshot
              THEN [Closed EXCEPT !.state = "checkout"] ELSE session[h]]
  /\ phase' = "scan"
  /\ UNCHANGED <<link, policy, user, faults, budget, total, verdict, todo, drilled, digests, sideErr,
                 dataVars, seen>>

-----------------------------------------------------------------------------
(* scanSide.                                                               *)

Busy(side)     == \E h \in Workers : h[1] = side /\ worker[h].state # "idle"
Canceled(side) == sideErr[side] # "none" \/ (sideErr[Other(side)] # "none" /\ ~Busy(Other(side)))

\* A worker ends; the first error of its side is the side's.
Return(h, err) ==
  /\ worker' = [worker EXCEPT ![h].state = "idle"]
  /\ sideErr' = [sideErr EXCEPT ![h[1]] = IF @ = "none" THEN err ELSE @]
  /\ UNCHANGED <<jobs, digests>>

TakeJob(h) ==
  /\ worker[h].state = "ready" /\ State(h) = "open" /\ jobs[h[1]] # <<>>
  /\ worker' = [worker EXCEPT ![h] = [state |-> "scanning", chunk |-> Head(jobs[h[1]])]]
  /\ jobs' = [jobs EXCEPT ![h[1]] = Tail(@)]
  /\ UNCHANGED <<poolVars, mainVars, digests, sideErr, dataVars, seen>>

\* A worker without a job left closes its session, a snapshot is kept.
GiveBack(h) == IF setting.snapshot THEN UNCHANGED poolVars ELSE Close(h)

ScanChunk(h) ==
  /\ worker[h].state \in {"scanning", "rescanning"} /\ State(h) = "open" /\ Alive(h)
  /\ ~Canceled(h[1])
  /\ digests' = [digests EXCEPT ![h[1]] =
                   Put(@, worker[h].chunk.id, Digest(h[1], worker[h].chunk))]
  /\ IF jobs[h[1]] = <<>>
     THEN worker' = [worker EXCEPT ![h].state = "idle"] /\ GiveBack(h)
     ELSE worker' = [worker EXCEPT ![h].state = "ready"] /\ UNCHANGED poolVars
  /\ UNCHANGED <<mainVars, jobs, sideErr, dataVars, seen>>

\* The connection died: the chunk is scanned once more on a new one.
Rescan(h) ==
  /\ worker[h].state = "scanning" /\ State(h) = "open" /\ ~Alive(h) /\ ~setting.snapshot
  /\ FailAndClose(h)
  /\ session' = [session EXCEPT ![h] = [Closed EXCEPT !.state = "checkout"]]
  /\ worker' = [worker EXCEPT ![h].state = "rescanning"]
  /\ UNCHANGED <<policy, faults, budget, mainVars, jobs, digests, sideErr, dataVars, seen>>

\* It died again, or it was the snapshot's, or the session the worker
\* starts with was never handed out.
FailWorker(h) ==
  /\ \/ /\ worker[h].state = "rescanning" \/ (worker[h].state = "scanning" /\ setting.snapshot)
        /\ State(h) = "open" /\ ~Alive(h)
        /\ FailAndClose(h)
     \/ worker[h].state = "ready" /\ State(h) = "failed" /\ UNCHANGED <<link, user>>
  /\ session' = [session EXCEPT ![h] = Closed]
  /\ Return(h, "failed")
  /\ UNCHANGED <<policy, faults, budget, mainVars, dataVars, seen>>

\* The worker finds its context canceled: before its session is handed out,
\* or in the scan.
CancelWorker(h) ==
  /\ Canceled(h[1])
  /\ \/ worker[h].state = "ready" /\ State(h) \in {"checkout", "init"}
     \/ worker[h].state \in {"scanning", "rescanning"} /\ State(h) = "open"
  /\ GiveBack(h)
  /\ Return(h, "canceled")
  /\ UNCHANGED <<mainVars, dataVars, seen>>

\* The replacement is not handed out: the variable is nil, and the deferred
\* Close is called on it.
ReplacementFails(h) ==
  /\ worker[h].state = "rescanning"
  /\ State(h) = "failed" \/ (State(h) \in {"checkout", "init"} /\ Canceled(h[1]))
  /\ phase' = "panicked"
  /\ UNCHANGED <<poolVars, total, chunks, verdict, todo, drilled, scanVars, dataVars, seen>>

\* The others took all the jobs.
FinishWorker(h) ==
  /\ worker[h].state = "ready" /\ State(h) = "open" /\ jobs[h[1]] = <<>>
  /\ GiveBack(h)
  /\ Return(h, "none")
  /\ UNCHANGED <<mainVars, dataVars, seen>>

-----------------------------------------------------------------------------
\* Mutant of ScanError: the source is blamed whenever it has an error.
ScanErrorFirst == IF sideErr["src"] # "none" THEN "src" ELSE "dst"

\* pickScanError: a side that was merely canceled is not blamed.
ScanError ==
  IF sideErr["src"] = "failed" THEN "src"
  ELSE IF sideErr["dst"] = "failed" THEN "dst"
  ELSE IF sideErr["src"] # "none" THEN "src" ELSE "dst"

\* foldDigests.
DiffIds ==
  {id \in DOMAIN digests["src"] :
     id \notin DOMAIN digests["dst"] \/ digests["src"][id] # digests["dst"][id]}

Fold ==
  /\ phase = "scan" /\ \A d \in Sides : ~Busy(d)
  /\ LET failed == \E d \in Sides : sideErr[d] # "none"
         uneven == Cardinality(DOMAIN digests["src"]) # Cardinality(DOMAIN digests["dst"])
         diff   == IF uneven THEN {} ELSE DiffIds
         differ == uneven \/ diff # {} \/ total["src"] # total["dst"]
     IN  IF failed
         THEN verdict' = Error(ScanError) /\ phase' = "closing" /\ UNCHANGED todo
         ELSE /\ verdict' = [status |-> IF differ THEN "DIFFERENT" ELSE "OK",
                             blamed |-> Nobody, diff |-> diff]
              /\ todo' = IF setting.drill THEN diff ELSE {}
              /\ phase' = IF todo' = {} THEN "closing" ELSE "drill"
  /\ UNCHANGED <<poolVars, total, chunks, drilled, scanVars, dataVars, seen>>

\* DrillDown.Diff reads the differing chunks again in the order of their
\* ids, first of the source and then of the destination, on a session of its
\* own or the snapshot's, until there are examples enough; nothing is retried.
DrillId     == Min(todo)
DrillSide   == IF DrillId \in DOMAIN drilled["src"] THEN "dst" ELSE "src"
DrillHandle == Scan(DrillSide, 1)

StartDrill ==
  /\ phase = "drill" /\ Acquire(DrillHandle)
  /\ UNCHANGED <<mainVars, scanVars, dataVars, seen>>

DrillChunk ==
  /\ phase = "drill" /\ State(DrillHandle) = "open" /\ Alive(DrillHandle)
  /\ LET rows == DrillRows(DrillSide, chunks[DrillId + 1])
     IN  \E b \in Buffers(DrillSide, rows) :
           drilled' = [drilled EXCEPT ![DrillSide] = Put(@, DrillId, [rows |-> b, truncated |-> b # rows])]
  /\ IF setting.snapshot THEN UNCHANGED poolVars ELSE Close(DrillHandle)
  /\ todo' = CASE DrillSide = "src" -> todo
               [] DrillSide = "dst" /\ Enough(drilled') -> {}
               [] OTHER -> todo \ {DrillId}
  /\ phase' = IF todo' = {} THEN "closing" ELSE "drill"
  /\ UNCHANGED <<total, chunks, verdict, scanVars, dataVars, seen>>

FailDrill ==
  /\ phase = "drill" /\ QueryFails(DrillHandle)
  /\ verdict' = Error(DrillSide) /\ phase' = "closing"
  /\ UNCHANGED <<total, chunks, todo, drilled, scanVars, dataVars, seen>>

\* Mutant of Deferred: the plan's control session is forgotten.
DeferredSnapshots == {Scan(d, 1) : d \in {e \in Sides : setting.snapshot}}

\* The deferred closes: the plan's control session, the snapshots'.
Deferred == {Control("src")} \cup {Scan(d, 1) : d \in {e \in Sides : setting.snapshot}}

CloseDeferred ==
  /\ phase = "closing" /\ phase' = "done"
  /\ user' = [s \in Slots |-> IF user[s] \in Deferred THEN Nobody ELSE user[s]]
  /\ session' = [h \in Handles |-> IF h \in Deferred THEN Closed ELSE session[h]]
  /\ UNCHANGED <<link, policy, faults, budget, total, chunks, verdict, todo, drilled, scanVars,
                 dataVars, seen>>

-----------------------------------------------------------------------------
Over == phase \in {"done", "panicked"}

\* Another session writes one row of one side.
Move ==
  /\ ~Over /\ moves < setting.moves /\ moves' = moves + 1
  /\ \E d \in Sides, k \in Keys, v \in Values \cup {NoRow} :
       v # table[d][k] /\ table' = [table EXCEPT ![d][k] = v]
  /\ UNCHANGED <<poolVars, mainVars, scanVars, setting, seen>>

KillSession == ~Over /\ (\E s \in Slots : Kill(s))
               /\ UNCHANGED <<mainVars, scanVars, dataVars, seen>>

\* A worker whose context is canceled does not go on acquiring.
SessionStep(h) ==
  /\ ~Over /\ PoolStep(h)
  /\ ~(h \in Workers /\ worker[h].state # "idle" /\ Canceled(h[1]))
  /\ UNCHANGED <<mainVars, scanVars, dataVars, seen>>

WorkerStep(h) ==
  /\ phase = "scan"
  /\ \/ TakeJob(h) \/ ScanChunk(h) \/ Rescan(h) \/ FailWorker(h)
     \/ CancelWorker(h) \/ ReplacementFails(h) \/ FinishWorker(h)

MainStep ==
  \/ StartQuestion \/ FailQuestion \/ ReadSchema \/ BeginSnapshot \/ CountSource
  \/ CountDestination \/ Plan \/ Fold \/ StartDrill \/ DrillChunk \/ FailDrill \/ CloseDeferred

Step == \/ \E h \in Handles : SessionStep(h)
        \/ \E h \in Workers : WorkerStep(h)
        \/ MainStep

Next == Step \/ Move \/ KillSession

Spec == Init /\ [][Next]_vars /\ WF_vars(Step)

-----------------------------------------------------------------------------
TypeOK ==
  /\ PoolTypeOK
  /\ table \in [Sides -> Table] /\ seen \in [Sides -> Table \cup {NoTable}]
  /\ phase \in Questions \cup {"scan", "drill", "closing", "done", "panicked"}
  /\ total \in [Sides -> 0..Cardinality(Keys)]
  /\ \A h \in Workers : worker[h].state \in {"idle", "ready", "scanning", "rescanning"}
  /\ sideErr \in [Sides -> {"none", "failed", "canceled"}]
  /\ verdict.status \in {"none", "OK", "DIFFERENT", "ERROR"}
  /\ moves \in 0..setting.moves

Decided == verdict.status \in {"OK", "DIFFERENT"}
\* While nobody writes to the tables the verdict is about the tables: no two
\* different tables are called identical, whatever their keys' orders are and
\* whatever was killed and scanned again, and no equal ones different.
VerdictIsTrue ==
  moves = 0 /\ Decided => (verdict.status = "OK" <=> table["src"] = table["dst"])

\* With --snapshot the verdict is about the two tables as they were when the
\* transactions began, while other sessions write to both.
SnapshotVerdictIsTrue ==
  setting.snapshot /\ Decided => (verdict.status = "OK" <=> seen["src"] = seen["dst"])

\* The drill-down gave an example row of the differing chunk, or it had as
\* many as were asked for before it came to the chunk, or it reports that it
\* read only a sample of the chunk's rows.
Exemplified(id) ==
  IF id \in DOMAIN drilled["dst"]
  THEN Examples(drilled, id) # {} \/ \E d \in Sides : drilled[d][id].truncated
  ELSE Enough(drilled)

\* Two rows of one side of the chunk are one to the drill-down.
Collapsed(id) ==
  BothKeyed /\ \E d \in Sides : \E r, q \in drilled[d][id].rows : r # q /\ Identity(r) = Identity(q)

Drilled == (moves = 0 \/ setting.snapshot) /\ phase = "done" /\ setting.drill /\ Decided

\* A differing chunk has example rows if the two sides are read at one moment
\* each: the drill-down finds again what the digests told apart, in the rows
\* it reads anew, though it keeps only some and stops at the limit.  Keys it
\* cannot tell apart hide the row of one of them.
DrillShowsDifference ==
  Drilled => \A id \in verdict.diff : Exemplified(id) \/ Collapsed(id)

\* A side is blamed only if something went wrong on it: never the one that
\* was canceled because the other failed.
BlamedSideFailed ==
  verdict.blamed # Nobody =>
    Count(verdict.blamed) > 0 \/ (setting.snapshot /\ ~SnapshotIsolated)

\* A single killed connection is survived, whichever it is and whenever it
\* happens before the drill-down, outside a snapshot.
OneKillSurvived ==
  verdict.status = "ERROR" /\ ~setting.snapshot /\ todo = {} =>
    Count("src") + Count("dst") > faults["src"].kill + faults["dst"].kill
      \/ faults["src"].kill + faults["dst"].kill > 1

\* When the table is done, every session is back in its pool.
AllReturned == phase = "done" => \A s \in Slots : user[s] = Nobody

\* Compare "returns one result per table", also for a table that failed.
OneResultPerTable == Over => verdict.status # "none"

\* Nothing waits forever: not for a session of a pool, not for a worker.
Terminates == <>Over
=============================================================================
