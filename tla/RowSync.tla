------------------------------- MODULE RowSync -------------------------------
(***************************************************************************)
(* One table's row-level sync: the comparison that finds the differing     *)
(* chunks, PlanRowWork, which re-plans and re-reads everything before it   *)
(* writes, ApplyRowWork, and the full resync it escalates to.  Every query *)
(* and every transaction is a step of its own: other sessions write to the *)
(* source between them (Move), a transaction can fail or lose the answer   *)
(* to its COMMIT, and a run that did not converge can be started again.    *)
(***************************************************************************)
EXTENDS RowDiff

CONSTANT MaxN   \* MaxInt32 in the code: more chunks than this are sampled

ChunkSize   == setting.chunkSize    \* rows per chunk
DeleteCap   == setting.deleteCap    \* keys per batched DELETE
IntLead     == setting.intLead      \* the key's lead column is an integer
SrcUnique   == setting.srcUnique    \* the source has the unique index too
MaxRows     == setting.maxRows      \* bound: rows per table in the initial states
MaxMoves    == setting.maxMoves     \* bound: changes of the source by other sessions
MaxFailures == setting.maxFailures  \* bound: transactions that fail

\* The options: matched (--where: the payloads it selects, all of them for
\* no filter), rowRewrite (--allow-row-rewrite), full (the confirmed scope
\* covers a full resync).  DecidePlan rejects a filter without a unique key.
ASSUME SyncAssumption ==
  \A s \in Settings :
    /\ s.matched \subseteq s.payloads /\ {s.rowRewrite, s.full} \subseteq BOOLEAN
    /\ s.matched # s.payloads => s.keyUnique
    /\ s.chunkSize \in Nat \ {0} /\ s.deleteCap \in Nat \ {0}
    /\ {s.srcUnique, s.intLead} \subseteq BOOLEAN
    /\ s.intLead => s.orderKnown /\ s.keys \subseteq MinInt..(MaxInt + Half)
    /\ {s.maxRows, s.maxMoves, s.maxFailures} \subseteq Nat

ASSUME MaxNAssumption == MaxN \in 1..Half

VARIABLES
  src, dst,    \* the two tables
  phase,       \* the step that runs next
  targets,     \* ids of the differing chunks the comparison reported
  todo,        \* chunks still to scan, stream or delete
  span,        \* the source's key extremes, <<>> when it has no rows
  oorDel,      \* destination rows outside the span, as counted by the plan
  scan,        \* the chunk being planned: both sides' rows and the ops
  work,        \* the planned chunks, in order: [ch, rows, ops]
  keys,        \* keys scanned for deletion and not deleted yet
  cursor,      \* the out-of-range tail being walked and its last key
  duplicate,   \* a transaction was rejected by a unique index
  moves, failures

vars == <<setting, src, dst, phase, targets, todo, span, oorDel, scan, work, keys, cursor,
          duplicate, moves, failures>>
planVars == <<targets, todo, span, oorDel, scan, work>>

-----------------------------------------------------------------------------
AllowRowRewrite == setting.rowRewrite
FullConfirmed   == setting.full
Filtered        == setting.matched # Payloads
Matching(rows)  == {r \in rows : r.p \in setting.matched}
InChunk(rows, ch) == {r \in rows : Selects(ch, <<r.k>>)}

Distinct(rows) == KeyUnique => \A r, s \in rows : r # s => r.k # s.k
SrcAccepts(rows) == IF SrcUnique THEN Accepts(rows) ELSE Distinct(rows)
TablesWithin == UNION {kSubset(n, Row) : n \in 0..MaxRows}

Extremes(rows) ==
  IF rows = {} THEN <<>>
  ELSE LET ks == {r.k : r \in rows} IN <<Min(ks), Max(ks)>>

\* planSample over the rows of a table (the splitter of ChunkPlanner as a
\* function): the interval is cut at its middle row until it is small.
Sampled(values, size, rows, low, high, n) ==
  LET at(ch, off) ==
        {k \in {r.k : r \in InChunk(rows, ch)} :
           /\ Cardinality({r \in InChunk(rows, ch) : r.k < k}) <= off
           /\ off < Cardinality({r \in InChunk(rows, ch) : r.k <= k})}
      interval(w) == [id |-> 0, lo |-> <<w.lo>>, loIncl |-> w.incl, hi |-> <<w.hi>>, prefix |-> 0]
      split[w \in [lo : values, hi : values, incl : BOOLEAN, rows : Nat]] ==
        LET half == w.rows \div 2
            mids == IF w.rows <= size THEN {} ELSE at(interval(w), half) \ {w.hi}
        IN  IF mids = {} THEN << interval(w) >>
            ELSE LET mid == CHOOSE k \in mids : TRUE IN
                 split[[lo |-> w.lo, hi |-> mid, incl |-> w.incl, rows |-> half]]
                   \o split[[lo |-> mid, hi |-> w.hi, incl |-> FALSE, rows |-> w.rows - half]]
      all == split[[lo |-> low, hi |-> high, incl |-> TRUE, rows |-> n * size]]
  IN  [i \in DOMAIN all |-> [all[i] EXCEPT !.id = i - 1]]

\* chunk.Planner.Plan over the rows, undisturbed.
PlanChunks(rows, size) ==
  IF rows = {} THEN <<>>
  ELSE LET e == Extremes(rows)
           n == Ceil(Cardinality(rows), size)
       IN  IF n > 1 /\ n <= MaxN /\ IntLead /\ e[2] <= MaxInt /\ SpanSafe(e[1], e[2])
           THEN IntBoundaries(e[1], e[2], n, 0)
           ELSE Sampled(Keys, size, rows, e[1], e[2], n)

\* What the comparison compares: the matching rows of both sides.
Converged == SameMultiset(Matching(src), Matching(dst))
DiffersIn(ch) ==
  ~SameMultiset(InChunk(Matching(src), ch), InChunk(Matching(dst), ch))

-----------------------------------------------------------------------------
Init ==
  /\ setting \in Settings
  /\ src \in {rows \in TablesWithin : SrcAccepts(rows)}
  /\ dst \in {rows \in TablesWithin : Accepts(rows)}
  /\ phase = "compare" /\ targets = {} /\ todo = <<>> /\ span = <<>>
  /\ oorDel = 0 /\ scan = <<>> /\ work = <<>> /\ keys = {} /\ cursor = <<>>
  /\ duplicate = FALSE /\ moves = 0 /\ failures = 0

\* The comparison.  Different counts end it at once, with no chunk ids,
\* unless --drill-down asks for them.
Compare ==
  /\ phase = "compare"
  /\ IF Converged
     THEN phase' = "converged" /\ targets' = {}
     ELSE /\ phase' = "plan"
          /\ \/ /\ targets' = {ch.id : ch \in {c \in ToSet(PlanChunks(Matching(src), ChunkSize)) :
                                                DiffersIn(c)}}
             \/ /\ Cardinality(Matching(src)) # Cardinality(Matching(dst))
                /\ targets' = {}
  /\ UNCHANGED <<src, dst, todo, span, oorDel, scan, work, keys, cursor,
                 duplicate, moves, failures, setting>>

\* Mutants of Escalate: the full resync is never allowed, or a phase that
\* nothing handles.
EscalateNever(next) == next = "replan"
EscalateNowhere(next) == next = IF Filtered THEN "refused" ELSE "full"

\* The plan cannot be row-level: it becomes the full resync, which needs to
\* have been confirmed and is never possible under a filter.
Escalate(next) ==
  next = IF Filtered THEN "refused" ELSE IF FullConfirmed THEN "truncate" ELSE "replan"

\* PlanRowWork: the chunks of the source as it is now.
Plan ==
  /\ phase = "plan"
  /\ LET chunks == PlanChunks(Matching(src), ChunkSize)
         ids    == {chunks[i].id : i \in DOMAIN chunks}
         at     == InOrder({i \in DOMAIN chunks : targets = {} \/ chunks[i].id \in targets})
         chosen == [i \in DOMAIN at |-> chunks[at[i]]]
     IN  CASE Matching(src) = {} ->
                /\ phase' = IF Matching(dst) = {} THEN "applied" ELSE "dstPlan"
                /\ UNCHANGED todo
           [] Matching(src) # {} /\ ~(targets \subseteq ids) ->
                Escalate(phase') /\ UNCHANGED todo
           [] OTHER -> phase' = "extremes" /\ todo' = chosen
  /\ work' = <<>> /\ oorDel' = 0 /\ span' = <<>>
  /\ UNCHANGED <<src, dst, targets, scan, keys, cursor, duplicate, moves, failures, setting>>

OutsideOf(rows, sp) == {r \in rows : sp # <<>> /\ OutOfRange(<<r.k>>, <<sp[1]>>, <<sp[2]>>)}

\* The extremes, and the count of the destination rows outside them.
ReadExtremes ==
  /\ phase = "extremes"
  /\ span' = Extremes(Matching(src))
  /\ oorDel' = Cardinality(Matching(OutsideOf(dst, span')))
  /\ phase' = "scanSource"
  /\ UNCHANGED <<src, dst, targets, todo, scan, work, keys, cursor,
                 duplicate, moves, failures, setting>>

ScanSource ==
  /\ phase = "scanSource"
  /\ scan' = [src |-> InChunk(Matching(src), Head(todo)), dst |-> {}, ops |-> <<>>]
  /\ phase' = "scanDestination"
  /\ UNCHANGED <<src, dst, targets, todo, span, oorDel, work, keys, cursor,
                 duplicate, moves, failures, setting>>

\* The destination's rows of the chunk, and the operations: a destructive
\* rewrite needs its flag.
ScanDestination ==
  /\ phase = "scanDestination"
  /\ LET d == InChunk(Matching(dst), Head(todo))
     IN  /\ scan' = [scan EXCEPT !.dst = d, !.ops = Diff(scan.src, d)]
         /\ phase' = IF Hot(scan.src, d) /\ ~AllowRowRewrite THEN "refused" ELSE "check"
  /\ UNCHANGED <<src, dst, targets, todo, span, oorDel, work, keys, cursor,
                 duplicate, moves, failures, setting>>

CheckHolders ==
  /\ phase = "check"
  /\ \E v \in CrossChunkCheck(src, dst, span, Head(todo), scan.dst, scan.ops, ~Filtered) :
       \/ /\ v = "safe"
          /\ work' = Append(work, [ch |-> Head(todo), rows |-> scan.src, ops |-> scan.ops])
          /\ todo' = Tail(todo)
          /\ phase' = IF Tail(todo) = <<>> THEN "apply" ELSE "scanSource"
       \/ /\ v = "conflict"
          /\ IF AllowRowRewrite THEN Escalate(phase') ELSE phase' = "refused"
          /\ UNCHANGED <<work, todo>>
       \/ /\ v = "duplicate"
          /\ phase' = "refused"
          /\ UNCHANGED <<work, todo>>
  /\ UNCHANGED <<src, dst, targets, span, oorDel, scan, keys, cursor,
                 duplicate, moves, failures, setting>>

-----------------------------------------------------------------------------
(* ApplyRowWork                                                            *)

\* One transaction that would leave the destination as rows: it commits and
\* the run goes on, or it is rejected by a unique index, or it fails, with
\* the answer to its COMMIT lost or not.  A failure stops the table.
Transaction(rows, rejected, continue) ==
  \/ ~rejected /\ dst' = rows /\ continue /\ UNCHANGED <<duplicate, failures>>
  \/ /\ rejected /\ duplicate' = TRUE /\ phase' = "failed"
     /\ UNCHANGED <<dst, todo, work, keys, cursor, failures>>
  \/ /\ ~rejected /\ failures < MaxFailures /\ failures' = failures + 1
     /\ dst' \in {dst, rows} /\ phase' = "failed"
     /\ UNCHANGED <<todo, work, keys, cursor, duplicate>>

\* The extremes are read again when there is something to delete; a source
\* that has emptied meanwhile has none.
StartApply ==
  /\ phase = "apply"
  /\ IF oorDel > 0
     THEN /\ span' = Extremes(Matching(src))
          /\ phase' = IF span' = <<>> THEN "groups" ELSE "outOfRange"
     ELSE phase' = "groups" /\ UNCHANGED span
  /\ cursor' = [tail |-> "low", last |-> <<>>]
  /\ UNCHANGED <<src, dst, targets, todo, oorDel, scan, work, keys,
                 duplicate, moves, failures, setting>>

\* Mutants of Tail1: only the lower tail; the extremes are deleted too.
Tail1Low(rows) ==
  {r \in rows : cursor.tail = "low" /\ LessThan3(<<r.k>>, <<span[1]>>) = True3}
Tail1Closed(rows) ==
  {r \in rows : IF cursor.tail = "low" THEN GreaterThan3(<<r.k>>, <<span[1]>>) # True3
                                      ELSE LessThan3(<<r.k>>, <<span[2]>>) # True3}

\* The next page of the tail the cursor is in.
Tail1(rows) ==
  {r \in rows : IF cursor.tail = "low" THEN LessThan3(<<r.k>>, <<span[1]>>) = True3
                                      ELSE GreaterThan3(<<r.k>>, <<span[2]>>) = True3}

\* Mutant of Page: the filter is forgotten.
PageUnfiltered ==
  LET ahead == {r \in Tail1(dst) :
                  cursor.last = <<>> \/ GreaterThan3(<<r.k>>, cursor.last) = True3}
  IN  {r \in ahead : Cardinality({s \in ahead : s.k < r.k}) < DeleteCap}

Page ==
  LET ahead == {r \in Matching(Tail1(dst)) :
                  cursor.last = <<>> \/ GreaterThan3(<<r.k>>, cursor.last) = True3}
  IN  {r \in ahead : Cardinality({s \in ahead : s.k < r.k}) < DeleteCap}

\* streamOORDeletes: a page of keys is read, deleted in a transaction, and
\* the cursor moves past it; a short page ends the tail.
DeleteOutOfRange ==
  /\ phase = "outOfRange"
  /\ LET page == Page
         end  == IF cursor.tail = "low"
                 THEN cursor' = [tail |-> "high", last |-> <<>>] /\ UNCHANGED phase
                 ELSE phase' = "groups" /\ UNCHANGED cursor
     IN  IF page = {}
         THEN end /\ UNCHANGED <<dst, todo, work, keys, duplicate, failures>>
         ELSE Transaction({r \in dst : \A s \in page : r.k # s.k}, FALSE,
                /\ IF Cardinality(page) < DeleteCap THEN end
                   ELSE cursor' = [cursor EXCEPT !.last = <<Max({r.k : r \in page})>>]
                        /\ UNCHANGED phase
                /\ UNCHANGED <<todo, work, keys>>)
  /\ UNCHANGED <<src, targets, span, oorDel, scan, moves, setting>>

\* ApplyOps: one chunk's ops, one transaction.
ApplyGroup ==
  /\ phase = "groups" /\ work # <<>>
  /\ LET result == RunOps(dst, Head(work).ops)
     IN  Transaction(result.rows, result.dup,
           work' = Tail(work) /\ UNCHANGED <<phase, todo, keys, cursor>>)
  /\ UNCHANGED <<src, targets, span, oorDel, scan, moves, setting>>

FinishApply ==
  /\ phase = "groups" /\ work = <<>>
  /\ phase' = "applied"
  /\ UNCHANGED <<src, dst, planVars, keys, cursor, duplicate, moves, failures, setting>>

\* The source's match set is empty: the destination's is planned in chunks
\* of its own, scanned chunk by chunk and deleted batch by batch.
PlanStreamDeletes ==
  /\ phase = "dstPlan"
  /\ todo' = PlanChunks(Matching(dst), ChunkSize)
  /\ phase' = "dstDelete"
  /\ UNCHANGED <<src, dst, targets, span, oorDel, scan, work, keys, cursor,
                 duplicate, moves, failures, setting>>

\* The scanned keys are deleted in the order of their groups.
EarlierKey(k, l) == KeyId[k] < KeyId[l] \/ (KeyId[k] = KeyId[l] /\ k < l)

StreamDeletes ==
  /\ phase = "dstDelete"
  /\ CASE keys # {} ->
            LET batch == {k \in keys : Cardinality({l \in keys : EarlierKey(l, k)}) < DeleteCap}
            IN  Transaction({r \in dst : r.k \notin batch}, FALSE,
                  keys' = keys \ batch /\ UNCHANGED <<phase, todo, work, cursor>>)
       [] keys = {} /\ todo # <<>> ->
            /\ keys' = {r.k : r \in InChunk(Matching(dst), Head(todo))}
            /\ todo' = Tail(todo)
            /\ UNCHANGED <<dst, phase, work, cursor, duplicate, failures>>
       [] OTHER ->
            /\ phase' = "applied"
            /\ UNCHANGED <<dst, todo, work, keys, cursor, duplicate, failures>>
  /\ UNCHANGED <<src, targets, span, oorDel, scan, moves, setting>>

-----------------------------------------------------------------------------
(* ApplyFull                                                               *)

\* TRUNCATE commits at once; the source is then planned and streamed, one
\* transaction per chunk of Batch rows.
Truncate ==
  /\ phase = "truncate"
  /\ dst' = {} /\ phase' = "loadPlan"
  /\ UNCHANGED <<src, planVars, keys, cursor, duplicate, moves, failures, setting>>

PlanLoad ==
  /\ phase = "loadPlan"
  /\ todo' = PlanChunks(src, Batch)
  /\ phase' = "load"
  /\ UNCHANGED <<src, dst, targets, span, oorDel, scan, work, keys, cursor,
                 duplicate, moves, failures, setting>>

StreamChunk ==
  /\ phase = "load" /\ todo # <<>>
  /\ LET result == Flush([Begin(dst) EXCEPT !.pend = SetToSeq(InChunk(src, Head(todo)))])
     IN  Transaction(result.rows, result.dup,
           todo' = Tail(todo) /\ UNCHANGED <<phase, work, keys, cursor>>)
  /\ UNCHANGED <<src, targets, span, oorDel, scan, moves, setting>>

FinishLoad ==
  /\ phase = "load" /\ todo = <<>>
  /\ phase' = "applied"
  /\ UNCHANGED <<src, dst, planVars, keys, cursor, duplicate, moves, failures, setting>>

-----------------------------------------------------------------------------
\* The verification compares again: its verdict is all a run reports.
Verify ==
  /\ phase = "applied"
  /\ phase' = IF Converged THEN "converged" ELSE "different"
  /\ UNCHANGED <<src, dst, planVars, keys, cursor, duplicate, moves, failures, setting>>

\* The operator starts a run that did not converge again.
Rerun ==
  /\ phase \in {"failed", "different", "replan", "refused"}
  /\ phase' = "compare" /\ targets' = {} /\ todo' = <<>> /\ span' = <<>> /\ oorDel' = 0
  /\ scan' = <<>> /\ work' = <<>> /\ keys' = {} /\ cursor' = <<>>
  /\ UNCHANGED <<src, dst, duplicate, moves, failures, setting>>

\* Another session writes one row of the source.
Move ==
  /\ phase # "converged" /\ moves < MaxMoves
  /\ moves' = moves + 1
  /\ \/ \E r \in src : src' = src \ {r}
     \/ \E r \in Row : r \notin src /\ src' = src \cup {r}
     \/ \E r \in src, s \in Row : r # s /\ r.k = s.k /\ src' = (src \ {r}) \cup {s}
  /\ SrcAccepts(src') /\ Cardinality(src') <= MaxRows
  /\ UNCHANGED <<dst, phase, planVars, keys, cursor, duplicate, failures, setting>>

Step == \/ Compare \/ Plan \/ ReadExtremes \/ ScanSource \/ ScanDestination \/ CheckHolders
        \/ StartApply \/ DeleteOutOfRange \/ ApplyGroup \/ FinishApply
        \/ PlanStreamDeletes \/ StreamDeletes
        \/ Truncate \/ PlanLoad \/ StreamChunk \/ FinishLoad \/ Verify

Next == Step \/ Rerun \/ Move

Spec == Init /\ [][Next]_vars /\ WF_vars(Step) /\ WF_vars(Rerun)

-----------------------------------------------------------------------------
Phases == {"compare", "plan", "extremes", "scanSource", "scanDestination", "check", "apply",
           "outOfRange", "groups", "dstPlan", "dstDelete", "truncate", "loadPlan", "load",
           "applied", "converged", "different", "failed", "refused", "replan"}

TypeOK ==
  /\ setting \in Settings /\ phase \in Phases /\ src \subseteq Row /\ dst \subseteq Row
  /\ SrcAccepts(src) /\ Accepts(dst)
  /\ keys \subseteq Keys /\ duplicate \in BOOLEAN
  /\ moves \in 0..MaxMoves /\ failures \in 0..MaxFailures

\* While nobody writes to the source, no statement of a plan that passed the
\* hot check and the holder checks is rejected by a unique index: the writes
\* of the other chunks remove the values they rely on.
NoDuplicateKey == moves = 0 => ~duplicate

\* Among the rows of the two tables, values that are one to the unique index,
\* or keys and values that are one to the normalizer, are equal.
IndexTells == \A r, s \in src \cup dst : Fold[r.u] = Fold[s.u] => r.u = s.u
NormalizerTells ==
  \A r, s \in src \cup dst :
    /\ KeyId[r.k] = KeyId[s.k] => r.k = s.k
    /\ Canon[r.u] = Canon[s.u] => r.u = s.u

\* What is left of NoDuplicateKey: of a source the unique indexes accept, a
\* statement of a checked plan is rejected only where the index folds values
\* the checks tell apart, or where the normalizer folds them and the plan has
\* several chunks: a row that compares equal is then never written, and keeps
\* the value that its chunk was to free.
OnlyFoldsAreRejected ==
  [][/\ moves = 0 /\ Accepts(src) /\ IndexTells
     /\ NormalizerTells \/ MaxRows <= ChunkSize
     => duplicate' = duplicate]_vars

\* While nobody writes to the source, a run that ends without an error has
\* made the compared rows equal: nothing is left for the verification.
AppliedIsConverged == moves = 0 /\ phase = "applied" => Converged

\* The normalizer tells all keys apart.
KeysTold == \A k, l \in Keys : KeyId[k] = KeyId[l] => k = l

\* A committed chunk is final: whatever fails later, and whatever other
\* chunks do, its rows are the source's as the plan read them, save those
\* that have left the source's range since, which the pass before took.
\* (Of two keys that normalize to one the pass may take only the other.)
ChunkCommitConverges ==
  [][phase = "groups" /\ dst' # dst /\ (moves = 0 \/ KeysTold) =>
       LET done       == Head(work)
           kept(rows) == IF oorDel > 0 THEN rows \ OutsideOf(rows, span) ELSE rows
       IN  SameMultiset(kept(InChunk(Matching(dst'), done.ch)), kept(done.rows))]_vars

\* Rows the filter does not match are never written, also when the source
\* changes under the run.
FilterRespected == [][Filtered => dst \ Matching(dst) \subseteq dst']_vars

\* Without --allow-row-rewrite, and while nobody writes to the source, a
\* destination row that already equals the source's is in place after every
\* commit: no delete and re-insert of it that a cascade or a crash between
\* the two could turn into a loss.
EqualRowsStay == [][~AllowRowRewrite /\ moves = 0 => dst \cap src \subseteq dst']_vars

\* Runs that are allowed everything, repeated after failures, lost answers
\* and changes of the source, end in one that finds nothing to do.
EventuallyConverged ==
  AllowRowRewrite /\ FullConfirmed /\ ~Filtered => <>(phase = "converged")
=============================================================================
