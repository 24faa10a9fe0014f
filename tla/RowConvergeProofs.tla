------------------------- MODULE RowConvergeProofs -------------------------
(***************************************************************************)
(* That a run converges: the invariant of a plan under any writes to the   *)
(* source, the stronger one of a run whose source nobody writes to, and    *)
(* that a run that ends without an error has made the two sides equal and  *)
(* that a committed chunk is final.                                        *)
(***************************************************************************)
EXTENDS RowCommitProofs

-----------------------------------------------------------------------------
(***************************************************************************)
(* The invariant of a plan, whatever happens to the source: the chunks of  *)
(* a plan do not overlap, and each holds the destination's rows as they    *)
(* were planned, less those that the pass over the rows outside the        *)
(* source's range has deleted since.                                       *)
(***************************************************************************)
PlanPhases ==
  {"extremes", "scanSource", "scanDestination", "check", "apply", "outOfRange", "groups"}
ScanPhases == {"scanSource", "scanDestination", "check", "apply"}

TodoOK ==
  /\ todo \in Seq(ToSet(todo))
  /\ phase \in {"extremes", "scanSource", "scanDestination", "check"} => todo # <<>>
  /\ phase \in {"apply", "outOfRange", "groups"} => todo = <<>>

Unshared(a, b) == ~\E k \in Int : Selects(a, <<k>>) /\ Selects(b, <<k>>)

AllApart(w, t) ==
  /\ \A i, j \in DOMAIN w : i # j => Unshared(w[i].ch, w[j].ch)
  /\ \A i, j \in DOMAIN t : i # j => Unshared(t[i], t[j])
  /\ \A i \in DOMAIN w, j \in DOMAIN t : Unshared(w[i].ch, t[j])
ChunksApart == phase \in PlanPhases => AllApart(work, todo)

\* A chunk plan is a sequence.
LEMMA PlanIsSeq ==
  ASSUME setting \in Settings, NEW rows \in SUBSET Row, NEW size \in Nat \ {0}
  PROVE  PlanChunks(rows, size) \in Seq(ToSet(PlanChunks(rows, size)))
<1>1. CASE rows = {}
  <2>1. PlanChunks(rows, size) = <<>>
    BY <1>1 DEF PlanChunks
  <2> QED
    BY <2>1
<1>2. CASE rows # {}
  BY <1>2, PlanChunksIs DEF Tiles
<1> QED
  BY <1>1, <1>2

\* A sequence is one of its own elements.
LEMMA SelfSeq ==
  ASSUME NEW S, NEW q \in Seq(S)
  PROVE  q \in Seq(ToSet(q))
<1>1. Len(q) \in Nat /\ DOMAIN q = 1..Len(q) /\ q = [i \in 1..Len(q) |-> q[i]]
  OBVIOUS
<1>2. \A i \in 1..Len(q) : q[i] \in ToSet(q)
  BY <1>1 DEF ToSet
<1> QED
  BY <1>1, <1>2

\* What has an element is not empty.
LEMMA NotEmpty ==
  ASSUME NEW q, DOMAIN q # {}
  PROVE  q # <<>>
  OBVIOUS

\* The head, the tail and the places of their elements.
LEMMA HeadTail ==
  ASSUME NEW q, q \in Seq(ToSet(q)), q # <<>>
  PROVE  /\ 1 \in DOMAIN q /\ Head(q) = q[1] /\ Head(q) \in ToSet(q)
         /\ Tail(q) \in Seq(ToSet(Tail(q)))
         /\ \A i \in DOMAIN Tail(q) : i + 1 \in DOMAIN q /\ i + 1 # 1 /\ Tail(q)[i] = q[i + 1]
         /\ \A i \in DOMAIN q : i = 1 \/ (i - 1 \in DOMAIN Tail(q) /\ Tail(q)[i - 1] = q[i])
<1> DEFINE S == ToSet(q)
           n == Len(q)
<1>1. /\ n \in Nat /\ n # 0 /\ DOMAIN q = 1..n /\ Head(q) = q[1]
      /\ DOMAIN Tail(q) = 1..(n - 1) /\ Tail(q) \in Seq(S)
      /\ \A i \in 1..(n - 1) : Tail(q)[i] = q[i + 1]
  <2>1. q \in Seq(S)
    OBVIOUS
  <2> HIDE DEF S
  <2>2. n \in Nat /\ n # 0 /\ DOMAIN q = 1..n /\ Head(q) = q[1]
    BY <2>1
  <2>3. Tail(q) \in Seq(S) /\ Len(Tail(q)) = n - 1 /\ \A i \in 1..(n - 1) : Tail(q)[i] = q[i + 1]
    BY <2>1
  <2> QED
    BY <2>2, <2>3
<1>2. 1 \in 1..n /\ \A i \in 1..(n - 1) : i + 1 \in 1..n /\ i + 1 # 1
  BY <1>1
<1>3. \A i \in 1..n : i = 1 \/ (i - 1 \in 1..(n - 1) /\ (i - 1) + 1 = i)
  BY <1>1
<1>4. Tail(q) \in Seq(ToSet(Tail(q)))
  BY <1>1, SelfSeq
<1>5. Head(q) \in ToSet(q)
  BY <1>1, <1>2 DEF ToSet
<1>6. \A i \in 1..n : i = 1 \/ Tail(q)[i - 1] = q[i]
  BY <1>1, <1>3
<1> QED
  BY <1>1, <1>2, <1>3, <1>4, <1>5, <1>6

\* The chunks a plan chooses from a tiling do not overlap.
Chosen(chunks, at) == [i \in DOMAIN at |-> chunks[at[i]]]

\* The chunks chosen of a tiling are apart.
LEMMA ChosenApart ==
  ASSUME NEW chunks, NEW T, NEW S, Tiles(chunks, T, S), NEW D \in SUBSET (DOMAIN chunks)
  PROVE  /\ Chosen(chunks, InOrder(D)) \in Seq(ToSet(chunks))
         /\ Chosen(chunks, InOrder(D)) \in Seq(ToSet(Chosen(chunks, InOrder(D))))
         /\ AllApart(<<>>, Chosen(chunks, InOrder(D)))
         /\ D # {} => Chosen(chunks, InOrder(D)) # <<>>
         /\ \A i \in D : chunks[i] \in ToSet(Chosen(chunks, InOrder(D)))
<1>1. chunks \in Seq(T) /\ Len(chunks) \in Nat /\ DOMAIN chunks = 1..Len(chunks)
  BY DEF Tiles
<1>2. D \subseteq Int /\ IsFiniteSet(D)
  <2>1. IsFiniteSet(1..Len(chunks))
    BY <1>1, FS_Interval
  <2>2. D \in SUBSET (1..Len(chunks)) /\ D \subseteq Int
    BY <1>1
  <2> QED
    BY <2>1, <2>2, FS_Subset
<1> DEFINE n  == Cardinality(D)
           at == InOrder(D)
           q  == Chosen(chunks, at)
<1>3. /\ n \in Nat /\ DOMAIN at = 1..n /\ \A i \in 1..n : at[i] \in D
      /\ \A i, j \in 1..n : at[i] = at[j] => i = j
      /\ \A x \in D : \E i \in 1..n : at[i] = x
  BY <1>2, InOrderIs
<1> HIDE DEF n, at
<1>4. q = [i \in 1..n |-> chunks[at[i]]]
  BY <1>3 DEF Chosen
<1>5. DOMAIN q = 1..n /\ \A i \in 1..n : q[i] = chunks[at[i]] /\ q[i] \in ToSet(chunks)
  BY <1>3, <1>4 DEF ToSet
<1>6. q \in Seq(ToSet(chunks))
  BY <1>3, <1>4, <1>5
<1>7. q \in Seq(ToSet(q))
  <2>1. \A i \in 1..n : q[i] \in ToSet(q)
    BY <1>5 DEF ToSet
  <2> HIDE DEF q
  <2>2. q = [i \in 1..n |-> q[i]]
    BY <1>4, <1>5
  <2> QED
    BY <1>3, <2>1, <2>2
<1>8. AllApart(<<>>, q)
  <2>1. ASSUME NEW i \in 1..n, NEW j \in 1..n, i # j PROVE Unshared(q[i], q[j])
    <3>1. at[i] # at[j] /\ at[i] \in 1..Len(chunks) /\ at[j] \in 1..Len(chunks)
      BY <1>1, <1>3, <2>1
    <3>2. ~\E k \in Int : Selects(chunks[at[i]], <<k>>) /\ Selects(chunks[at[j]], <<k>>)
      BY <3>1 DEF Tiles
    <3> QED
      BY <1>5, <3>2 DEF Unshared
  <2> HIDE DEF q
  <2> QED
    BY <1>5, <2>1 DEF AllApart
<1>9. D # {} => q # <<>>
  <2> SUFFICES ASSUME NEW x \in D PROVE q # <<>>
    OBVIOUS
  <2>1. PICK i \in 1..n : at[i] = x
    BY <1>3
  <2> HIDE DEF q
  <2> QED
    BY <1>5, <2>1, NotEmpty
<1>10. \A i \in D : chunks[i] \in ToSet(q)
  <2> TAKE x \in D
  <2>1. PICK i \in 1..n : at[i] = x
    BY <1>3
  <2> HIDE DEF q
  <2> QED
    BY <1>5, <2>1 DEF ToSet
<1> QED
  BY <1>6, <1>7, <1>8, <1>9, <1>10 DEF q, at

PlanOf    == PlanChunks(Matching(src), ChunkSize)
PickedOf  == {i \in DOMAIN PlanOf : targets = {} \/ PlanOf[i].id \in targets}

\* The plan of the source tiles the source's span.
LEMMA PlanOfTiles ==
  ASSUME TypeOK, Matching(src) # {}
  PROVE  /\ Tiles(PlanOf, ToSet(PlanOf), Between(Matching(src)))
         /\ DOMAIN PlanOf # {} /\ setting \in Settings /\ Matching(src) \in SUBSET Row
<1>1. setting \in Settings /\ Matching(src) \in SUBSET Row /\ ChunkSize \in Nat \ {0}
  BY SyncAssumption DEF TypeOK, Matching, ChunkSize
<1>2. Tiles(PlanOf, ToSet(PlanOf), Between(Matching(src)))
  BY <1>1, PlanChunksIs DEF PlanOf
<1>3. PICK r \in Matching(src) : TRUE
  OBVIOUS
<1>4. r.k \in Between(Matching(src))
  BY <1>1, ExtremesAre DEF Between
<1>5. DOMAIN PlanOf # {}
  <2>1. PICK i \in 1..Len(PlanOf) : Selects(PlanOf[i], <<r.k>>)
    BY <1>2, <1>4 DEF Tiles
  <2>2. PlanOf \in Seq(ToSet(PlanOf))
    BY <1>2 DEF Tiles
  <2> QED
    BY <2>1, <2>2
<1> QED
  BY <1>1, <1>2, <1>5

\* Where Plan goes, and with which chunks.
LEMMA PlanCases ==
  ASSUME Plan
  PROVE  \/ /\ phase' \in {"applied", "dstPlan", "refused", "truncate", "replan"} /\ todo' = todo
            /\ phase' \in {"applied", "dstPlan"} => Matching(src) = {}
            /\ phase' = "applied" => Matching(dst) = {}
         \/ /\ phase' = "extremes" /\ todo' = Chosen(PlanOf, InOrder(PickedOf))
            /\ Matching(src) # {} /\ targets \subseteq {PlanOf[i].id : i \in DOMAIN PlanOf}
<1>1. CASE Matching(src) = {}
  <2>1. phase' = (IF Matching(dst) = {} THEN "applied" ELSE "dstPlan") /\ todo' = todo
    BY <1>1 DEF Plan
  <2> QED
    BY <1>1, <2>1
<1>2. CASE Matching(src) # {} /\ ~(targets \subseteq {PlanOf[i].id : i \in DOMAIN PlanOf})
  <2>1. Escalate(phase') /\ todo' = todo
    BY <1>2 DEF Plan, PlanOf
  <2> QED
    BY <2>1 DEF Escalate
<1>3. CASE Matching(src) # {} /\ targets \subseteq {PlanOf[i].id : i \in DOMAIN PlanOf}
  <2>1. phase' = "extremes" /\ todo' = Chosen(PlanOf, InOrder(PickedOf))
    BY <1>3 DEF Plan, PlanOf, PickedOf, Chosen
  <2> QED
    BY <1>3, <2>1
<1> QED
  BY <1>1, <1>2, <1>3

\* Some chunk is picked.
LEMMA Picked ==
  ASSUME TypeOK, Matching(src) # {}, targets \subseteq {PlanOf[i].id : i \in DOMAIN PlanOf}
  PROVE  PickedOf # {} /\ PickedOf \in SUBSET (DOMAIN PlanOf)
<1>1. DOMAIN PlanOf # {}
  BY PlanOfTiles
<1>2. PickedOf # {}
  BY <1>1 DEF PickedOf
<1> QED
  BY <1>2 DEF PickedOf

\* While chunks are scanned there is one left, and none is once they are
\* applied.
LEMMA TodoStep ==
  ASSUME RowInv, TodoOK, [Next]_vars
  PROVE  TodoOK'
<1>0. /\ TypeOK /\ setting \in Settings /\ src \in SUBSET Row /\ dst \in SUBSET Row
      /\ todo \in Seq(ToSet(todo)) /\ ToSet(todo)' = ToSet(todo')
  BY DEF RowInv, TypeOK, TodoOK, ToSet
<1>1. CASE Plan
  <2>1. CASE phase' = "extremes"
    <3>1. /\ todo' = Chosen(PlanOf, InOrder(PickedOf)) /\ Matching(src) # {}
          /\ targets \subseteq {PlanOf[i].id : i \in DOMAIN PlanOf}
      BY <1>1, <2>1, PlanCases
    <3>2. todo' # <<>> /\ todo' \in Seq(ToSet(todo'))
      BY <1>0, <3>1, PlanOfTiles, Picked, ChosenApart
    <3> QED
      BY <1>0, <2>1, <3>2 DEF TodoOK
  <2>2. CASE phase' # "extremes"
    BY <1>0, <1>1, <2>2, PlanCases DEF TodoOK
  <2> QED
    BY <2>1, <2>2
<1>2. CASE CheckHolders
  <2>1. todo # <<>>
    BY <1>2 DEF CheckHolders, TodoOK
  <2>2. Tail(todo) \in Seq(ToSet(Tail(todo)))
    BY <1>0, <2>1, HeadTail
  <2>3. \/ /\ todo' = Tail(todo) /\ phase' = IF Tail(todo) = <<>> THEN "apply" ELSE "scanSource"
        \/ todo' = todo /\ phase' \in {"refused", "truncate", "replan"}
    BY <1>2 DEF CheckHolders, Escalate
  <2> QED
    BY <1>0, <2>2, <2>3 DEF TodoOK
<1>3. CASE PlanStreamDeletes
  <2>1. todo' = PlanChunks(Matching(dst), ChunkSize) /\ phase' = "dstDelete"
    BY <1>3 DEF PlanStreamDeletes
  <2>2. Matching(dst) \in SUBSET Row /\ ChunkSize \in Nat \ {0}
    BY <1>0, SyncAssumption DEF Matching, ChunkSize
  <2> QED
    BY <1>0, <2>1, <2>2, PlanIsSeq DEF TodoOK
<1>4. CASE PlanLoad
  <2>1. todo' = PlanChunks(src, Batch) /\ phase' = "load"
    BY <1>4 DEF PlanLoad
  <2>2. Batch \in Nat \ {0}
    BY <1>0, RowAssumption DEF Batch
  <2> QED
    BY <1>0, <2>1, <2>2, PlanIsSeq DEF TodoOK
<1>5. CASE StreamDeletes
  <2>1. \/ todo' = todo
        \/ todo # <<>> /\ todo' = Tail(todo)
    BY <1>5 DEF StreamDeletes, Transaction
  <2>2. phase' \in {"dstDelete", "failed", "applied"}
    BY <1>5 DEF StreamDeletes, Transaction
  <2> QED
    BY <1>0, <2>1, <2>2, HeadTail DEF TodoOK
<1>6. CASE StreamChunk
  <2>1. (todo' = todo \/ todo' = Tail(todo)) /\ todo # <<>>
    BY <1>6, Zenon DEF StreamChunk, Transaction
  <2>2. phase' \in {"load", "failed"}
    BY <1>6, Zenon DEF StreamChunk, Transaction
  <2> QED
    BY <1>0, <2>1, <2>2, HeadTail DEF TodoOK
<1>7. CASE Rerun
  BY <1>7 DEF Rerun, TodoOK
<1>8. CASE Compare \/ FinishApply \/ Truncate \/ FinishLoad \/ Verify
  BY <1>0, <1>8 DEF Compare, FinishApply, Truncate, FinishLoad, Verify, TodoOK, planVars
<1>9. CASE ReadExtremes \/ ScanSource \/ ScanDestination \/ StartApply
  BY <1>0, <1>9 DEF ReadExtremes, ScanSource, ScanDestination, StartApply, TodoOK
<1>10. CASE DeleteOutOfRange
  <2>1. phase = "outOfRange" /\ todo' = todo /\ phase' \in {"outOfRange", "groups", "failed"}
    BY <1>10 DEF DeleteOutOfRange, Transaction
  <2> QED
    BY <1>0, <2>1 DEF TodoOK
<1>11. CASE ApplyGroup
  <2>1. phase = "groups" /\ todo' = todo /\ phase' \in {"groups", "failed"}
    BY <1>11, Zenon DEF ApplyGroup, Transaction
  <2> QED
    BY <1>0, <2>1 DEF TodoOK
<1>12. CASE Move \/ UNCHANGED vars
  <2>1. phase' = phase /\ todo' = todo
    BY <1>12 DEF Move, planVars, vars
  <2> QED
    BY <1>0, <2>1 DEF TodoOK
<1> QED
  BY <1>1, <1>2, <1>3, <1>4, <1>5, <1>6, <1>7, <1>8, <1>9, <1>10, <1>11, <1>12 DEF Next, Step

\* How a step changes the plan.
PlanKept(w, t)    == w = work /\ t = todo
PlanAdvanced(w, t) == w = Append(work, [ch |-> Head(todo), rows |-> scan.src, ops |-> scan.ops])
                      /\ t = Tail(todo)
PlanApplied(w, t)  == w = Tail(work) /\ work # <<>> /\ t = todo

\* The steps within a plan: it starts, or is kept, or a chunk is planned,
\* or one is applied.
LEMMA PlanChanges ==
  ASSUME [Next]_vars, phase' \in PlanPhases
  PROVE  \/ Plan /\ phase' = "extremes" /\ work' = <<>>
         \/ phase \in PlanPhases /\ PlanKept(work', todo')
         \/ CheckHolders /\ phase = "check" /\ PlanAdvanced(work', todo')
         \/ ApplyGroup /\ phase = "groups" /\ PlanApplied(work', todo')
<1> USE DEF PlanPhases
<1>1. CASE Plan
  <2>1. phase' = "extremes"
    BY <1>1, PlanCases
  <2> QED
    BY <1>1, <2>1 DEF Plan
<1>2. CASE CheckHolders
  BY <1>2 DEF CheckHolders, Escalate, PlanAdvanced, PlanKept
<1>3. CASE ApplyGroup
  <2>1. /\ phase = "groups" /\ work # <<>>
        /\ \/ phase' = phase /\ todo' = todo /\ (work' = work \/ work' = Tail(work))
           \/ phase' = "failed"
    BY <1>3, Zenon DEF ApplyGroup, Transaction
  <2> QED
    BY <1>3, <2>1 DEF PlanKept, PlanApplied
<1>4. CASE DeleteOutOfRange
  <2>1. phase = "outOfRange" /\ todo' = todo /\ work' = work
    BY <1>4 DEF DeleteOutOfRange, Transaction
  <2> QED
    BY <2>1 DEF PlanKept
<1>5. CASE ReadExtremes \/ ScanSource \/ ScanDestination \/ StartApply
  BY <1>5 DEF ReadExtremes, ScanSource, ScanDestination, StartApply, PlanKept
<1>6. CASE Move \/ UNCHANGED vars
  BY <1>6 DEF Move, planVars, vars, PlanKept
<1>7. CASE Compare \/ FinishApply \/ PlanStreamDeletes \/ Truncate \/ PlanLoad \/ FinishLoad \/ Verify \/ Rerun
  BY <1>7 DEF Compare, FinishApply, PlanStreamDeletes, Truncate, PlanLoad, FinishLoad, Verify, Rerun
<1>8. CASE StreamDeletes
  BY <1>8 DEF StreamDeletes, Transaction
<1>9. CASE StreamChunk
  <2>1. phase' \in {"load", "failed"}
    BY <1>9, Zenon DEF StreamChunk, Transaction
  <2> QED
    BY <2>1
<1> QED
  BY <1>1, <1>2, <1>3, <1>4, <1>5, <1>6, <1>7, <1>8, <1>9 DEF Next, Step

\* The places of an appended sequence.
LEMMA AppendIs ==
  ASSUME NEW q, q \in Seq(ToSet(q)), NEW x
  PROVE  /\ Len(q) \in Nat /\ DOMAIN q = 1..Len(q) /\ DOMAIN Append(q, x) = 1..(Len(q) + 1)
         /\ Append(q, x)[Len(q) + 1] = x /\ \A i \in 1..Len(q) : Append(q, x)[i] = q[i]
         /\ \A i \in DOMAIN Append(q, x) : i \in DOMAIN q \/ i = Len(q) + 1
<1> DEFINE S == ToSet(q) \cup {x}
<1>1. q \in Seq(S) /\ x \in S
  BY SeqMonotonic
<1> HIDE DEF S
<1>2. /\ Len(q) \in Nat /\ DOMAIN q = 1..Len(q) /\ DOMAIN Append(q, x) = 1..(Len(q) + 1)
      /\ Append(q, x)[Len(q) + 1] = x /\ \A i \in 1..Len(q) : Append(q, x)[i] = q[i]
  BY <1>1
<1>3. \A i \in 1..(Len(q) + 1) : i \in 1..Len(q) \/ i = Len(q) + 1
  BY <1>2
<1> QED
  BY <1>2, <1>3

\* Being apart is symmetric.
LEMMA UnsharedSym ==
  ASSUME NEW a, NEW b, Unshared(a, b)
  PROVE  Unshared(b, a)
  BY DEF Unshared

\* Moving a chunk from those to scan to the planned ones keeps all apart.
LEMMA ApartAdvance ==
  ASSUME NEW w, NEW t, w \in Seq(ToSet(w)), t \in Seq(ToSet(t)), t # <<>>, AllApart(w, t),
         NEW unit, unit.ch = Head(t)
  PROVE  AllApart(Append(w, unit), Tail(t))
<1> DEFINE a == Append(w, unit)
           b == Tail(t)
<1>1. /\ DOMAIN w = 1..Len(w) /\ Len(w) \in Nat /\ a[Len(w) + 1] = unit
      /\ \A i \in 1..Len(w) : a[i] = w[i]
      /\ \A i \in DOMAIN a : i \in DOMAIN w \/ i = Len(w) + 1
  BY AppendIs
<1>2. /\ 1 \in DOMAIN t /\ Head(t) = t[1]
      /\ \A i \in DOMAIN b : i + 1 \in DOMAIN t /\ i + 1 # 1 /\ b[i] = t[i + 1]
  BY HeadTail
<1>3. \A i \in DOMAIN b : i \in Int
  <2>1. b \in Seq(ToSet(b))
    BY HeadTail
  <2> HIDE DEF b
  <2> QED
    BY <2>1
<1> HIDE DEF a, b
<1>4. ASSUME NEW i \in DOMAIN a, NEW j \in DOMAIN a, i # j PROVE Unshared(a[i].ch, a[j].ch)
  <2>1. CASE i \in DOMAIN w /\ j \in DOMAIN w
    BY <1>1, <1>4, <2>1 DEF AllApart
  <2>2. CASE i \in DOMAIN w /\ j = Len(w) + 1
    BY <1>1, <1>2, <2>2 DEF AllApart
  <2>3. CASE i = Len(w) + 1 /\ j \in DOMAIN w
    BY <1>1, <1>2, <2>3, UnsharedSym DEF AllApart
  <2> QED
    BY <1>1, <1>4, <2>1, <2>2, <2>3
<1>5. ASSUME NEW i \in DOMAIN b, NEW j \in DOMAIN b, i # j PROVE Unshared(b[i], b[j])
  <2>1. i + 1 # j + 1
    BY <1>3, <1>5
  <2> QED
    BY <1>2, <2>1 DEF AllApart
<1>6. ASSUME NEW i \in DOMAIN a, NEW j \in DOMAIN b PROVE Unshared(a[i].ch, b[j])
  <2>1. CASE i \in DOMAIN w
    BY <1>1, <1>2, <2>1 DEF AllApart
  <2>2. CASE i = Len(w) + 1
    BY <1>1, <1>2, <2>2 DEF AllApart
  <2> QED
    BY <1>1, <2>1, <2>2
<1> QED
  BY <1>4, <1>5, <1>6 DEF AllApart, a, b

\* Applying the first planned chunk keeps all apart.
LEMMA ApartApplied ==
  ASSUME NEW w, NEW t, w \in Seq(ToSet(w)), w # <<>>, AllApart(w, t)
  PROVE  AllApart(Tail(w), t)
<1> DEFINE b == Tail(w)
<1>1. \A i \in DOMAIN b : i + 1 \in DOMAIN w /\ b[i] = w[i + 1]
  BY HeadTail
<1>2. \A i \in DOMAIN b : i \in Int
  <2>1. b \in Seq(ToSet(b))
    BY HeadTail
  <2> HIDE DEF b
  <2> QED
    BY <2>1
<1> HIDE DEF b
<1>3. \A i, j \in DOMAIN b : i # j => i + 1 # j + 1
  BY <1>2
<1> QED
  BY <1>1, <1>3 DEF AllApart, b

\* The chunks of a plan stay apart.
LEMMA ApartStep ==
  ASSUME RowInv, TodoOK, ChunksApart, [Next]_vars
  PROVE  ChunksApart'
<1> SUFFICES ASSUME phase' \in PlanPhases PROVE AllApart(work', todo')
  BY DEF ChunksApart, AllApart, PlanPhases
<1>0. /\ TypeOK /\ work \in Seq(ToSet(work)) /\ todo \in Seq(ToSet(todo))
      /\ (phase \in PlanPhases => AllApart(work, todo))
  BY DEF RowInv, WorkOK, TodoOK, ChunksApart
<1>1. CASE Plan /\ phase' = "extremes" /\ work' = <<>>
  <2>1. /\ todo' = Chosen(PlanOf, InOrder(PickedOf)) /\ Matching(src) # {}
        /\ targets \subseteq {PlanOf[i].id : i \in DOMAIN PlanOf}
    BY <1>1, PlanCases
  <2> QED
    BY <1>0, <1>1, <2>1, PlanOfTiles, Picked, ChosenApart
<1>2. CASE phase \in PlanPhases /\ PlanKept(work', todo')
  BY <1>0, <1>2 DEF PlanKept
<1>3. CASE CheckHolders /\ phase = "check" /\ PlanAdvanced(work', todo')
  <2> DEFINE unit == [ch |-> Head(todo), rows |-> scan.src, ops |-> scan.ops]
  <2>1. work' = Append(work, unit) /\ todo' = Tail(todo) /\ todo # <<>> /\ AllApart(work, todo)
    BY <1>0, <1>3 DEF PlanAdvanced, TodoOK, PlanPhases
  <2>2. unit.ch = Head(todo)
    OBVIOUS
  <2> HIDE DEF unit
  <2> QED
    BY <1>0, <2>1, <2>2, ApartAdvance
<1>4. CASE ApplyGroup /\ phase = "groups" /\ PlanApplied(work', todo')
  BY <1>0, <1>4, ApartApplied DEF PlanApplied, PlanPhases
<1> QED
  BY <1>1, <1>2, <1>3, <1>4, PlanChanges

-----------------------------------------------------------------------------
(***************************************************************************)
(* The pass over the rows outside the source's range, page by page.        *)
(***************************************************************************)
PageOf(A, cap) == {r \in A : Cardinality({s \in A : s.k < r.k}) < cap}

\* A page is the first keys of what is ahead; a short one is all of it.
LEMMA PageIs ==
  ASSUME NEW A, IsFiniteSet(A), \A r \in A : r.k \in Int, NEW cap \in Nat \ {0}
  PROVE  /\ PageOf(A, cap) = {} => A = {}
         /\ PageOf(A, cap) = A \/ ~(Cardinality(PageOf(A, cap)) < cap)
         /\ \A r \in A \ PageOf(A, cap), p \in PageOf(A, cap) : p.k < r.k
<1> DEFINE below(r) == {s \in A : s.k < r.k}
           page == PageOf(A, cap)
<1>1. \A r \in A : below(r) \subseteq A /\ IsFiniteSet(below(r)) /\ Cardinality(below(r)) \in Nat
  BY FS_Subset, FS_CardinalityType
<1>2. \A r \in A : r \in page <=> Cardinality(below(r)) < cap
  BY DEF PageOf
<1>3. page \subseteq A /\ IsFiniteSet(page) /\ Cardinality(page) \in Nat
  <2>1. page \subseteq A
    BY DEF PageOf
  <2> QED
    BY <2>1, FS_Subset, FS_CardinalityType
<1>4. \A r, p \in A : r.k <= p.k => below(r) \subseteq below(p)
  OBVIOUS
<1> HIDE DEF below, page
<1>5. \A r \in A \ page, p \in page : p.k < r.k
  <2> SUFFICES ASSUME NEW r \in A \ page, NEW p \in page, ~(p.k < r.k) PROVE FALSE
    OBVIOUS
  <2>1. p \in A /\ r \in A /\ r.k \in Int /\ p.k \in Int
    BY <1>3
  <2>2. r.k <= p.k
    BY <2>1
  <2>3. below(r) \in SUBSET below(p)
    BY <1>4, <2>1, <2>2
  <2>4. Cardinality(below(r)) <= Cardinality(below(p))
    BY <1>1, <2>1, <2>3, FS_Subset
  <2> QED
    BY <1>1, <1>2, <2>1, <2>4
<1>6. ASSUME page # A PROVE ~(Cardinality(page) < cap)
  <2> DEFINE rest == A \ page
             ks   == {r.k : r \in rest}
  <2>1. rest # {} /\ ks # {} /\ ks \in SUBSET Int
    BY <1>3, <1>6
  <2>2. IsFiniteSet(rest)
    <3>1. rest \in SUBSET A
      OBVIOUS
    <3> QED
      BY <3>1, FS_Subset
  <2>3. IsFiniteSet(ks)
    <3> DEFINE f == [r \in rest |-> r.k]
    <3>1. f \in Surjection(rest, ks)
      BY DEF Surjection
    <3> HIDE DEF f, ks
    <3> QED
      BY <2>2, <3>1, FS_Surjection
  <2> HIDE DEF ks
  <2>4. Min(ks) \in ks /\ \A x \in ks : Min(ks) <= x
    BY <2>1, <2>3, ExtremesOf
  <2>5. PICK r \in rest : r.k = Min(ks)
    BY <2>4 DEF ks
  <2>6. \A s \in rest : r.k <= s.k
    BY <2>4, <2>5 DEF ks
  <2>7. below(r) \in SUBSET page
    <3> SUFFICES ASSUME NEW s \in A, s.k < r.k, s \notin page PROVE FALSE
      BY DEF below
    <3>1. s \in rest /\ r \in A
      BY <2>5
    <3> QED
      BY <2>6, <3>1
  <2>8. Cardinality(below(r)) <= Cardinality(page)
    BY <1>3, <2>7, FS_Subset
  <2>9. r \in A /\ ~(Cardinality(below(r)) < cap)
    BY <1>2, <2>5
  <2> QED
    BY <1>1, <1>3, <2>8, <2>9
<1>7. page = {} => A = {}
  <2>1. Cardinality({}) = 0 /\ 0 < cap
    BY FS_EmptySet
  <2> QED
    BY <1>6, <2>1
<1> QED
  BY <1>5, <1>6, <1>7 DEF page

Past(last, k) == last = <<>> \/ k > last[1]
InTail(tail, sp, k) == IF tail = "low" THEN k < sp[1] ELSE k > sp[2]

\* What the pass has left behind its cursor.
Behind(cur, sp, rows) ==
  /\ cur \in [tail : {"low", "high"}, last : {<<>>} \cup {<<k>> : k \in Keys}]
  /\ \A r \in rows : InTail(cur.tail, sp, r.k) => Past(cur.last, r.k)
  /\ cur.tail = "high" => \A r \in rows : r.k >= sp[1]

CursorOK ==
  phase = "outOfRange" =>
    /\ oorDel > 0 /\ span \in Keys \X Keys
    /\ Behind(cursor, span, Matching(dst))

\* The cursor's condition as integers.
LEMMA PastIs ==
  ASSUME NEW last, last = <<>> \/ \E k \in Int : last = <<k>>, NEW k \in Int
  PROVE  Past(last, k) <=> last = <<>> \/ GreaterThan3(<<k>>, last) = True3
<1>1. CASE last = <<>>
  BY <1>1 DEF Past
<1>2. CASE last # <<>>
  <2>1. PICK l \in Int : last = <<l>>
    BY <1>2
  <2>2. last[1] = l /\ (GreaterThan3(<<k>>, <<l>>) = True3 <=> l < k)
    BY <2>1, OneColumn
  <2> QED
    BY <1>2, <2>1, <2>2 DEF Past
<1> QED
  BY <1>1, <1>2

Ahead == {r \in Matching(dst) : InTail(cursor.tail, span, r.k) /\ Past(cursor.last, r.k)}

\* The page the pass reads is the first page of what is ahead.
LEMMA PageOfAhead ==
  ASSUME RowInv, CursorOK, phase = "outOfRange"
  PROVE  /\ Page = PageOf(Ahead, DeleteCap) /\ IsFiniteSet(Ahead)
         /\ \A r \in Ahead : r.k \in Int
         /\ DeleteCap \in Nat \ {0} /\ span[1] \in Int /\ span[2] \in Int
<1>1. /\ setting \in Settings /\ dst \subseteq Row /\ span \in Keys \X Keys
      /\ cursor \in [tail : {"low", "high"}, last : {<<>>} \cup {<<k>> : k \in Keys}]
  BY DEF RowInv, TypeOK, CursorOK, Behind
<1>2. Keys \subseteq Int /\ DeleteCap \in Nat \ {0} /\ IsFiniteSet(Row)
  BY <1>1, SettingFacts
<1>3. /\ \A r \in dst : r.k \in Int
      /\ span[1] \in Int /\ span[2] \in Int
      /\ cursor.last = <<>> \/ \E k \in Int : cursor.last = <<k>>
  BY <1>1, <1>2 DEF Row
<1> DEFINE ahead == {r \in Matching(Tail1(dst)) :
                       cursor.last = <<>> \/ GreaterThan3(<<r.k>>, cursor.last) = True3}
<1>4. \A r \in dst : /\ LessThan3(<<r.k>>, <<span[1]>>) = True3 <=> r.k < span[1]
                     /\ GreaterThan3(<<r.k>>, <<span[2]>>) = True3 <=> r.k > span[2]
                     /\ Past(cursor.last, r.k) <=>
                          cursor.last = <<>> \/ GreaterThan3(<<r.k>>, cursor.last) = True3
  BY <1>3, OneColumn, PastIs
<1>5. \A r \in dst : r \in Tail1(dst) <=> InTail(cursor.tail, span, r.k)
  BY <1>4 DEF Tail1, InTail
<1>6. ahead = Ahead
  <2>1. \A r : r \in ahead <=> /\ r \in dst /\ r \in Tail1(dst) /\ r.p \in setting.matched
                               /\ cursor.last = <<>> \/ GreaterThan3(<<r.k>>, cursor.last) = True3
    BY DEF Matching, Tail1
  <2>2. \A r : r \in Ahead <=> /\ r \in dst /\ r.p \in setting.matched
                               /\ InTail(cursor.tail, span, r.k) /\ Past(cursor.last, r.k)
    BY DEF Matching, Ahead
  <2> HIDE DEF ahead
  <2>3. \A r : r \in ahead <=> r \in Ahead
    BY <1>4, <1>5, <2>1, <2>2
  <2> QED
    BY <2>3, Zenon DEF ahead, Ahead
<1>7. Page = PageOf(ahead, DeleteCap)
  BY DEF Page, PageOf
<1>8. Ahead \in SUBSET Row
  BY <1>1 DEF Ahead, Matching
<1>9. IsFiniteSet(Ahead) /\ \A r \in Ahead : r.k \in Int
  BY <1>2, <1>3, <1>8, FS_Subset DEF Ahead, Matching
<1> QED
  BY <1>2, <1>3, <1>6, <1>7, <1>9

Passed(rows) == {r \in rows : \A s \in Page : r.k # s.k}
EndOfTail ==
  IF cursor.tail = "low"
  THEN cursor' = [tail |-> "high", last |-> <<>>] /\ UNCHANGED phase
  ELSE phase' = "groups" /\ UNCHANGED cursor

\* Where a page that commits leads.
LEMMA PassCases ==
  ASSUME DeleteOutOfRange, phase' # "failed"
  PROVE  /\ phase = "outOfRange" /\ dst' = Passed(dst)
         /\ UNCHANGED <<src, targets, span, oorDel, scan, moves, setting, work, todo>>
         /\ \/ (Page = {} \/ Cardinality(Page) < DeleteCap) /\ EndOfTail
            \/ /\ Page # {} /\ ~(Cardinality(Page) < DeleteCap)
               /\ cursor' = [cursor EXCEPT !.last = <<Max({r.k : r \in Page})>>]
               /\ UNCHANGED phase
<1>0. phase = "outOfRange" /\ UNCHANGED <<src, targets, span, oorDel, scan, moves, setting>>
  BY DEF DeleteOutOfRange
<1>1. CASE Page = {}
  <2>1. EndOfTail /\ UNCHANGED <<dst, todo, work, keys, duplicate, failures>>
    BY <1>1 DEF DeleteOutOfRange, EndOfTail
  <2>2. Passed(dst) = dst
    BY <1>1 DEF Passed
  <2> QED
    BY <1>0, <1>1, <2>1, <2>2
<1>2. CASE Page # {}
  <2>1. Transaction({r \in dst : \A s \in Page : r.k # s.k}, FALSE,
          /\ IF Cardinality(Page) < DeleteCap THEN EndOfTail
             ELSE cursor' = [cursor EXCEPT !.last = <<Max({r.k : r \in Page})>>]
                  /\ UNCHANGED phase
          /\ UNCHANGED <<todo, work, keys>>)
    BY <1>2 DEF DeleteOutOfRange, EndOfTail
  <2>2. /\ dst' = Passed(dst) /\ UNCHANGED <<todo, work>>
        /\ IF Cardinality(Page) < DeleteCap THEN EndOfTail
           ELSE cursor' = [cursor EXCEPT !.last = <<Max({r.k : r \in Page})>>]
                /\ UNCHANGED phase
    BY <2>1 DEF Transaction, Passed
  <2> QED
    BY <1>0, <1>2, <2>2
<1> QED
  BY <1>1, <1>2

\* One page: only rows outside the range go, and the cursor has left behind
\* none that it passed; at the end none is left.
LEMMA PassStep ==
  ASSUME RowInv, CursorOK, DeleteOutOfRange, phase' # "failed"
  PROVE  /\ \A r \in dst : r \in dst' \/ r.k < span[1] \/ r.k > span[2]
         /\ dst' \subseteq dst
         /\ \/ phase' = "outOfRange" /\ Behind(cursor', span, Matching(dst'))
            \/ phase' = "groups" /\ \A r \in Matching(dst') : r.k >= span[1] /\ ~(r.k > span[2])
<1>0. /\ phase = "outOfRange" /\ dst' = Passed(dst)
      /\ \/ (Page = {} \/ Cardinality(Page) < DeleteCap) /\ EndOfTail
         \/ /\ Page # {} /\ ~(Cardinality(Page) < DeleteCap)
            /\ cursor' = [cursor EXCEPT !.last = <<Max({r.k : r \in Page})>>]
            /\ UNCHANGED phase
  BY PassCases
<1>1. /\ Page = PageOf(Ahead, DeleteCap) /\ IsFiniteSet(Ahead)
      /\ \A r \in Ahead : r.k \in Int
      /\ DeleteCap \in Nat \ {0} /\ span[1] \in Int /\ span[2] \in Int
  BY <1>0, PageOfAhead
<1>2. /\ Page = {} => Ahead = {}
      /\ Page = Ahead \/ ~(Cardinality(Page) < DeleteCap)
      /\ \A r \in Ahead \ Page, p \in Page : p.k < r.k
      /\ Page \subseteq Ahead
  <2>1. Page \subseteq Ahead
    BY <1>1 DEF PageOf
  <2> QED
    BY <1>1, <2>1, PageIs
<1>3. Behind(cursor, span, Matching(dst))
  BY <1>0 DEF CursorOK
<1>4. setting \in Settings /\ dst \subseteq Row /\ Keys \subseteq Int
  BY SettingFacts DEF RowInv, TypeOK
<1>5. \A r \in dst : r.k \in Keys /\ r.k \in Int
  BY <1>4 DEF Row
<1>6. dst' \subseteq dst /\ Matching(dst') \subseteq Matching(dst) /\ Matching(dst) \subseteq dst
  BY <1>0 DEF Passed, Matching
<1>7. \A r \in Matching(dst) : InTail(cursor.tail, span, r.k) => r \in Ahead
  BY <1>3 DEF Behind, Ahead
<1>8. \A r \in Page : InTail(cursor.tail, span, r.k) /\ r \in dst
  BY <1>2, <1>6 DEF Ahead
<1>9. \A r \in dst : r \in dst' \/ r.k < span[1] \/ r.k > span[2]
  <2> SUFFICES ASSUME NEW r \in dst, r \notin dst' PROVE r.k < span[1] \/ r.k > span[2]
    OBVIOUS
  <2>1. PICK s \in Page : r.k = s.k
    BY <1>0 DEF Passed
  <2> QED
    BY <1>8, <2>1 DEF InTail
<1>10. \A r \in Matching(dst') : r \notin Page
  BY <1>0 DEF Passed, Matching
<1>11. CASE (Page = {} \/ Cardinality(Page) < DeleteCap) /\ EndOfTail
  <2>1. \A r \in Matching(dst') : ~InTail(cursor.tail, span, r.k)
    BY <1>2, <1>6, <1>7, <1>10, <1>11
  <2>2. CASE cursor.tail = "low"
    <3>1. cursor' = [tail |-> "high", last |-> <<>>] /\ phase' = "outOfRange"
      BY <1>0, <1>11, <2>2 DEF EndOfTail
    <3>2. \A r \in Matching(dst') : r.k >= span[1]
      BY <1>1, <1>5, <1>6, <2>1, <2>2 DEF InTail
    <3>3. /\ cursor' \in [tail : {"low", "high"}, last : {<<>>} \cup {<<k>> : k \in Keys}]
          /\ cursor'.last = <<>>
      BY <3>1
    <3>4. Behind(cursor', span, Matching(dst'))
      BY <3>2, <3>3 DEF Behind, Past
    <3> QED
      BY <1>6, <1>9, <3>1, <3>4
  <2>3. CASE cursor.tail # "low"
    <3>1. phase' = "groups" /\ cursor.tail = "high"
      BY <1>3, <1>11, <2>3 DEF EndOfTail, Behind
    <3>2. \A r \in Matching(dst') : r.k >= span[1] /\ ~(r.k > span[2])
      BY <1>3, <1>6, <2>1, <3>1 DEF InTail, Behind
    <3> QED
      BY <1>6, <1>9, <3>1, <3>2
  <2> QED
    BY <2>2, <2>3
<1>12. CASE /\ Page # {} /\ ~(Cardinality(Page) < DeleteCap)
            /\ cursor' = [cursor EXCEPT !.last = <<Max({r.k : r \in Page})>>]
            /\ UNCHANGED phase
  <2> DEFINE ks == {r.k : r \in Page}
  <2>1. ks \subseteq Keys /\ ks \in SUBSET Int /\ ks # {}
    BY <1>5, <1>8, <1>12
  <2>2. IsFiniteSet(ks)
    <3>1. IsFiniteSet(Keys)
      BY <1>4, RowAssumption DEF Keys
    <3> QED
      BY <2>1, <3>1, FS_Subset
  <2> HIDE DEF ks
  <2>3. Max(ks) \in ks /\ \A x \in ks : x <= Max(ks)
    BY <2>1, <2>2, ExtremesOf
  <2>4. PICK p \in Page : p.k = Max(ks)
    BY <2>3 DEF ks
  <2>5. /\ cursor' = [cursor EXCEPT !.last = <<Max(ks)>>] /\ Max(ks) \in Keys /\ Max(ks) \in Int
        /\ phase' = "outOfRange"
    BY <1>0, <1>12, <2>1, <2>3 DEF ks
  <2> HIDE DEF Max
  <2>6. cursor \in [tail : {"low", "high"}, last : {<<>>} \cup {<<k>> : k \in Keys}]
    BY <1>3 DEF Behind
  <2>7. cursor' \in [tail : {"low", "high"}, last : {<<>>} \cup {<<k>> : k \in Keys}]
    BY <2>5, <2>6
  <2>8. cursor'.tail = cursor.tail /\ cursor'.last = <<Max(ks)>>
    BY <2>5, <2>6
  <2>9. \A r \in Matching(dst') : InTail(cursor.tail, span, r.k) => r.k > Max(ks)
    <3> SUFFICES ASSUME NEW r \in Matching(dst'), InTail(cursor.tail, span, r.k)
                 PROVE  r.k > Max(ks)
      OBVIOUS
    <3>1. r \in Ahead \ Page
      BY <1>6, <1>7, <1>10
    <3>2. p.k < r.k
      BY <1>2, <2>4, <3>1
    <3> QED
      BY <1>1, <2>4, <2>5, <3>1, <3>2
  <2>10. cursor'.tail = "high" => \A r \in Matching(dst') : r.k >= span[1]
    BY <1>3, <1>6, <2>8 DEF Behind
  <2>11. Behind(cursor', span, Matching(dst'))
    BY <2>7, <2>8, <2>9, <2>10 DEF Behind, Past
  <2> QED
    BY <1>6, <1>9, <2>5, <2>11
<1> QED
  BY <1>0, <1>11, <1>12

\* The pass leaves nothing behind its cursor.
LEMMA CursorStep ==
  ASSUME RowInv, CursorOK, [Next]_vars
  PROVE  CursorOK'
<1> SUFFICES ASSUME phase' = "outOfRange"
             PROVE  oorDel' > 0 /\ span' \in Keys \X Keys /\ Behind(cursor', span', Matching(dst'))
  <2>1. setting' = setting
    BY TableStep
  <2>2. Keys' = Keys /\ Matching(dst)' = Matching(dst')
    BY <2>1 DEF Keys, Matching
  <2> QED
    BY <2>2 DEF CursorOK, Behind
<1>1. CASE StartApply
  <2>1. /\ oorDel > 0 /\ oorDel' = oorDel /\ span' = Extremes(Matching(src)) /\ span' # <<>>
        /\ cursor' = [tail |-> "low", last |-> <<>>]
    BY <1>1 DEF StartApply
  <2>2. setting \in Settings /\ Matching(src) \in SUBSET Row /\ Matching(src) # {}
    BY <2>1 DEF RowInv, TypeOK, Matching, Extremes
  <2>3. span' \in Keys \X Keys
    BY <2>1, <2>2, ExtremesAre
  <2>4. /\ cursor' \in [tail : {"low", "high"}, last : {<<>>} \cup {<<k>> : k \in Keys}]
        /\ cursor'.last = <<>> /\ cursor'.tail = "low"
    BY <2>1
  <2>5. Behind(cursor', span', Matching(dst'))
    BY <2>4 DEF Behind, Past
  <2> QED
    BY <2>1, <2>3, <2>5
<1>2. CASE DeleteOutOfRange
  <2>1. phase' # "groups" /\ phase' # "failed"
    OBVIOUS
  <2>2. Behind(cursor', span, Matching(dst'))
    BY <1>2, <2>1, PassStep
  <2>3. phase = "outOfRange" /\ span' = span /\ oorDel' = oorDel
    BY <1>2 DEF DeleteOutOfRange
  <2> QED
    BY <2>2, <2>3 DEF CursorOK
<1>3. CASE ~StartApply /\ ~DeleteOutOfRange
  <2>1. /\ phase = "outOfRange" /\ phase' = phase
        /\ dst' = dst /\ span' = span /\ oorDel' = oorDel /\ cursor' = cursor
    <3>1. CASE Move \/ UNCHANGED vars
      BY <3>1 DEF Move, planVars, vars
    <3>2. CASE Plan
      BY <3>2, PlanCases
    <3>3. CASE ApplyGroup
      <4>1. phase' \in {"groups", "failed"}
        BY <3>3, Zenon DEF ApplyGroup, Transaction
      <4> QED
        BY <4>1
    <3>4. CASE StreamChunk
      <4>1. phase' \in {"load", "failed"}
        BY <3>4, Zenon DEF StreamChunk, Transaction
      <4> QED
        BY <4>1
    <3>5. CASE CheckHolders \/ Compare \/ ReadExtremes \/ ScanSource \/ ScanDestination
      BY <3>5 DEF CheckHolders, Escalate, Compare, ReadExtremes, ScanSource, ScanDestination
    <3>6. CASE FinishApply \/ PlanStreamDeletes \/ StreamDeletes \/ Truncate \/ PlanLoad
               \/ FinishLoad \/ Verify \/ Rerun
      BY <3>6 DEF FinishApply, PlanStreamDeletes, StreamDeletes, Truncate, PlanLoad, FinishLoad,
         Verify, Rerun, Transaction
    <3> QED
      BY <1>3, <3>1, <3>2, <3>3, <3>4, <3>5, <3>6 DEF Next, Step
  <2> QED
    BY <2>1 DEF CursorOK
<1> QED
  BY <1>1, <1>2, <1>3

-----------------------------------------------------------------------------
(***************************************************************************)
(* The chunk being scanned, and the planned ones.                          *)
(***************************************************************************)
Gone(n, sp) == IF n > 0 THEN OutsideOf(Row, sp) ELSE {}

\* A chunk's rows now, against those the plan read.
Left(ph, gone, now, old) ==
  /\ now \subseteq old /\ old \ gone \subseteq now
  /\ ph = "groups" => now = old \ gone
  /\ ph \notin {"groups", "outOfRange"} => now = old

FitsAs(K, w, old, ph, gone, rows) ==
  /\ w.ops = Diff(w.rows, old) /\ Sides(K, w.rows, old)
  /\ w.rows \subseteq OfChunk(w.ch) /\ old \subseteq OfChunk(w.ch)
  /\ Left(ph, gone, InChunk(Matching(rows), w.ch), old)
Fits(K, w, ph, gone, rows) == \E old : FitsAs(K, w, old, ph, gone, rows)

WorkFits ==
  phase \in PlanPhases =>
    \A i \in DOMAIN work : Fits(SafeKeys, work[i], phase, Gone(oorDel, span), dst)

ScanFits ==
  /\ phase \in {"scanDestination", "check"} => scan.src \subseteq OfChunk(Head(todo))
  /\ phase = "check" =>
       /\ Sides(SafeKeys, scan.src, scan.dst) /\ scan.ops = Diff(scan.src, scan.dst)
       /\ scan.dst = InChunk(Matching(dst), Head(todo))

\* Fits does not depend on the variables but the setting.
LEMMA SameFits ==
  ASSUME setting' = setting
  PROVE  /\ \A rows : Matching(rows)' = Matching(rows)
         /\ \A ch : OfChunk(ch)' = OfChunk(ch)
         /\ \A n, sp : Gone(n, sp)' = Gone(n, sp)
         /\ \A K, s, d : Sides(K, s, d)' <=> Sides(K, s, d)
         /\ \A K, w, ph, gone, rows :
              Fits(K, w, ph, gone, rows)' <=> Fits(K, w, ph, gone, rows)
<1>1. Row' = Row /\ Keys' = Keys /\ Matching(Row)' = Matching(Row)
  BY SameSetting
<1>2. \A rows : Matching(rows)' = Matching(rows)
  BY DEF Matching
<1>3. \A ch : OfChunk(ch)' = OfChunk(ch)
  BY <1>1 DEF OfChunk, InChunk
<1>4. \A n, sp : Gone(n, sp)' = Gone(n, sp)
  BY <1>1 DEF Gone, OutsideOf
<1>5. \A K, s, d : Sides(K, s, d)' <=> Sides(K, s, d)
  BY <1>1 DEF Sides
<1>6. ASSUME NEW K, NEW w, NEW old, NEW ph, NEW gone, NEW rows
      PROVE  FitsAs(K, w, old, ph, gone, rows)' <=> FitsAs(K, w, old, ph, gone, rows)
  <2>1. Diff(w.rows, old)' = Diff(w.rows, old)
    BY SameDiff
  <2>2. InChunk(Matching(rows), w.ch)' = InChunk(Matching(rows), w.ch)
    BY <1>2 DEF InChunk
  <2> QED
    BY <1>3, <1>5, <2>1, <2>2 DEF FitsAs, Left
<1>7. \A K, w, ph, gone, rows : Fits(K, w, ph, gone, rows)' <=> Fits(K, w, ph, gone, rows)
  BY <1>6 DEF Fits
<1> QED
  BY <1>2, <1>3, <1>4, <1>5, <1>7

\* The scanned rows of both sides are the chunk's.
LEMMA ScanFitsStep ==
  ASSUME RowInv, TodoOK, ScanFits, [Next]_vars
  PROVE  ScanFits'
<1>0. setting' = setting /\ TypeOK /\ setting \in Settings
  BY TableStep DEF RowInv, TypeOK
<1>1. SafeKeys' = SafeKeys
  BY TableStep, SameSafeKeys
<1>2. /\ \A rows : Matching(rows)' = Matching(rows)
      /\ \A ch : OfChunk(ch)' = OfChunk(ch)
      /\ \A K, s, d : Sides(K, s, d)' <=> Sides(K, s, d)
      /\ \A s, d : Diff(s, d)' = Diff(s, d)
  BY <1>0, SameFits, SameDiff
<1>3. SUFFICES
        /\ phase' \in {"scanDestination", "check"} => scan'.src \subseteq OfChunk(Head(todo'))
        /\ phase' = "check" =>
             /\ Sides(SafeKeys, scan'.src, scan'.dst) /\ scan'.ops = Diff(scan'.src, scan'.dst)
             /\ scan'.dst = InChunk(Matching(dst'), Head(todo'))
  BY <1>1, <1>2 DEF ScanFits, InChunk
<1>4. CASE ScanSource
  <2>1. /\ scan' = [src |-> InChunk(Matching(src), Head(todo)), dst |-> {}, ops |-> <<>>]
        /\ phase' = "scanDestination" /\ todo' = todo
    BY <1>4 DEF ScanSource
  <2>2. scan'.src = InChunk(Matching(src), Head(todo))
    BY <2>1
  <2> QED
    BY <1>0, <2>1, <2>2 DEF OfChunk, InChunk, Matching, TypeOK
<1>5. CASE ScanDestination
  <2> DEFINE d == InChunk(Matching(dst), Head(todo))
             s == scan.src
  <2>1. scan' = [scan EXCEPT !.dst = d, !.ops = Diff(s, d)] /\ todo' = todo /\ dst' = dst
    BY <1>5 DEF ScanDestination
  <2>2. /\ scan \in [src : SUBSET Matching(Row), dst : SUBSET Row, ops : Seq(OpsOver(SafeKeys))]
        /\ s \subseteq OfChunk(Head(todo))
    BY <1>5 DEF RowInv, ScanOK, ScanDestination, ScanFits
  <2>3. scan'.src = s /\ scan'.dst = d /\ scan'.ops = Diff(s, d)
    <3> HIDE DEF d
    <3> QED
      BY <2>1, <2>2
  <2>4. Sides(SafeKeys, s, d)
    <3>1. d \subseteq Matching(dst) /\ d \subseteq Matching(Row) /\ s \subseteq Matching(Row)
      BY <1>0, <2>2 DEF TypeOK, InChunk, Matching
    <3>2. \A x \in d : x.k \in SafeKeys
      BY <1>0, <3>1, MatchingSafe
    <3> QED
      BY <1>0, <3>1, <3>2 DEF Sides, SafeKeys
  <2> QED
    BY <2>1, <2>2, <2>3, <2>4
<1>6. CASE ~ScanSource /\ ~ScanDestination
  <2> SUFFICES ASSUME phase' \in {"scanDestination", "check"}
               PROVE  scan' = scan /\ todo' = todo /\ dst' = dst /\ phase' = phase
    BY DEF ScanFits
  <2>1. CASE Move \/ UNCHANGED vars
    BY <2>1 DEF Move, planVars, vars
  <2>2. CASE Plan
    BY <2>2, PlanCases
  <2>3. CASE ApplyGroup
    <3>1. phase' \in {"groups", "failed"}
      BY <2>3, Zenon DEF ApplyGroup, Transaction
    <3> QED
      BY <3>1
  <2>4. CASE StreamChunk
    <3>1. phase' \in {"load", "failed"}
      BY <2>4, Zenon DEF StreamChunk, Transaction
    <3> QED
      BY <3>1
  <2>5. CASE CheckHolders \/ Compare \/ ReadExtremes
    BY <2>5 DEF CheckHolders, Escalate, Compare, ReadExtremes
  <2>6. CASE StartApply \/ FinishApply \/ PlanStreamDeletes \/ StreamDeletes \/ Truncate \/ PlanLoad
             \/ FinishLoad \/ Verify \/ Rerun \/ DeleteOutOfRange
    BY <2>6 DEF StartApply, FinishApply, PlanStreamDeletes, StreamDeletes, Truncate, PlanLoad,
       FinishLoad, Verify, Rerun, DeleteOutOfRange, Transaction
  <2> QED
    BY <1>6, <2>1, <2>2, <2>3, <2>4, <2>5, <2>6 DEF Next, Step
<1> QED
  BY <1>4, <1>5, <1>6

\* Writes outside a planned chunk do not matter to it.
LEMMA FitsElsewhere ==
  ASSUME NEW K, NEW w, NEW ph, NEW gone, NEW rows, NEW new, Fits(K, w, ph, gone, rows),
         rows \subseteq Row, new \subseteq Row,
         \A r \in Row : Selects(w.ch, <<r.k>>) => (r \in new <=> r \in rows)
  PROVE  Fits(K, w, ph, gone, new)
<1>1. InChunk(Matching(new), w.ch) = InChunk(Matching(rows), w.ch)
  BY DEF InChunk, Matching
<1> QED
  BY <1>1 DEF Fits, FitsAs

\* Before anything is deleted a planned chunk fits in every phase.
LEMMA FitsPlain ==
  ASSUME NEW K, NEW w, NEW ph, NEW gone, NEW rows, Fits(K, w, ph, gone, rows),
         ph \notin {"groups", "outOfRange"}, NEW ph2, ph2 # "groups", NEW gone2
  PROVE  Fits(K, w, ph2, gone2, rows)
  BY DEF Fits, FitsAs, Left

\* What a unit's transaction makes of the table: the chunk is the source's
\* as the plan read it, and nothing else has changed.
Mirrors(w, gone, rows, new) ==
  /\ new \in SUBSET Row
  /\ (\A s, d : s \subseteq OfChunk(w.ch) /\ d \subseteq OfChunk(w.ch) => Uniform(s, d, gone))
       => Same(InChunk(Matching(new), w.ch) \ gone, w.rows \ gone)
  /\ \A r \in Row : ~Selects(w.ch, <<r.k>>) => (r \in new <=> r \in rows)

\* A planned chunk whose transaction commits mirrors the source as read.
LEMMA UnitCommitted ==
  ASSUME TypeOK, NEW w, NEW gone, Fits(SafeKeys, w, "groups", gone, dst), ~RunOps(dst, w.ops).dup
  PROVE  Mirrors(w, gone, dst, RunOps(dst, w.ops).rows)
<1>1. PICK old : FitsAs(SafeKeys, w, old, "groups", gone, dst)
  BY DEF Fits
<1> DEFINE s   == w.rows
           ch  == w.ch
           new == RunOps(dst, w.ops).rows
<1>2. w.ops = Diff(s, old) /\ s \subseteq OfChunk(ch) /\ old \subseteq OfChunk(ch)
  BY <1>1 DEF FitsAs
<1>3. Ready(SafeKeys, Unmatched, dst, ch, s, old, gone)
  BY <1>1, SafeApart DEF FitsAs, Left, Ready
<1>4. ~RunOps(dst, Diff(s, old)).dup /\ new = RunOps(dst, Diff(s, old)).rows
  BY <1>2
<1> HIDE DEF s, ch, new
<1>5. Became(dst, ch, s, old, gone, RunOps(dst, Diff(s, old)).rows)
  BY <1>3, <1>4, ChunkSame
<1>6. Became(dst, ch, s, old, gone, new)
  BY <1>4, <1>5
<1> QED
  BY <1>2, <1>6 DEF Became, Mirrors, s, ch, new

\* A group's transaction that commits.
LEMMA GroupCommits ==
  ASSUME ApplyGroup, phase' # "failed"
  PROVE  /\ phase = "groups" /\ phase' = "groups" /\ work # <<>> /\ work' = Tail(work)
         /\ ~RunOps(dst, Head(work).ops).dup /\ dst' = RunOps(dst, Head(work).ops).rows
         /\ UNCHANGED <<src, targets, span, oorDel, scan, moves, setting, todo>>
<1> DEFINE result == RunOps(dst, Head(work).ops)
<1>1. /\ phase = "groups" /\ work # <<>>
      /\ Transaction(result.rows, result.dup,
           work' = Tail(work) /\ UNCHANGED <<phase, todo, keys, cursor>>)
      /\ UNCHANGED <<src, targets, span, oorDel, scan, moves, setting>>
  BY DEF ApplyGroup
<1> HIDE DEF result
<1>2. ~result.dup /\ dst' = result.rows /\ work' = Tail(work) /\ UNCHANGED <<phase, todo>>
  BY <1>1, Zenon DEF Transaction
<1> QED
  BY <1>1, <1>2 DEF result

\* The rows the pass deletes are below or above the span.
LEMMA GoneIs ==
  ASSUME TypeOK, phase = "outOfRange", CursorOK, NEW r \in Row
  PROVE  r \in Gone(oorDel, span) <=> r.k < span[1] \/ r.k > span[2]
<1>1. oorDel > 0 /\ span \in Keys \X Keys
  BY DEF CursorOK
<1>2. span[1] \in Int /\ span[2] \in Int /\ r.k \in Int
  BY <1>1, SettingFacts DEF TypeOK, Row
<1>3. span # <<>>
  BY <1>1
<1>4. OutOfRange(<<r.k>>, <<span[1]>>, <<span[2]>>) <=> r.k < span[1] \/ r.k > span[2]
  BY <1>2, OutOfRangeIs
<1> QED
  BY <1>1, <1>3, <1>4 DEF Gone, OutsideOf

\* Every planned chunk keeps fitting the destination.
LEMMA WorkFitsStep ==
  ASSUME RowInv, TodoOK, ChunksApart, ScanFits, CursorOK, WorkFits, [Next]_vars
  PROVE  WorkFits'
<1>0. /\ setting' = setting /\ TypeOK /\ setting \in Settings /\ SafeKeys' = SafeKeys
      /\ dst \subseteq Row /\ work \in Seq(ToSet(work)) /\ todo \in Seq(ToSet(todo))
  BY TableStep, SameSafeKeys DEF RowInv, TypeOK, WorkOK, TodoOK
<1>1. SUFFICES ASSUME phase' \in PlanPhases, NEW i \in DOMAIN work'
               PROVE  Fits(SafeKeys, work'[i], phase', Gone(oorDel', span'), dst')
  BY <1>0, SameFits DEF WorkFits, PlanPhases
<1>2. phase \in PlanPhases =>
        \A j \in DOMAIN work : Fits(SafeKeys, work[j], phase, Gone(oorDel, span), dst)
  BY DEF WorkFits
<1>3. CASE Plan
  <2>1. work' = <<>>
    BY <1>3 DEF Plan
  <2> QED
    BY <1>1, <2>1
<1>4. CASE ReadExtremes \/ ScanSource \/ ScanDestination
  <2>1. /\ work' = work /\ dst' = dst /\ phase' # "groups"
        /\ phase \in {"extremes", "scanSource", "scanDestination"}
    BY <1>4 DEF ReadExtremes, ScanSource, ScanDestination
  <2>2. Fits(SafeKeys, work'[i], phase, Gone(oorDel, span), dst')
    BY <1>1, <1>2, <2>1 DEF PlanPhases
  <2> QED
    BY <2>1, <2>2, FitsPlain
<1>5. CASE CheckHolders
  <2> DEFINE unit == [ch |-> Head(todo), rows |-> scan.src, ops |-> scan.ops]
  <2>1. /\ phase = "check" /\ dst' = dst /\ work' = Append(work, unit) /\ phase' # "groups"
    BY <1>1, <1>5 DEF CheckHolders, Escalate, PlanPhases
  <2>2. unit.ch = Head(todo) /\ unit.rows = scan.src /\ unit.ops = scan.ops
    OBVIOUS
  <2> HIDE DEF unit
  <2>3. CASE i \in DOMAIN work
    <3>1. work'[i] = work[i] /\ Fits(SafeKeys, work[i], phase, Gone(oorDel, span), dst)
      BY <1>0, <1>2, <2>1, <2>3, AppendIs DEF PlanPhases
    <3> QED
      BY <2>1, <3>1, FitsPlain
  <2>4. CASE i = Len(work) + 1
    <3>1. work'[i] = unit
      BY <1>0, <2>1, <2>4, AppendIs
    <3>2. /\ scan.src \subseteq OfChunk(Head(todo)) /\ Sides(SafeKeys, scan.src, scan.dst)
          /\ scan.ops = Diff(scan.src, scan.dst) /\ scan.dst = InChunk(Matching(dst), Head(todo))
      BY <2>1 DEF ScanFits
    <3>3. scan.dst \subseteq OfChunk(Head(todo))
      BY <1>0, <3>2 DEF OfChunk, InChunk, Matching
    <3>4. FitsAs(SafeKeys, unit, scan.dst, "check", {}, dst)
      BY <2>2, <3>2, <3>3 DEF FitsAs, Left
    <3>5. Fits(SafeKeys, unit, "check", {}, dst)
      BY <3>4 DEF Fits
    <3> QED
      BY <2>1, <3>1, <3>5, FitsPlain
  <2> QED
    BY <1>0, <1>1, <2>1, <2>3, <2>4, AppendIs
<1>6. CASE StartApply
  <2>1. /\ phase = "apply" /\ work' = work /\ dst' = dst
        /\ \/ phase' = "outOfRange"
           \/ phase' = "groups" /\ (~(oorDel' > 0) \/ span' = <<>>)
    BY <1>6 DEF StartApply
  <2>2. PICK old : FitsAs(SafeKeys, work'[i], old, "apply", Gone(oorDel, span), dst')
    BY <1>1, <1>2, <2>1 DEF Fits, PlanPhases
  <2>3. CASE phase' = "outOfRange"
    BY <2>2, <2>3 DEF Fits, FitsAs, Left
  <2>4. CASE phase' = "groups"
    <3>1. Gone(oorDel', span') = {}
      BY <2>1, <2>4 DEF Gone, OutsideOf
    <3> QED
      BY <2>2, <2>4, <3>1 DEF Fits, FitsAs, Left
  <2> QED
    BY <2>1, <2>3, <2>4
<1>7. CASE DeleteOutOfRange
  <2>0. phase' # "failed"
    BY <1>1 DEF PlanPhases
  <2>1. /\ phase = "outOfRange" /\ work' = work /\ oorDel' = oorDel /\ span' = span
    BY <1>7, <2>0, PassCases
  <2>2. /\ \A r \in dst : r \in dst' \/ r.k < span[1] \/ r.k > span[2]
        /\ dst' \subseteq dst
        /\ \/ phase' = "outOfRange"
           \/ phase' = "groups" /\ \A r \in Matching(dst') : r.k >= span[1] /\ ~(r.k > span[2])
    BY <1>7, <2>0, PassStep
  <2> DEFINE gone == Gone(oorDel, span)
             w    == work[i]
             now  == InChunk(Matching(dst), w.ch)
             new  == InChunk(Matching(dst'), w.ch)
  <2>3. PICK old : FitsAs(SafeKeys, w, old, "outOfRange", gone, dst)
    BY <1>1, <1>2, <2>1 DEF Fits, PlanPhases
  <2>4. \A r \in Row : r \in gone <=> r.k < span[1] \/ r.k > span[2]
    BY <1>0, <2>1, GoneIs
  <2> HIDE DEF gone, w
  <2>5. /\ now \subseteq old /\ old \ gone \subseteq now
        /\ old \subseteq Row
    BY <1>0, <2>3 DEF FitsAs, Left, OfChunk, InChunk, Matching
  <2>6. new \subseteq now /\ \A r \in now : r \in new \/ r \in gone
    BY <1>0, <2>2, <2>4 DEF InChunk, Matching
  <2>7. phase' = "groups" => \A r \in new : r \notin gone
    <3> SUFFICES ASSUME phase' = "groups", NEW r \in new PROVE r \notin gone
      OBVIOUS
    <3>1. r \in Matching(dst') /\ r \in Row
      BY <1>0, <2>2 DEF InChunk, Matching
    <3>2. r.k >= span[1] /\ ~(r.k > span[2])
      BY <2>2, <3>1
    <3>3. span[1] \in Int /\ r.k \in Int
      BY <1>0, <2>1, <3>1, SettingFacts DEF CursorOK, Row
    <3> QED
      BY <2>4, <3>1, <3>2, <3>3
  <2>8. Left(phase', gone, new, old)
    <3> HIDE DEF new, now
    <3> QED
      BY <2>2, <2>5, <2>6, <2>7 DEF Left
  <2>9. FitsAs(SafeKeys, w, old, phase', gone, dst')
    BY <2>3, <2>8 DEF FitsAs
  <2> QED
    BY <2>1, <2>9 DEF Fits, w, gone
<1>8. CASE ApplyGroup
  <2>1. /\ phase = "groups" /\ phase' = "groups" /\ work # <<>> /\ work' = Tail(work)
        /\ ~RunOps(dst, Head(work).ops).dup /\ dst' = RunOps(dst, Head(work).ops).rows
        /\ span' = span /\ oorDel' = oorDel
    BY <1>1, <1>8, GroupCommits DEF PlanPhases
  <2>2. /\ 1 \in DOMAIN work /\ Head(work) = work[1]
        /\ i + 1 \in DOMAIN work /\ i + 1 # 1 /\ work'[i] = work[i + 1]
    BY <1>0, <1>1, <2>1, HeadTail
  <2>3. Fits(SafeKeys, Head(work), "groups", Gone(oorDel, span), dst)
    BY <1>2, <2>1, <2>2 DEF PlanPhases
  <2>4. /\ dst' \in SUBSET Row
        /\ \A r \in Row : ~Selects(Head(work).ch, <<r.k>>) => (r \in dst' <=> r \in dst)
    <3>1. Mirrors(Head(work), Gone(oorDel, span), dst, RunOps(dst, Head(work).ops).rows)
      BY <1>0, <2>1, <2>3, UnitCommitted
    <3> QED
      BY <2>1, <3>1 DEF Mirrors
  <2>5. Fits(SafeKeys, work[i + 1], "groups", Gone(oorDel, span), dst)
    BY <1>2, <2>1, <2>2 DEF PlanPhases
  <2>6. Unshared(work[1].ch, work[i + 1].ch)
    BY <2>1, <2>2 DEF ChunksApart, AllApart, PlanPhases
  <2>7. \A r \in Row : r.k \in Int
    BY <1>0, SettingFacts DEF Row
  <2>8. \A r \in Row : Selects(work[i + 1].ch, <<r.k>>) => (r \in dst' <=> r \in dst)
    BY <2>2, <2>4, <2>6, <2>7 DEF Unshared
  <2> QED
    BY <1>0, <2>1, <2>2, <2>4, <2>5, <2>8, FitsElsewhere
<1>9. CASE Move \/ UNCHANGED vars
  <2>1. phase' = phase /\ work' = work /\ oorDel' = oorDel /\ span' = span /\ dst' = dst
    BY <1>9 DEF Move, planVars, vars
  <2> QED
    BY <1>1, <1>2, <2>1
<1>10. CASE Compare \/ FinishApply \/ PlanStreamDeletes \/ StreamDeletes \/ Truncate \/ PlanLoad
            \/ FinishLoad \/ Verify \/ Rerun
  BY <1>1, <1>10 DEF Compare, FinishApply, PlanStreamDeletes, StreamDeletes, Truncate, PlanLoad,
     FinishLoad, Verify, Rerun, Transaction, PlanPhases
<1>11. CASE StreamChunk
  <2>1. phase' \in {"load", "failed"}
    BY <1>11, Zenon DEF StreamChunk, Transaction
  <2> QED
    BY <1>1, <2>1 DEF PlanPhases
<1> QED
  BY <1>3, <1>4, <1>5, <1>6, <1>7, <1>8, <1>9, <1>10, <1>11 DEF Next, Step

PlanInv == TodoOK /\ ChunksApart /\ ScanFits /\ CursorOK /\ WorkFits

\* The invariant of the plan holds of every run.
LEMMA PlanInvHolds == Spec => [](RowInv /\ PlanInv)
<1>1. Init => PlanInv
  <2> SUFFICES ASSUME Init PROVE PlanInv
    OBVIOUS
  <2>1. phase = "compare" /\ todo = <<>>
    BY DEF Init
  <2>2. todo \in Seq(ToSet(todo))
    BY <2>1
  <2> QED
    BY <2>1, <2>2 DEF PlanInv, TodoOK, ChunksApart, ScanFits, CursorOK, WorkFits, PlanPhases
<1>2. RowInv /\ PlanInv /\ [Next]_vars => PlanInv'
  BY TodoStep, ApartStep, ScanFitsStep, CursorStep, WorkFitsStep DEF PlanInv
<1> QED
  BY <1>1, <1>2, RowInvHolds, PTL DEF Spec

-----------------------------------------------------------------------------
(***************************************************************************)
(* The invariant of a run whose source nobody has written to.              *)
(***************************************************************************)
Mine == Matching(src)
Settled(ch, rows) == Same(InChunk(Mine, ch), InChunk(Matching(rows), ch))

\* Every chunk of the plan is to be scanned, planned, or has the source's rows.
PlanCovers(w, t, rows) ==
  /\ Mine # {} /\ ToSet(t) \subseteq ToSet(PlanOf)
  /\ \A i \in DOMAIN w : w[i].ch \in ToSet(PlanOf) /\ w[i].rows = InChunk(Mine, w[i].ch)
  /\ \A ch \in ToSet(PlanOf) :
       ch \in ToSet(t) \/ Settled(ch, rows) \/ \E i \in DOMAIN w : w[i].ch = ch
Reported(ids, rows) ==
  \A ch \in ToSet(PlanOf) : ids = {} \/ ch.id \in ids \/ Settled(ch, rows)

OnePlan ==
  /\ phase = "plan" => Reported(targets, dst)
  /\ phase \in PlanPhases => PlanCovers(work, todo, dst)
  /\ phase \in {"scanDestination", "check"} => scan.src = InChunk(Mine, Head(todo))
OneSpan ==
  /\ phase \in ScanPhases \cup {"outOfRange", "groups"} => span = Extremes(Mine)
  /\ phase \in ScanPhases => oorDel = Cardinality(Matching(OutsideOf(dst, span)))
  /\ phase = "groups" => \A r \in Matching(dst) : r.k \in Between(Mine)
Emptied ==
  /\ phase \in {"dstPlan", "dstDelete"} => Mine = {}
  /\ phase = "dstDelete" =>
       \A r \in Matching(dst) : r.k \in keys \/ \E ch \in ToSet(todo) : Selects(ch, <<r.k>>)
Loaded ==
  /\ phase = "loadPlan" => dst = {}
  /\ phase = "load" =>
       /\ dst \subseteq src
       /\ \A r \in src : r \in dst \/ \E ch \in ToSet(todo) : Selects(ch, <<r.k>>)
Finished == phase = "applied" => Same(Mine, Matching(dst))

Still == OnePlan /\ OneSpan /\ Emptied /\ Loaded /\ Finished
StillInv == moves = 0 => Still

\* The chunks of the plan are apart, and within the extremes.
LEMMA PlanChunk ==
  ASSUME TypeOK, Mine # {}, NEW a \in ToSet(PlanOf)
  PROVE  /\ \A k \in Int : Selects(a, <<k>>) => k \in Between(Mine)
         /\ \A b \in ToSet(PlanOf) : a # b => Unshared(a, b)
<1>1. Tiles(PlanOf, ToSet(PlanOf), Between(Mine))
  BY PlanOfTiles DEF Mine
<1>2. DOMAIN PlanOf = 1..Len(PlanOf)
  BY <1>1 DEF Tiles
<1>3. PICK i \in 1..Len(PlanOf) : a = PlanOf[i]
  BY <1>2 DEF ToSet
<1>4. \A k \in Int : Selects(a, <<k>>) => k \in Between(Mine)
  BY <1>1, <1>3 DEF Tiles
<1>5. ASSUME NEW b \in ToSet(PlanOf), a # b PROVE Unshared(a, b)
  <2>1. PICK j \in 1..Len(PlanOf) : b = PlanOf[j]
    BY <1>2 DEF ToSet
  <2> QED
    BY <1>1, <1>3, <1>5, <2>1 DEF Tiles, Unshared
<1> QED
  BY <1>4, <1>5

\* No row of a planned chunk is outside the source's range.
LEMMA GoneMisses ==
  ASSUME TypeOK, Mine # {}, NEW ch \in ToSet(PlanOf), NEW n
  PROVE  \A r \in OfChunk(ch) : r \notin Gone(n, Extremes(Mine))
<1> SUFFICES ASSUME NEW r \in OfChunk(ch) PROVE r \notin Gone(n, Extremes(Mine))
  OBVIOUS
<1>1. setting \in Settings /\ Mine \in SUBSET Row /\ Keys \subseteq Int
  BY SettingFacts DEF TypeOK, Mine, Matching
<1>2. r \in Row /\ Selects(ch, <<r.k>>) /\ r.k \in Keys
  BY DEF OfChunk, InChunk, Matching, Row
<1>3. r.k \in Between(Mine)
  BY <1>1, <1>2, PlanChunk
<1>4. ~OutsideKey(r.k, Extremes(Mine))
  BY <1>1, <1>2, <1>3, OutsideIs
<1> QED
  BY <1>4 DEF OutsideKey, Gone, OutsideOf

\* A chunk stays settled under writes outside it.
LEMMA SettledElsewhere ==
  ASSUME NEW ch, NEW rows, NEW new, rows \subseteq Row, new \subseteq Row, Settled(ch, rows),
         \A r \in Row : Selects(ch, <<r.k>>) => (r \in new <=> r \in rows)
  PROVE  Settled(ch, new)
<1>1. InChunk(Matching(new), ch) = InChunk(Matching(rows), ch)
  BY DEF InChunk, Matching
<1> QED
  BY <1>1 DEF Settled

\* A committed unit's chunk is settled, and every other that was stays so.
LEMMA UnitSettles ==
  ASSUME TypeOK, Mine # {}, NEW w, w.ch \in ToSet(PlanOf), w.rows = InChunk(Mine, w.ch),
         NEW n, NEW new, Mirrors(w, Gone(n, Extremes(Mine)), dst, new)
  PROVE  /\ Settled(w.ch, new)
         /\ \A ch \in ToSet(PlanOf) : Settled(ch, dst) => Settled(ch, new)
         /\ new \in SUBSET Row
         /\ \A r \in Matching(new) : r.k \in Between(Mine) \/ r \in Matching(dst)
<1> DEFINE gone == Gone(n, Extremes(Mine))
<1>1. \A r \in OfChunk(w.ch) : r \notin gone
  BY GoneMisses
<1>2. \A s, d : s \subseteq OfChunk(w.ch) /\ d \subseteq OfChunk(w.ch) => Uniform(s, d, gone)
  <2>1. \A r, x \in Row : r.k = x.k => (r \in gone <=> x \in gone)
    BY DEF Gone, OutsideOf
  <2> QED
    BY <1>1, <2>1 DEF Uniform
<1>3. /\ new \in SUBSET Row /\ dst \subseteq Row
      /\ Same(InChunk(Matching(new), w.ch) \ gone, w.rows \ gone)
      /\ \A r \in Row : ~Selects(w.ch, <<r.k>>) => (r \in new <=> r \in dst)
  BY <1>2 DEF Mirrors, TypeOK
<1>4. InChunk(Matching(new), w.ch) \subseteq OfChunk(w.ch) /\ w.rows \subseteq OfChunk(w.ch)
  BY <1>3 DEF OfChunk, InChunk, Matching, Mine, TypeOK
<1> HIDE DEF gone
<1>5. InChunk(Matching(new), w.ch) \ gone = InChunk(Matching(new), w.ch) /\ w.rows \ gone = w.rows
  BY <1>1, <1>4
<1>6. Settled(w.ch, new)
  BY <1>3, <1>5 DEF Settled, Same
<1>7. \A r \in Row : r.k \in Int
  BY SettingFacts DEF TypeOK, Row
<1>8. ASSUME NEW ch \in ToSet(PlanOf), Settled(ch, dst) PROVE Settled(ch, new)
  <2>1. CASE ch = w.ch
    BY <1>6, <2>1
  <2>2. CASE ch # w.ch
    <3>1. Unshared(w.ch, ch)
      BY <2>2, PlanChunk
    <3>2. \A r \in Row : Selects(ch, <<r.k>>) => (r \in new <=> r \in dst)
      BY <1>3, <1>7, <3>1 DEF Unshared
    <3> QED
      BY <1>3, <1>8, <3>2, SettledElsewhere
  <2> QED
    BY <2>1, <2>2
<1>9. ASSUME NEW r \in Matching(new) PROVE r.k \in Between(Mine) \/ r \in Matching(dst)
  <2>1. r \in Row /\ r \in new
    BY <1>3 DEF Matching
  <2>2. CASE Selects(w.ch, <<r.k>>)
    BY <1>7, <2>1, <2>2, PlanChunk
  <2>3. CASE ~Selects(w.ch, <<r.k>>)
    BY <1>3, <2>1, <2>3 DEF Matching
  <2> QED
    BY <2>2, <2>3
<1> QED
  BY <1>3, <1>6, <1>8, <1>9

\* While moves is 0 no step was a write to the source.
LEMMA Unmoved ==
  ASSUME RowInv, [Next]_vars, moves' = 0
  PROVE  moves = 0 /\ src' = src /\ setting' = setting /\ ~Move
<1>1. setting' = setting
  BY TableStep
<1>2. ~Move
  BY DEF Move, RowInv, TypeOK
<1>3. moves' = moves /\ src' = src
  BY <1>2 DEF Next, Step, Compare, Plan, ReadExtremes, ScanSource, ScanDestination, CheckHolders,
     StartApply, DeleteOutOfRange, ApplyGroup, FinishApply, PlanStreamDeletes, StreamDeletes,
     Truncate, PlanLoad, StreamChunk, FinishLoad, Verify, Rerun, vars
<1> QED
  BY <1>1, <1>2, <1>3

\* Same does not depend on the variables but the setting.
LEMMA SameAlike ==
  ASSUME setting' = setting
  PROVE  \A s, d : Same(s, d)' <=> Same(s, d)
<1>1. \A r : CanonRow(r)' = CanonRow(r)
  BY SameGroups
<1>2. \A s, c : Alike(s, c)' = Alike(s, c)
  BY <1>1 DEF Alike
<1> QED
  BY <1>2 DEF Same

\* Nor does what the invariant says of the source, while it is the same.
LEMMA SameStill ==
  ASSUME setting' = setting, src' = src
  PROVE  /\ Mine' = Mine /\ PlanOf' = PlanOf /\ Extremes(Mine)' = Extremes(Mine)
         /\ Between(Mine)' = Between(Mine)
         /\ \A rows : Matching(rows)' = Matching(rows)
         /\ \A ch, rows : Settled(ch, rows)' <=> Settled(ch, rows)
         /\ \A w, t, rows : PlanCovers(w, t, rows)' <=> PlanCovers(w, t, rows)
         /\ \A ids, rows : Reported(ids, rows)' <=> Reported(ids, rows)
<1>1. \A rows : Matching(rows)' = Matching(rows)
  BY DEF Matching
<1>2. Mine' = Mine
  BY DEF Mine, Matching
<1>3. PlanOf' = PlanOf
  <2>1. Matching(src)' = Matching(src) /\ ChunkSize' = ChunkSize /\ Keys' = Keys /\ IntLead' = IntLead
    BY DEF Matching, ChunkSize, Keys, IntLead
  <2> QED
    BY <2>1 DEF PlanOf, PlanChunks
<1>4. Extremes(Mine)' = Extremes(Mine)
  BY <1>2 DEF Extremes
<1>5. Between(Mine)' = Between(Mine)
  BY <1>4 DEF Between
<1>6. \A ch, rows : Settled(ch, rows)' <=> Settled(ch, rows)
  BY <1>1, <1>2, SameAlike DEF Settled, InChunk
<1>7. \A w, t, rows : PlanCovers(w, t, rows)' <=> PlanCovers(w, t, rows)
  BY <1>2, <1>3, <1>6 DEF PlanCovers, InChunk
<1>8. \A ids, rows : Reported(ids, rows)' <=> Reported(ids, rows)
  BY <1>3, <1>6 DEF Reported
<1> QED
  BY <1>1, <1>2, <1>3, <1>4, <1>5, <1>6, <1>7, <1>8

Quiet == RowInv /\ PlanInv /\ Still

\* What a committed unit does for the plan.
LEMMA GroupSettles ==
  ASSUME Quiet, ApplyGroup, phase' # "failed"
  PROVE  /\ phase = "groups" /\ phase' = "groups" /\ work # <<>> /\ work' = Tail(work)
         /\ todo' = todo /\ span' = span
         /\ Settled(work[1].ch, dst')
         /\ \A ch \in ToSet(PlanOf) : Settled(ch, dst) => Settled(ch, dst')
         /\ \A r \in Matching(dst') : r.k \in Between(Mine)
<1>1. /\ phase = "groups" /\ phase' = "groups" /\ work # <<>> /\ work' = Tail(work)
      /\ ~RunOps(dst, Head(work).ops).dup /\ dst' = RunOps(dst, Head(work).ops).rows
      /\ span' = span /\ todo' = todo
  BY GroupCommits
<1>2. 1 \in DOMAIN work /\ Head(work) = work[1] /\ TypeOK
  BY <1>1, HeadTail DEF Quiet, RowInv, WorkOK
<1>3. /\ Fits(SafeKeys, work[1], "groups", Gone(oorDel, span), dst)
      /\ PlanCovers(work, todo, dst) /\ span = Extremes(Mine)
      /\ \A r \in Matching(dst) : r.k \in Between(Mine)
  BY <1>1, <1>2 DEF Quiet, PlanInv, WorkFits, PlanPhases, Still, OnePlan, OneSpan
<1>4. Mirrors(work[1], Gone(oorDel, Extremes(Mine)), dst, dst')
  BY <1>1, <1>2, <1>3, UnitCommitted
<1>5. Mine # {} /\ work[1].ch \in ToSet(PlanOf) /\ work[1].rows = InChunk(Mine, work[1].ch)
  BY <1>2, <1>3 DEF PlanCovers
<1>6. /\ Settled(work[1].ch, dst')
      /\ \A ch \in ToSet(PlanOf) : Settled(ch, dst) => Settled(ch, dst')
      /\ \A r \in Matching(dst') : r.k \in Between(Mine) \/ r \in Matching(dst)
  BY <1>2, <1>4, <1>5, UnitSettles
<1> QED
  BY <1>1, <1>3, <1>6

\* The pass over the tails leaves the chunks of the plan alone.
LEMMA PassSettles ==
  ASSUME Quiet, DeleteOutOfRange, phase' # "failed"
  PROVE  /\ \A ch \in ToSet(PlanOf) : Settled(ch, dst) => Settled(ch, dst')
         /\ phase' = "groups" => \A r \in Matching(dst') : r.k \in Between(Mine)
<1>1. phase = "outOfRange"
  BY PassCases
<1>2. /\ \A r \in dst : r \in dst' \/ r.k < span[1] \/ r.k > span[2]
      /\ dst' \subseteq dst
      /\ \/ phase' = "outOfRange"
         \/ phase' = "groups" /\ \A r \in Matching(dst') : r.k >= span[1] /\ ~(r.k > span[2])
  BY PassStep DEF Quiet, PlanInv
<1>3. /\ TypeOK /\ Mine # {} /\ span = Extremes(Mine) /\ dst \subseteq Row
      /\ \A r \in Row : r.k \in Int
  BY <1>1, SettingFacts DEF Quiet, Still, OnePlan, OneSpan, PlanCovers, PlanPhases, RowInv, TypeOK, Row
<1>4. span[1] \in Int /\ span[2] \in Int
  <2>1. span \in Keys \X Keys /\ Keys \subseteq Int
    BY <1>1, SettingFacts DEF Quiet, PlanInv, CursorOK, RowInv, TypeOK
  <2> QED
    BY <2>1
<1>5. \A k \in Int : k \in Between(Mine) <=> k >= span[1] /\ ~(k > span[2])
  BY <1>3, <1>4 DEF Between
<1>6. ASSUME NEW ch \in ToSet(PlanOf), Settled(ch, dst) PROVE Settled(ch, dst')
  <2>1. \A k \in Int : Selects(ch, <<k>>) => k \in Between(Mine)
    BY <1>3, PlanChunk
  <2>2. \A r \in Row : Selects(ch, <<r.k>>) => (r \in dst' <=> r \in dst)
    BY <1>2, <1>3, <1>4, <1>5, <2>1
  <2> QED
    BY <1>2, <1>3, <1>6, <2>2, SettledElsewhere
<1>7. ASSUME phase' = "groups", NEW r \in Matching(dst') PROVE r.k \in Between(Mine)
  <2>1. r \in Row
    BY <1>2, <1>3 DEF Matching
  <2> QED
    BY <1>2, <1>3, <1>5, <1>7, <2>1
<1> QED
  BY <1>6, <1>7

\* The comparison names every chunk that differs.
LEMMA ReportedStep ==
  ASSUME Quiet, [Next]_vars, ~Move, phase' = "plan"
  PROVE  Reported(targets', dst')
<1>1. CASE Compare
  <2>1. /\ dst' = dst
        /\ \/ targets' = {ch.id : ch \in {c \in ToSet(PlanOf) : DiffersIn(c)}}
           \/ targets' = {}
    BY <1>1 DEF Compare, PlanOf
  <2>2. ASSUME NEW ch \in ToSet(PlanOf), ~DiffersIn(ch) PROVE Settled(ch, dst)
    <3>1. IsFiniteSet(Row) /\ InChunk(Mine, ch) \in SUBSET Row /\ InChunk(Matching(dst), ch) \in SUBSET Row
      BY SettingFacts DEF Quiet, RowInv, TypeOK, Mine, Matching, InChunk
    <3>2. IsFiniteSet(InChunk(Mine, ch)) /\ IsFiniteSet(InChunk(Matching(dst), ch))
      BY <3>1, FS_Subset
    <3>3. SameMultiset(InChunk(Mine, ch), InChunk(Matching(dst), ch))
      BY <2>2 DEF DiffersIn, Mine
    <3> QED
      BY <3>2, <3>3, SameIs DEF Settled
  <2> QED
    BY <2>1, <2>2 DEF Reported
<1>2. CASE UNCHANGED vars
  BY <1>2 DEF vars, Quiet, Still, OnePlan
<1>3. CASE ~Compare /\ ~(UNCHANGED vars)
  <2>1. CASE StreamChunk \/ ApplyGroup
    BY <2>1, Zenon DEF StreamChunk, ApplyGroup, Transaction
  <2>2. CASE Plan
    BY <2>2, PlanCases
  <2> QED
    BY <1>3, <2>1, <2>2 DEF Next, Step, ReadExtremes, ScanSource, ScanDestination, CheckHolders,
       StartApply, DeleteOutOfRange, FinishApply, PlanStreamDeletes, StreamDeletes, Escalate,
       Truncate, PlanLoad, FinishLoad, Verify, Rerun, Transaction
<1> QED
  BY <1>1, <1>2, <1>3

\* What is not picked was not reported.
LEMMA PickedCovers ==
  ASSUME TypeOK, Mine # {}, targets \subseteq {PlanOf[i].id : i \in DOMAIN PlanOf},
         NEW rows, Reported(targets, rows)
  PROVE  PlanCovers(<<>>, Chosen(PlanOf, InOrder(PickedOf)), rows)
<1> DEFINE t == Chosen(PlanOf, InOrder(PickedOf))
<1>1. /\ t \in Seq(ToSet(PlanOf))
      /\ \A i \in PickedOf : PlanOf[i] \in ToSet(t)
  BY PlanOfTiles, Picked, ChosenApart DEF Mine
<1> HIDE DEF t
<1>2. ToSet(t) \subseteq ToSet(PlanOf)
  BY <1>1 DEF ToSet
<1>3. ASSUME NEW ch \in ToSet(PlanOf) PROVE ch \in ToSet(t) \/ Settled(ch, rows)
  <2>1. PICK i \in DOMAIN PlanOf : ch = PlanOf[i]
    BY DEF ToSet
  <2>2. CASE i \in PickedOf
    BY <1>1, <2>1, <2>2
  <2>3. CASE i \notin PickedOf
    BY <2>1, <2>3 DEF PickedOf, Reported
  <2> QED
    BY <2>2, <2>3
<1> QED
  BY <1>2, <1>3 DEF PlanCovers, t

\* Planning a chunk keeps the plan covered.
LEMMA CoversAdvance ==
  ASSUME PlanCovers(work, todo, dst), work \in Seq(ToSet(work)), todo \in Seq(ToSet(todo)),
         todo # <<>>, NEW unit, unit.ch = Head(todo), unit.rows = InChunk(Mine, Head(todo))
  PROVE  PlanCovers(Append(work, unit), Tail(todo), dst)
<1> DEFINE w == Append(work, unit)
           t == Tail(todo)
<1>1. /\ DOMAIN w = 1..(Len(work) + 1) /\ w[Len(work) + 1] = unit /\ DOMAIN work = 1..Len(work)
      /\ Len(work) \in Nat
      /\ \A i \in DOMAIN work : i \in DOMAIN w /\ w[i] = work[i]
      /\ \A i \in DOMAIN w : i \in DOMAIN work \/ i = Len(work) + 1
  BY AppendIs
<1>2. Len(work) + 1 \in DOMAIN w
  BY <1>1
<1>3. /\ Head(todo) = todo[1] /\ 1 \in DOMAIN todo
      /\ \A i \in DOMAIN t : i + 1 \in DOMAIN todo /\ t[i] = todo[i + 1]
      /\ \A i \in DOMAIN todo : i = 1 \/ (i - 1 \in DOMAIN t /\ t[i - 1] = todo[i])
  BY HeadTail
<1> HIDE DEF w, t
<1>4. ToSet(t) \subseteq ToSet(todo) /\ Head(todo) \in ToSet(todo)
  BY <1>3 DEF ToSet
<1>5. \A ch \in ToSet(todo) : ch = Head(todo) \/ ch \in ToSet(t)
  BY <1>3 DEF ToSet
<1>6. ASSUME NEW i \in DOMAIN w
      PROVE  w[i].ch \in ToSet(PlanOf) /\ w[i].rows = InChunk(Mine, w[i].ch)
  <2>1. CASE i \in DOMAIN work
    BY <1>1, <2>1 DEF PlanCovers
  <2>2. CASE i = Len(work) + 1
    BY <1>1, <1>4, <2>2 DEF PlanCovers
  <2> QED
    BY <1>1, <2>1, <2>2
<1>7. ASSUME NEW ch \in ToSet(PlanOf)
      PROVE  ch \in ToSet(t) \/ Settled(ch, dst) \/ \E i \in DOMAIN w : w[i].ch = ch
  <2>1. CASE ch \in ToSet(todo)
    BY <1>1, <1>2, <1>5, <2>1
  <2>2. CASE Settled(ch, dst)
    BY <2>2
  <2>3. CASE \E i \in DOMAIN work : work[i].ch = ch
    BY <1>1, <2>3
  <2> QED
    BY <2>1, <2>2, <2>3 DEF PlanCovers
<1> QED
  BY <1>4, <1>6, <1>7 DEF PlanCovers, w, t

\* Applying a chunk keeps the plan covered.
LEMMA CoversApplied ==
  ASSUME PlanCovers(work, todo, dst), work \in Seq(ToSet(work)), work # <<>>,
         NEW new, Settled(work[1].ch, new),
         \A ch \in ToSet(PlanOf) : Settled(ch, dst) => Settled(ch, new)
  PROVE  PlanCovers(Tail(work), todo, new)
<1> DEFINE w == Tail(work)
<1>1. /\ \A i \in DOMAIN w : i + 1 \in DOMAIN work /\ w[i] = work[i + 1]
      /\ \A i \in DOMAIN work : i = 1 \/ (i - 1 \in DOMAIN w /\ w[i - 1] = work[i])
  BY HeadTail
<1> HIDE DEF w
<1>2. \A i \in DOMAIN w : w[i].ch \in ToSet(PlanOf) /\ w[i].rows = InChunk(Mine, w[i].ch)
  BY <1>1 DEF PlanCovers
<1>3. ASSUME NEW ch \in ToSet(PlanOf)
      PROVE  ch \in ToSet(todo) \/ Settled(ch, new) \/ \E i \in DOMAIN w : w[i].ch = ch
  <2>1. CASE \E i \in DOMAIN work : work[i].ch = ch
    BY <1>1, <2>1
  <2> QED
    BY <2>1 DEF PlanCovers
<1> QED
  BY <1>2, <1>3 DEF PlanCovers, w

\* Every chunk of the plan stays to do, planned or settled.
LEMMA CoversStep ==
  ASSUME Quiet, [Next]_vars, ~Move, phase' \in PlanPhases
  PROVE  PlanCovers(work', todo', dst')
<1>0. /\ TypeOK /\ work \in Seq(ToSet(work)) /\ todo \in Seq(ToSet(todo))
      /\ (phase \in PlanPhases => PlanCovers(work, todo, dst))
  BY DEF Quiet, RowInv, WorkOK, PlanInv, TodoOK, Still, OnePlan
<1>1. CASE Plan
  <2>1. phase' = "extremes"
    BY <1>1, PlanCases DEF PlanPhases
  <2>2. /\ phase = "plan" /\ dst' = dst /\ work' = <<>>
    BY <1>1 DEF Plan
  <2>3. /\ todo' = Chosen(PlanOf, InOrder(PickedOf)) /\ Mine # {}
        /\ targets \subseteq {PlanOf[i].id : i \in DOMAIN PlanOf}
    BY <1>1, <2>1, PlanCases DEF Mine
  <2>4. Reported(targets, dst)
    BY <2>2 DEF Quiet, Still, OnePlan
  <2> QED
    BY <1>0, <2>2, <2>3, <2>4, PickedCovers
<1>2. CASE CheckHolders
  <2>0. phase = "check" /\ dst' = dst
    BY <1>2 DEF CheckHolders
  <2>1. CASE PlanAdvanced(work', todo')
    <3> DEFINE unit == [ch |-> Head(todo), rows |-> scan.src, ops |-> scan.ops]
    <3>1. work' = Append(work, unit) /\ todo' = Tail(todo) /\ todo # <<>> /\ PlanCovers(work, todo, dst)
      BY <1>0, <2>0, <2>1 DEF PlanAdvanced, Quiet, PlanInv, TodoOK, PlanPhases
    <3>2. unit.ch = Head(todo) /\ unit.rows = InChunk(Mine, Head(todo))
      BY <2>0 DEF Quiet, Still, OnePlan
    <3> HIDE DEF unit
    <3> QED
      BY <1>0, <2>0, <3>1, <3>2, CoversAdvance
  <2>2. CASE ~PlanAdvanced(work', todo')
    BY <1>2, <2>0, <2>2 DEF CheckHolders, Escalate, PlanAdvanced, PlanPhases
  <2> QED
    BY <2>1, <2>2
<1>3. CASE ApplyGroup
  <2>1. phase' # "failed"
    BY DEF PlanPhases
  <2> QED
    BY <1>0, <1>3, <2>1, GroupSettles, CoversApplied DEF PlanPhases
<1>4. CASE DeleteOutOfRange
  <2>1. phase' # "failed"
    BY DEF PlanPhases
  <2>2. phase = "outOfRange" /\ work' = work /\ todo' = todo
    BY <1>4, <2>1, PassCases
  <2>3. PlanCovers(work, todo, dst)
    BY <1>0, <2>2 DEF PlanPhases
  <2> QED
    BY <1>4, <2>1, <2>2, <2>3, PassSettles DEF PlanCovers
<1>5. CASE ReadExtremes \/ ScanSource \/ ScanDestination \/ StartApply
  <2>1. phase \in PlanPhases /\ work' = work /\ todo' = todo /\ dst' = dst
    BY <1>5 DEF ReadExtremes, ScanSource, ScanDestination, StartApply, PlanPhases
  <2> QED
    BY <1>0, <2>1
<1>6. CASE UNCHANGED vars
  <2>1. phase' = phase /\ work' = work /\ todo' = todo /\ dst' = dst
    BY <1>6 DEF vars
  <2> QED
    BY <1>0, <2>1
<1>7. CASE Compare \/ FinishApply \/ PlanStreamDeletes \/ StreamDeletes \/ Truncate \/ PlanLoad
           \/ FinishLoad \/ Verify \/ Rerun
  BY <1>7 DEF Compare, FinishApply, PlanStreamDeletes, StreamDeletes, Truncate, PlanLoad,
     FinishLoad, Verify, Rerun, Transaction, PlanPhases
<1>8. CASE StreamChunk
  <2>1. phase' \in {"load", "failed"}
    BY <1>8, Zenon DEF StreamChunk, Transaction
  <2> QED
    BY <2>1 DEF PlanPhases
<1> QED
  BY <1>1, <1>2, <1>3, <1>4, <1>5, <1>6, <1>7, <1>8 DEF Next, Step

\* What is scanned of the source is what it still has.
LEMMA SourceScanStep ==
  ASSUME Quiet, [Next]_vars, ~Move, phase' \in {"scanDestination", "check"}
  PROVE  scan'.src = InChunk(Mine, Head(todo'))
<1>0. /\ (phase \in {"scanDestination", "check"} => scan.src = InChunk(Mine, Head(todo)))
      /\ (phase = "scanDestination" =>
            scan \in [src : SUBSET Matching(Row), dst : SUBSET Row, ops : Seq(OpsOver(SafeKeys))])
  BY DEF Quiet, Still, OnePlan, RowInv, ScanOK
<1>1. CASE ScanSource
  BY <1>1 DEF ScanSource, Mine
<1>2. CASE ScanDestination
  <2>1. phase = "scanDestination" /\ todo' = todo /\ scan'.src = scan.src
    BY <1>0, <1>2 DEF ScanDestination
  <2> QED
    BY <1>0, <2>1
<1>3. CASE UNCHANGED vars
  BY <1>0, <1>3 DEF vars
<1>4. CASE Compare \/ ReadExtremes \/ CheckHolders \/ StartApply \/ FinishApply \/ DeleteOutOfRange
           \/ PlanStreamDeletes \/ StreamDeletes \/ Truncate \/ PlanLoad \/ FinishLoad \/ Verify \/ Rerun
  BY <1>4 DEF Compare, ReadExtremes, CheckHolders, StartApply, FinishApply, DeleteOutOfRange,
     PlanStreamDeletes, StreamDeletes, Truncate, PlanLoad, FinishLoad, Verify, Rerun, Transaction,
     Escalate
<1>5. CASE Plan
  BY <1>5, PlanCases
<1>6. CASE StreamChunk \/ ApplyGroup
  BY <1>6, Zenon DEF StreamChunk, ApplyGroup, Transaction
<1> QED
  BY <1>1, <1>2, <1>3, <1>4, <1>5, <1>6 DEF Next, Step

\* A count of 0 says that no matching row is outside.
LEMMA NoneOutside ==
  ASSUME TypeOK, Mine # {}, span = Extremes(Mine),
         ~(Cardinality(Matching(OutsideOf(dst, span))) > 0)
  PROVE  \A r \in Matching(dst) : r.k \in Between(Mine)
<1> DEFINE out == Matching(OutsideOf(dst, span))
<1>1. setting \in Settings /\ Mine \in SUBSET Row /\ dst \in SUBSET Row
  BY DEF TypeOK, Mine, Matching
<1>2. out \in SUBSET Row /\ IsFiniteSet(Row)
  BY <1>1, SettingFacts DEF Matching, OutsideOf
<1>3. out = {}
  <2> HIDE DEF out
  <2>1. IsFiniteSet(out)
    BY <1>2, FS_Subset
  <2>2. Cardinality(out) \in Nat /\ (Cardinality(out) = 0 <=> out = {})
    BY <2>1, FS_CardinalityType, FS_EmptySet
  <2>3. ~(Cardinality(out) > 0)
    BY DEF out
  <2> QED
    BY <2>2, <2>3
<1>4. ASSUME NEW r \in Matching(dst) PROVE r.k \in Between(Mine)
  <2>1. r \in dst /\ r.k \in Keys
    BY <1>1 DEF Matching, Row
  <2>2. ~OutsideKey(r.k, span)
    BY <1>3, <1>4, <2>1 DEF OutsideKey, OutsideOf, Matching
  <2> QED
    BY <1>1, <2>1, <2>2, OutsideIs
<1> QED
  BY <1>4

\* The span is the source's, and after the pass no matching row is outside.
LEMMA SpanStep ==
  ASSUME Quiet, [Next]_vars, ~Move, phase' \in ScanPhases \cup {"outOfRange", "groups"}
  PROVE  /\ span' = Extremes(Mine)
         /\ phase' \in ScanPhases => oorDel' = Cardinality(Matching(OutsideOf(dst', span')))
         /\ phase' = "groups" => \A r \in Matching(dst') : r.k \in Between(Mine)
<1>0. /\ TypeOK /\ OneSpan /\ (phase \in PlanPhases => Mine # {})
  BY DEF Quiet, RowInv, Still, OnePlan, PlanCovers
<1>1. CASE ReadExtremes
  BY <1>1 DEF ReadExtremes, Mine, ScanPhases
<1>2. CASE ScanSource \/ ScanDestination \/ CheckHolders
  <2>1. /\ phase \in {"scanSource", "scanDestination", "check"}
        /\ span' = span /\ dst' = dst /\ oorDel' = oorDel /\ phase' # "groups"
    BY <1>2 DEF ScanSource, ScanDestination, CheckHolders, ScanPhases, Escalate
  <2> QED
    BY <1>0, <2>1 DEF OneSpan, ScanPhases
<1>3. CASE StartApply
  <2>1. /\ phase = "apply" /\ dst' = dst /\ span = Extremes(Mine) /\ Mine # {}
        /\ oorDel = Cardinality(Matching(OutsideOf(dst, span)))
    BY <1>0, <1>3 DEF StartApply, OneSpan, ScanPhases, PlanPhases
  <2>2. CASE oorDel > 0
    <3>1. Extremes(Mine) # <<>>
      <4>1. Extremes(Mine) = <<Extremes(Mine)[1], Extremes(Mine)[2]>>
        BY <1>0, <2>1, ExtremesAre DEF TypeOK, Mine, Matching
      <4> HIDE DEF Extremes
      <4> QED
        BY <4>1
    <3>2. span' = Extremes(Mine) /\ phase' = IF span' = <<>> THEN "groups" ELSE "outOfRange"
      BY <1>3, <2>2 DEF StartApply, Mine
    <3> QED
      BY <3>1, <3>2 DEF ScanPhases
  <2>3. CASE ~(oorDel > 0)
    <3>1. phase' = "groups" /\ span' = span
      BY <1>3, <2>3 DEF StartApply
    <3> QED
      BY <1>0, <2>1, <2>3, <3>1, NoneOutside DEF ScanPhases
  <2> QED
    BY <2>2, <2>3
<1>4. CASE DeleteOutOfRange
  <2>1. phase' # "failed"
    BY DEF ScanPhases
  <2>2. phase = "outOfRange" /\ span' = span /\ phase' \in {"outOfRange", "groups"}
    BY <1>4, <2>1, PassCases DEF EndOfTail
  <2> QED
    BY <1>0, <1>4, <2>1, <2>2, PassSettles DEF OneSpan, ScanPhases
<1>5. CASE ApplyGroup
  <2>1. phase' # "failed"
    BY DEF ScanPhases
  <2>2. /\ phase = "groups" /\ phase' = "groups" /\ span' = span
        /\ \A r \in Matching(dst') : r.k \in Between(Mine)
    BY <1>5, <2>1, GroupSettles
  <2> QED
    BY <1>0, <2>2 DEF OneSpan, ScanPhases
<1>6. CASE UNCHANGED vars
  <2>1. phase' = phase /\ dst' = dst /\ span' = span /\ oorDel' = oorDel
    BY <1>6 DEF vars
  <2> QED
    BY <1>0, <2>1 DEF OneSpan
<1>7. CASE Plan
  BY <1>7, PlanCases DEF ScanPhases
<1>8. CASE Compare \/ FinishApply \/ PlanStreamDeletes \/ StreamDeletes \/ Truncate \/ PlanLoad
           \/ FinishLoad \/ Verify \/ Rerun
  BY <1>8 DEF Compare, FinishApply, PlanStreamDeletes, StreamDeletes, Truncate, PlanLoad,
     FinishLoad, Verify, Rerun, Transaction, ScanPhases
<1>9. CASE StreamChunk
  <2>1. phase' \in {"load", "failed"}
    BY <1>9, Zenon DEF StreamChunk, Transaction
  <2> QED
    BY <2>1 DEF ScanPhases
<1> QED
  BY <1>1, <1>2, <1>3, <1>4, <1>5, <1>6, <1>7, <1>8, <1>9 DEF Next, Step

\* Every row is in one of the chunks planned over the table.
LEMMA PlanReaches ==
  ASSUME setting \in Settings, NEW rows \in SUBSET Row, NEW size \in Nat \ {0}, NEW r \in rows
  PROVE  \E ch \in ToSet(PlanChunks(rows, size)) : Selects(ch, <<r.k>>)
<1> DEFINE q == PlanChunks(rows, size)
<1>1. Tiles(q, ToSet(q), Between(rows))
  BY PlanChunksIs
<1>2. r.k \in Between(rows)
  BY ExtremesAre DEF Between
<1> HIDE DEF q
<1>3. PICK i \in 1..Len(q) : Selects(q[i], <<r.k>>)
  BY <1>1, <1>2 DEF Tiles
<1>4. DOMAIN q = 1..Len(q)
  BY <1>1 DEF Tiles
<1> QED
  BY <1>3, <1>4 DEF ToSet, q

\* An element is the head or in the tail.
LEMMA HeadOrTail ==
  ASSUME NEW q, q \in Seq(ToSet(q)), q # <<>>, NEW x \in ToSet(q)
  PROVE  x = Head(q) \/ x \in ToSet(Tail(q))
<1>1. PICK i \in DOMAIN q : x = q[i]
  BY DEF ToSet
<1>2. i = 1 \/ (i - 1 \in DOMAIN Tail(q) /\ Tail(q)[i - 1] = q[i])
  BY HeadTail
<1>3. Head(q) = q[1]
  BY HeadTail
<1> QED
  BY <1>1, <1>2, <1>3 DEF ToSet

\* The empty sequence has no element.
LEMMA NothingLeft == ToSet(<<>>) = {}
  BY DEF ToSet

\* Every matching row is scanned for deletion, and every scanned key deleted.
LEMMA EmptiedStep ==
  ASSUME Quiet, [Next]_vars, ~Move, phase' \in {"dstPlan", "dstDelete"}
  PROVE  /\ Mine = {}
         /\ phase' = "dstDelete" => \A r \in Matching(dst') :
              r.k \in keys' \/ \E ch \in ToSet(todo') : Selects(ch, <<r.k>>)
<1>0. TypeOK /\ Emptied /\ todo \in Seq(ToSet(todo)) /\ dst \in SUBSET Row /\ setting \in Settings
  BY DEF Quiet, RowInv, TypeOK, Still, PlanInv, TodoOK
<1>1. CASE Plan
  BY <1>1, PlanCases DEF Mine
<1>2. CASE PlanStreamDeletes
  <2>1. /\ phase = "dstPlan" /\ dst' = dst /\ todo' = PlanChunks(Matching(dst), ChunkSize)
    BY <1>2 DEF PlanStreamDeletes
  <2>2. Matching(dst) \in SUBSET Row /\ ChunkSize \in Nat \ {0}
    BY <1>0, SyncAssumption DEF Matching, ChunkSize
  <2>3. \A r \in Matching(dst) : \E ch \in ToSet(todo') : Selects(ch, <<r.k>>)
    BY <1>0, <2>1, <2>2, PlanReaches
  <2> QED
    BY <1>0, <2>1, <2>3 DEF Emptied
<1>3. CASE StreamDeletes
  <2>1. /\ phase = "dstDelete" /\ Mine = {}
        /\ \A r \in Matching(dst) : r.k \in keys \/ \E ch \in ToSet(todo) : Selects(ch, <<r.k>>)
    BY <1>0, <1>3 DEF StreamDeletes, Emptied
  <2>2. CASE keys # {}
    <3> DEFINE batch == {k \in keys : Cardinality({l \in keys : EarlierKey(l, k)}) < DeleteCap}
    <3>1. dst' = {r \in dst : r.k \notin batch} /\ keys' = keys \ batch /\ todo' = todo
      BY <1>3, <2>2 DEF StreamDeletes, Transaction
    <3> HIDE DEF batch
    <3>2. \A r \in Matching(dst') : r \in Matching(dst) /\ r.k \notin batch
      BY <3>1 DEF Matching
    <3> QED
      BY <2>1, <3>1, <3>2
  <2>3. CASE keys = {} /\ todo # <<>>
    <3>1. /\ dst' = dst /\ todo' = Tail(todo)
          /\ keys' = {r.k : r \in InChunk(Matching(dst), Head(todo))}
      BY <1>3, <2>3 DEF StreamDeletes
    <3>2. ASSUME NEW r \in Matching(dst)
          PROVE  r.k \in keys' \/ \E ch \in ToSet(todo') : Selects(ch, <<r.k>>)
      <4>1. PICK ch \in ToSet(todo) : Selects(ch, <<r.k>>)
        BY <2>1, <2>3
      <4>2. CASE ch = Head(todo)
        BY <3>1, <4>1, <4>2 DEF InChunk
      <4>3. CASE ch \in ToSet(Tail(todo))
        BY <3>1, <4>1, <4>3
      <4> QED
        BY <1>0, <2>3, <4>2, <4>3, HeadOrTail
    <3> QED
      BY <2>1, <3>1, <3>2
  <2>4. CASE keys = {} /\ todo = <<>>
    BY <1>3, <2>4 DEF StreamDeletes
  <2> QED
    BY <2>2, <2>3, <2>4
<1>4. CASE UNCHANGED vars
  <2>1. phase' = phase /\ dst' = dst /\ keys' = keys /\ todo' = todo
    BY <1>4 DEF vars
  <2> QED
    BY <1>0, <2>1 DEF Emptied
<1>5. CASE Compare \/ ReadExtremes \/ ScanSource \/ ScanDestination \/ CheckHolders \/ StartApply
           \/ DeleteOutOfRange \/ FinishApply \/ Truncate \/ PlanLoad \/ FinishLoad \/ Verify \/ Rerun
  BY <1>5 DEF Compare, ReadExtremes, ScanSource, ScanDestination, CheckHolders, StartApply,
     DeleteOutOfRange, FinishApply, Truncate, PlanLoad, FinishLoad, Verify, Rerun, Transaction,
     Escalate
<1>6. CASE StreamChunk \/ ApplyGroup
  BY <1>6, Zenon DEF StreamChunk, ApplyGroup, Transaction
<1> QED
  BY <1>1, <1>2, <1>3, <1>4, <1>5, <1>6 DEF Next, Step

\* A streamed chunk adds the source's rows of it.
LEMMA ChunkLoaded ==
  ASSUME RowInv, StreamChunk, phase' # "failed"
  PROVE  /\ phase = "load" /\ phase' = "load" /\ todo # <<>> /\ todo' = Tail(todo)
         /\ dst' = dst \cup InChunk(src, Head(todo))
<1> DEFINE rows == InChunk(src, Head(todo))
           pend == SetToSeq(rows)
           t    == [Begin(dst) EXCEPT !.pend = pend]
<1>1. /\ phase = "load" /\ phase' = "load" /\ todo # <<>> /\ todo' = Tail(todo)
      /\ dst' = Flush(t).rows /\ ~Flush(t).dup
  BY Zenon DEF StreamChunk, Transaction
<1>2. ~Filtered /\ TypeOK /\ rows \subseteq Row /\ IsFiniteSet(rows)
  <2>1. ~Filtered /\ TypeOK /\ rows \subseteq Row
    BY <1>1 DEF RowInv, FullOK, TypeOK, InChunk
  <2> QED
    BY <2>1, SettingFacts, FS_Subset DEF TypeOK
<1>3. pend \in Seq(rows) /\ ToSet(pend) = rows
  <2> HIDE DEF rows
  <2>1. /\ pend \in Seq(rows) /\ Len(pend) = Cardinality(rows)
        /\ \A x \in rows : \E i \in 1..Cardinality(rows) : pend[i] = x
    BY <1>2, SetAsSeq
  <2> HIDE DEF pend
  <2> QED
    BY <2>1 DEF ToSet
<1>4. pend \in Seq(Matching(Row))
  BY <1>2, <1>3, UnfilteredEmpty, SeqMonotonic
<1> HIDE DEF pend, rows
<1>5. t = [rows |-> dst, dels |-> {}, pend |-> pend, dup |-> FALSE]
  <2>1. t \in [rows : {dst}, dels : {{}}, pend : {pend}, dup : {FALSE}]
    BY DEF Begin
  <2> HIDE DEF t
  <2> QED
    BY <2>1
<1>6. t \in TxType(SafeKeys)
  BY <1>2, <1>4, <1>5, SafeApart DEF TxType, TableOK
<1> HIDE DEF t
<1>7. Flush(t) = [rows |-> IF FlushBad(t) THEN t.rows ELSE t.rows \cup ToSet(t.pend),
                  dels |-> t.dels, pend |-> <<>>, dup |-> t.dup \/ FlushBad(t)]
  BY <1>6, FlushIs
<1>8. ~FlushBad(t)
  <2>1. Flush(t).dup = (t.dup \/ FlushBad(t))
    BY <1>7
  <2> QED
    BY <1>1, <2>1, Zenon
<1>9. Flush(t).rows = t.rows \cup ToSet(t.pend)
  BY <1>7, <1>8
<1>10. dst' = dst \cup rows
  BY <1>1, <1>3, <1>5, <1>9
<1> QED
  BY <1>1, <1>10 DEF rows

\* The full resync loads the source chunk by chunk into the empty table.
LEMMA LoadedStep ==
  ASSUME Quiet, [Next]_vars, ~Move
  PROVE  /\ phase' = "loadPlan" => dst' = {}
         /\ phase' = "load" =>
              /\ dst' \subseteq src
              /\ \A r \in src : r \in dst' \/ \E ch \in ToSet(todo') : Selects(ch, <<r.k>>)
<1>0. TypeOK /\ Loaded /\ RowInv /\ todo \in Seq(ToSet(todo)) /\ src \in SUBSET Row /\ setting \in Settings
  BY DEF Quiet, RowInv, TypeOK, Still, PlanInv, TodoOK
<1>1. CASE Truncate
  BY <1>1 DEF Truncate
<1>2. CASE PlanLoad
  <2>1. /\ phase = "loadPlan" /\ dst' = dst /\ todo' = PlanChunks(src, Batch) /\ phase' = "load"
    BY <1>2 DEF PlanLoad
  <2>2. Batch \in Nat \ {0}
    BY <1>0, RowAssumption DEF Batch
  <2>3. \A r \in src : \E ch \in ToSet(todo') : Selects(ch, <<r.k>>)
    BY <1>0, <2>1, <2>2, PlanReaches
  <2> QED
    BY <1>0, <2>1, <2>3 DEF Loaded
<1>3. CASE StreamChunk
  <2>1. phase' = "failed" \/ phase' # "failed"
    OBVIOUS
  <2>2. CASE phase' # "failed"
    <3>1. /\ phase = "load" /\ phase' = "load" /\ todo # <<>> /\ todo' = Tail(todo)
          /\ dst' = dst \cup InChunk(src, Head(todo))
      BY <1>0, <1>3, <2>2, ChunkLoaded
    <3>2. /\ dst \subseteq src
          /\ \A r \in src : r \in dst \/ \E ch \in ToSet(todo) : Selects(ch, <<r.k>>)
      BY <1>0, <3>1 DEF Loaded
    <3>3. dst' \subseteq src
      BY <3>1, <3>2 DEF InChunk
    <3>4. ASSUME NEW r \in src, r \notin dst'
          PROVE  \E ch \in ToSet(todo') : Selects(ch, <<r.k>>)
      <4>1. PICK ch \in ToSet(todo) : Selects(ch, <<r.k>>)
        BY <3>1, <3>2, <3>4
      <4>2. ch # Head(todo)
        BY <3>1, <3>4, <4>1 DEF InChunk
      <4> QED
        BY <1>0, <3>1, <4>1, <4>2, HeadOrTail
    <3> QED
      BY <3>1, <3>3, <3>4
  <2> QED
    BY <2>2
<1>4. CASE UNCHANGED vars
  <2>1. phase' = phase /\ dst' = dst /\ todo' = todo
    BY <1>4 DEF vars
  <2> QED
    BY <1>0, <2>1 DEF Loaded
<1>5. CASE Compare \/ ReadExtremes \/ ScanSource \/ ScanDestination \/ CheckHolders \/ StartApply
           \/ DeleteOutOfRange \/ FinishApply \/ PlanStreamDeletes \/ StreamDeletes \/ FinishLoad
           \/ Verify \/ Rerun
  BY <1>5 DEF Compare, ReadExtremes, ScanSource, ScanDestination, CheckHolders, StartApply,
     DeleteOutOfRange, FinishApply, PlanStreamDeletes, StreamDeletes, FinishLoad, Verify, Rerun,
     Transaction, Escalate
<1>6. CASE Plan
  BY <1>6, PlanCases
<1>7. CASE ApplyGroup
  BY <1>7, Zenon DEF ApplyGroup, Transaction
<1> QED
  BY <1>1, <1>2, <1>3, <1>4, <1>5, <1>6, <1>7 DEF Next, Step

\* Each of the ways to finish leaves equal rows.
LEMMA FinishedStep ==
  ASSUME Quiet, [Next]_vars, ~Move, phase' = "applied"
  PROVE  Same(Mine, Matching(dst'))
<1>0. /\ TypeOK /\ RowInv /\ Still /\ TodoOK /\ setting \in Settings
      /\ src \in SUBSET Row /\ dst \in SUBSET Row
  BY DEF Quiet, RowInv, TypeOK, PlanInv
<1>1. CASE Plan
  <2>1. dst' = dst /\ Matching(src) = {} /\ Matching(dst) = {}
    BY <1>1, PlanCases DEF Plan
  <2> QED
    BY <2>1, SameSelf DEF Mine
<1>2. CASE FinishApply
  <2>1. phase = "groups" /\ work = <<>> /\ dst' = dst
    BY <1>2 DEF FinishApply
  <2>2. /\ PlanCovers(work, todo, dst) /\ todo = <<>>
        /\ \A r \in Matching(dst) : r.k \in Between(Mine)
    BY <1>0, <2>1 DEF Still, OnePlan, OneSpan, TodoOK, PlanPhases
  <2>3. Mine # {} /\ \A ch \in ToSet(PlanOf) : Settled(ch, dst)
    BY <2>1, <2>2, NothingLeft DEF PlanCovers
  <2>4. Tiles(PlanOf, ToSet(PlanOf), Between(Mine))
    BY <1>0, <2>3, PlanOfTiles DEF Mine
  <2>5. \A i \in 1..Len(PlanOf) : PlanOf[i] \in ToSet(PlanOf)
    <3>1. DOMAIN PlanOf = 1..Len(PlanOf)
      BY <2>4 DEF Tiles
    <3> QED
      BY <3>1 DEF ToSet
  <2>6. \A i \in 1..Len(PlanOf) :
          Same(InChunk(Mine, PlanOf[i]), InChunk(Matching(dst), PlanOf[i]))
    BY <2>3, <2>5 DEF Settled
  <2>7. IsFiniteSet(Mine) /\ IsFiniteSet(Matching(dst)) /\ Mine \in SUBSET Row
    <3>1. IsFiniteSet(Row) /\ Mine \in SUBSET Row /\ Matching(dst) \in SUBSET Row
      BY <1>0, SettingFacts DEF Mine, Matching
    <3> QED
      BY <3>1, FS_Subset
  <2>8. Between(Mine) \subseteq Int /\ \A r \in Mine : r.k \in Between(Mine)
    BY <1>0, <2>3, <2>7, ExtremesAre DEF Between
  <2>9. \A r \in Mine \cup Matching(dst) : r.k \in Between(Mine)
    BY <2>2, <2>8
  <2>10. Same(Mine, Matching(dst))
    BY <2>4, <2>6, <2>7, <2>8, <2>9, SameByChunk
  <2> QED
    BY <2>1, <2>10
<1>3. CASE StreamDeletes
  <2>1. phase = "dstDelete" /\ keys = {} /\ todo = <<>> /\ dst' = dst
    BY <1>3 DEF StreamDeletes, Transaction
  <2>2. Mine = {} /\ \A r \in Matching(dst) : r.k \in keys \/ \E ch \in ToSet(todo) : Selects(ch, <<r.k>>)
    BY <1>0, <2>1 DEF Still, Emptied
  <2>3. Matching(dst) = Mine
    BY <2>1, <2>2, NothingLeft
  <2> QED
    BY <2>1, <2>3, SameSelf
<1>4. CASE FinishLoad
  <2>1. phase = "load" /\ todo = <<>> /\ dst' = dst
    BY <1>4 DEF FinishLoad
  <2>2. dst = src
    BY <1>0, <2>1, NothingLeft DEF Still, Loaded
  <2> QED
    BY <2>1, <2>2, SameSelf DEF Mine
<1>5. CASE UNCHANGED vars
  BY <1>0, <1>5 DEF vars, Still, Finished
<1>6. CASE Compare \/ ReadExtremes \/ ScanSource \/ ScanDestination \/ CheckHolders \/ StartApply
           \/ DeleteOutOfRange \/ PlanStreamDeletes \/ Truncate \/ PlanLoad
           \/ Verify \/ Rerun
  BY <1>6 DEF Compare, ReadExtremes, ScanSource, ScanDestination, CheckHolders, StartApply,
     DeleteOutOfRange, PlanStreamDeletes, Truncate, PlanLoad, Verify, Rerun, Transaction,
     Escalate
<1>7. CASE StreamChunk \/ ApplyGroup
  BY <1>7, Zenon DEF StreamChunk, ApplyGroup, Transaction
<1> QED
  BY <1>1, <1>2, <1>3, <1>4, <1>5, <1>6, <1>7 DEF Next, Step

\* The invariant of the undisturbed run is inductive, given the plan's.
LEMMA StillStep ==
  ASSUME RowInv, PlanInv, StillInv, [Next]_vars
  PROVE  StillInv'
<1> SUFFICES ASSUME moves' = 0 PROVE Still'
  BY DEF StillInv
<1>1. moves = 0 /\ src' = src /\ setting' = setting /\ ~Move
  BY Unmoved
<1>2. Quiet
  BY <1>1 DEF Quiet, StillInv
<1>3. /\ Mine' = Mine /\ PlanOf' = PlanOf /\ Extremes(Mine)' = Extremes(Mine)
      /\ Between(Mine)' = Between(Mine)
      /\ \A rows : Matching(rows)' = Matching(rows)
      /\ \A ch, rows : Settled(ch, rows)' <=> Settled(ch, rows)
      /\ \A w, t, rows : PlanCovers(w, t, rows)' <=> PlanCovers(w, t, rows)
      /\ \A ids, rows : Reported(ids, rows)' <=> Reported(ids, rows)
  BY <1>1, SameStill
<1>4. OnePlan'
  <2>1. phase' = "plan" => Reported(targets, dst)'
    BY <1>1, <1>2, <1>3, ReportedStep
  <2>2. phase' \in PlanPhases => PlanCovers(work, todo, dst)'
    BY <1>1, <1>2, <1>3, CoversStep
  <2>3. phase' \in {"scanDestination", "check"} => scan'.src = InChunk(Mine, Head(todo))'
    BY <1>1, <1>2, <1>3, SourceScanStep DEF InChunk
  <2> QED
    BY <2>1, <2>2, <2>3 DEF OnePlan, PlanPhases
<1>5. OneSpan'
  <2>1. phase' \in ScanPhases \cup {"outOfRange", "groups"} => span' = Extremes(Mine)'
    BY <1>1, <1>2, <1>3, SpanStep
  <2>2. phase' \in ScanPhases => oorDel' = Cardinality(Matching(OutsideOf(dst, span)))'
    BY <1>1, <1>2, <1>3, SpanStep DEF Matching, OutsideOf
  <2>3. phase' = "groups" => \A r \in Matching(dst)' : r.k \in Between(Mine)'
    BY <1>1, <1>2, <1>3, SpanStep DEF Matching
  <2> QED
    BY <2>1, <2>2, <2>3 DEF OneSpan, ScanPhases
<1>6. Emptied'
  <2>1. Matching(dst)' = Matching(dst')
    BY <1>1 DEF Matching
  <2>2. ToSet(todo)' = ToSet(todo')
    BY DEF ToSet
  <2> QED
    BY <1>1, <1>2, <1>3, <2>1, <2>2, EmptiedStep DEF Emptied
<1>7. Loaded'
  <2>1. ToSet(todo)' = ToSet(todo')
    BY DEF ToSet
  <2> QED
    BY <1>1, <1>2, <2>1, LoadedStep DEF Loaded
<1>8. Finished'
  <2>1. Matching(dst)' = Matching(dst')
    BY <1>1 DEF Matching
  <2>2. \A s, d : Same(s, d)' <=> Same(s, d)
    BY <1>1, SameAlike
  <2> QED
    BY <1>1, <1>2, <1>3, <2>1, <2>2, FinishedStep DEF Finished
<1> QED
  BY <1>4, <1>5, <1>6, <1>7, <1>8 DEF Still

\* It holds of every run.
LEMMA StillInvHolds == Spec => [](RowInv /\ PlanInv /\ StillInv)
<1>1. Init => StillInv
  <2> SUFFICES ASSUME Init PROVE StillInv
    OBVIOUS
  <2>1. phase = "compare"
    BY DEF Init
  <2> QED
    BY <2>1 DEF StillInv, Still, OnePlan, OneSpan, Emptied, Loaded, Finished, PlanPhases, ScanPhases
<1>2. RowInv /\ PlanInv /\ StillInv /\ [Next]_vars => StillInv'
  BY StillStep
<1> QED
  BY <1>1, <1>2, PlanInvHolds, PTL DEF Spec

\* AppliedIsConverged: a run that ends without an error, and under which the
\* source has not changed, has made the compared rows equal: by the chunks it
\* planned and the pass outside them, by the batched deletes, or by the load.
THEOREM AppliedCorrect == Spec => []AppliedIsConverged
<1>1. RowInv /\ StillInv => AppliedIsConverged
  <2> SUFFICES ASSUME RowInv, StillInv, moves = 0, phase = "applied"
               PROVE  SameMultiset(Matching(src), Matching(dst))
    BY DEF AppliedIsConverged, Converged
  <2>1. Same(Matching(src), Matching(dst))
    BY DEF StillInv, Still, Finished, Mine
  <2>2. IsFiniteSet(Matching(src)) /\ IsFiniteSet(Matching(dst))
    <3>1. IsFiniteSet(Row) /\ Matching(src) \in SUBSET Row /\ Matching(dst) \in SUBSET Row
      BY SettingFacts DEF RowInv, TypeOK, Matching
    <3> QED
      BY <3>1, FS_Subset
  <2> QED
    BY <2>1, <2>2, SameIs
<1> QED
  BY <1>1, StillInvHolds, PTL

\* Rows that may be told apart by the normalizer, or that were planned from
\* the source as it still is, are outside together.
LEMMA OutsideTogether ==
  ASSUME RowInv, StillInv, phase = "groups", work # <<>>, moves = 0 \/ KeysTold,
         NEW s, NEW d, s \subseteq OfChunk(Head(work).ch), d \subseteq OfChunk(Head(work).ch)
  PROVE  Uniform(s, d, Gone(oorDel, span))
<1> DEFINE gone == Gone(oorDel, span)
<1>1. \A r, x \in Row : r.k = x.k => (r \in gone <=> x \in gone)
  BY DEF Gone, OutsideOf
<1>2. s \subseteq Row /\ d \subseteq Row /\ \A r \in Row : r.k \in Keys
  BY DEF OfChunk, InChunk, Matching, Row
<1>3. CASE moves = 0
  <2>1. PlanCovers(work, todo, dst) /\ span = Extremes(Mine) /\ TypeOK
    BY <1>3 DEF StillInv, Still, OnePlan, OneSpan, PlanPhases, RowInv
  <2>2. 1 \in DOMAIN work /\ Head(work) = work[1]
    BY HeadTail DEF RowInv, WorkOK
  <2>3. Mine # {} /\ Head(work).ch \in ToSet(PlanOf)
    BY <2>1, <2>2 DEF PlanCovers
  <2>4. \A r \in OfChunk(Head(work).ch) : r \notin gone
    BY <2>1, <2>3, GoneMisses
  <2> QED
    BY <1>1, <2>4 DEF Uniform
<1>4. CASE KeysTold
  <2> HIDE DEF gone
  <2>1. \A r, x \in s \cup d : KeyId[r.k] = KeyId[x.k] => r.k = x.k
    BY <1>2, <1>4 DEF KeysTold
  <2> QED
    BY <1>1, <1>2, <2>1 DEF Uniform, gone
<1> QED
  BY <1>3, <1>4

\* The step that changes the destination in the phase of the groups.
LEMMA ChunkCommits ==
  ASSUME RowInv, PlanInv, StillInv, [Next]_vars, phase = "groups", dst' # dst,
         moves = 0 \/ KeysTold
  PROVE  /\ InChunk(Matching(dst'), Head(work).ch) \in SUBSET Row
         /\ Head(work).rows \in SUBSET Row
         /\ Same(InChunk(Matching(dst'), Head(work).ch) \ Gone(oorDel, span),
                 Head(work).rows \ Gone(oorDel, span))
<1>1. ApplyGroup
  <2>1. ~Reads
    BY ReadStep
  <2>2. ~StreamChunk
    BY Zenon DEF StreamChunk
  <2> QED
    BY <2>1, <2>2 DEF Next, Step, Reads, DeleteOutOfRange, StreamDeletes, Truncate
<1>2. work # <<>> /\ ~RunOps(dst, Head(work).ops).dup /\ dst' = RunOps(dst, Head(work).ops).rows
  BY <1>1, Zenon DEF ApplyGroup, Transaction
<1>3. 1 \in DOMAIN work /\ Head(work) = work[1]
  BY <1>2, HeadTail DEF RowInv, WorkOK
<1>4. Fits(SafeKeys, Head(work), "groups", Gone(oorDel, span), dst)
  BY <1>3 DEF PlanInv, WorkFits, PlanPhases
<1>5. Mirrors(Head(work), Gone(oorDel, span), dst, dst')
  BY <1>2, <1>4, UnitCommitted DEF RowInv
<1>6. \A s, d : s \subseteq OfChunk(Head(work).ch) /\ d \subseteq OfChunk(Head(work).ch) =>
        Uniform(s, d, Gone(oorDel, span))
  BY <1>2, OutsideTogether
<1>7. Head(work).rows \in SUBSET Row
  BY <1>4 DEF Fits, FitsAs, OfChunk, InChunk, Matching
<1> QED
  BY <1>5, <1>6, <1>7 DEF Mirrors, InChunk, Matching

\* ChunkCommitConverges: whatever the transaction of one chunk does to rows
\* of other chunks, whatever failed before it and comes after it, the chunk's
\* rows are those the plan read of the source.
THEOREM ChunkCorrect == Spec => ChunkCommitConverges
<1>1. RowInv /\ PlanInv /\ StillInv /\ [Next]_vars =>
        [phase = "groups" /\ dst' # dst /\ (moves = 0 \/ KeysTold) =>
           LET done       == Head(work)
               kept(rows) == IF oorDel > 0 THEN rows \ OutsideOf(rows, span) ELSE rows
           IN  SameMultiset(kept(InChunk(Matching(dst'), done.ch)), kept(done.rows))]_vars
  <2> DEFINE kept(rows) == IF oorDel > 0 THEN rows \ OutsideOf(rows, span) ELSE rows
             now == InChunk(Matching(dst'), Head(work).ch)
             read == Head(work).rows
  <2> SUFFICES ASSUME RowInv, PlanInv, StillInv, [Next]_vars, phase = "groups", dst' # dst,
                      moves = 0 \/ KeysTold
               PROVE  SameMultiset(kept(now), kept(read))
    OBVIOUS
  <2>1. /\ now \in SUBSET Row /\ read \in SUBSET Row
        /\ Same(now \ Gone(oorDel, span), read \ Gone(oorDel, span))
    BY ChunkCommits
  <2> HIDE DEF now, read
  <2>2. kept(now) = now \ Gone(oorDel, span) /\ kept(read) = read \ Gone(oorDel, span)
    BY <2>1 DEF Gone, OutsideOf
  <2>3. IsFiniteSet(kept(now)) /\ IsFiniteSet(kept(read))
    <3>1. kept(now) \in SUBSET Row /\ kept(read) \in SUBSET Row /\ IsFiniteSet(Row)
      BY <2>1, SettingFacts DEF RowInv, TypeOK
    <3> QED
      BY <3>1, FS_Subset
  <2> QED
    BY <2>1, <2>2, <2>3, SameIs
<1> QED
  BY <1>1, StillInvHolds, PTL DEF Spec, ChunkCommitConverges
=============================================================================
