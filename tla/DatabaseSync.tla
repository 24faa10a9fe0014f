----------------------------- MODULE DatabaseSync -----------------------------
(***************************************************************************)
(* The sync command over a whole database (cmd/mtdiff/sync.go), down to    *)
(* the structures: which tables it works on, the plans it shows, the CREATE *)
(* and ALTER statements (internal/sync: planDecision, ApplyStructureTable, *)
(* applyCreate) and the DROP of the tables only the destination has        *)
(* (ApplyDrop), the verification and the exit code.  The rows are the      *)
(* subject of RowSync and SyncTable: here a table whose structure can be   *)
(* compared has equal rows.                                                *)
(*                                                                         *)
(* Other sessions create, alter and drop tables between any two steps, and *)
(* a query or statement of the run can fail, or take effect and lose its   *)
(* answer.                                                                 *)
(***************************************************************************)
EXTENDS StructSync

CONSTANTS
  Tables,
  Absent,     \* no such table
  View,       \* a view of that name
  Settings,
  Databases,  \* [name -> initial values of db]: a setting names one of them
  Shapes,     \* what another session makes of a table
  MaxSteps    \* bound: drifts and failures

Sides == {"src", "dst"}
Idle  == [table |-> "", step |-> "idle", ddl |-> <<>>, replanned |-> FALSE]

ASSUME DatabaseAssumption ==
  /\ MaxSteps \in Nat
  /\ \A s \in Settings :
       /\ s.databases \in DOMAIN Databases /\ s.named \subseteq Tables
       /\ s.drifts \in 0..MaxSteps /\ s.failures \in 0..MaxSteps
  /\ Absent # View /\ {Absent, View} \cap Struct = {}
  /\ \A x \in Shapes : x = Absent \/ IsStruct(x)
  /\ \A n \in DOMAIN Databases : \A d \in Databases[n] :
       /\ d \in [Sides -> [Tables -> {d[e][t] : e \in Sides, t \in Tables}]]
       /\ \A e \in Sides, t \in Tables : d[e][t] \in {Absent, View} \/ IsStruct(d[e][t])

VARIABLES
  setting,   \* one of Settings: databases, named, excluded, filtered, schema,
             \* truncate, ignore, tzSwap, defaults, yes, drifts, failures
  db,        \* [Sides -> [Tables -> structure, Absent or View]]
  phase,
  tables,    \* the tables to sync
  extra,     \* the tables to drop
  plans,     \* [tables -> [mode, ddl]], the confirmed ones
  compared,  \* [tables -> BOOLEAN]: the pre-pass could compare the table
  todo,      \* tables still to compare, plan, apply or drop
  current,   \* the table being worked on, and where ApplyTable or ApplyDrop is
  results,   \* [table -> "APPLIED" | "FAILED" | "SKIPPED"]
  exit,      \* exit code, -1 while the command runs
  start,     \* history: db when the command started
  lacked,    \* history: tables the source lacked since the confirmation
  disturbed, \* history: another session changed something since the start
  trouble    \* [drifts, failures] so far

history == <<start, lacked, disturbed>>
planned == <<tables, extra, plans, compared>>
vars    == <<setting, db, phase, planned, todo, current, results, exit, history, trouble>>

IsTable(x) == x \notin {Absent, View}
Bases(d)   == {t \in Tables : IsTable(db[d][t])}
Seen(d, t) == Visible(db[d][t], setting.ignore)
Pick(S)    == CHOOSE t \in S : TRUE
Nothing    == [t \in {} |-> Idle]

\* A map with one more entry.
Put(f, t, x) == [u \in DOMAIN f \cup {t} |-> IF u = t THEN x ELSE f[u]]

Init ==
  /\ setting \in Settings
  /\ db \in Databases[setting.databases]
  /\ phase = "listSource" /\ tables = {} /\ extra = {} /\ plans = Nothing /\ compared = Nothing
  /\ todo = {} /\ current = Idle /\ results = Nothing /\ exit = -1
  /\ start = db /\ lacked = {} /\ disturbed = FALSE /\ trouble = [drifts |-> 0, failures |-> 0]

\* A query or statement fails: one of the failures the bound allows.
Fails ==
  /\ trouble.failures < setting.failures
  /\ trouble' = [trouble EXCEPT !.failures = @ + 1]

End(code) == exit' = code /\ phase' = "ended" /\ current' = Idle

-----------------------------------------------------------------------------
(* resolveSyncTables.                                                      *)

\* Mutant of ExtraTables: all of the destination's tables are extra.
ExtraTablesAll(listed) == IF setting.filtered THEN {} ELSE Bases("dst") \ setting.excluded

\* The destination's tables the source lacks, of those not excluded, unless
\* a filter is set.
ExtraTables(listed) ==
  IF setting.filtered THEN {} ELSE Bases("dst") \ (listed \cup setting.excluded)

\* --tables names the tables, and nothing is dropped.
ListSource ==
  /\ phase = "listSource"
  /\ \/ /\ setting.named # {} /\ tables' = setting.named
        /\ phase' = "compare" /\ todo' = setting.named /\ UNCHANGED <<exit, current, trouble>>
     \/ /\ setting.named = {} /\ tables' = Bases("src")
        /\ phase' = "listDestination" /\ UNCHANGED <<todo, exit, current, trouble>>
     \/ setting.named = {} /\ Fails /\ End(2) /\ UNCHANGED <<tables, todo>>
  /\ UNCHANGED <<setting, db, extra, plans, compared, results, history>>

ListDestination ==
  /\ phase = "listDestination"
  /\ LET mine == tables \ setting.excluded
         more == ExtraTables(tables)
     IN  \/ /\ tables' = mine /\ extra' = more /\ todo' = mine /\ UNCHANGED trouble
            /\ IF mine \cup more = {} THEN End(3)
               ELSE phase' = "compare" /\ UNCHANGED <<exit, current>>
         \/ Fails /\ End(2) /\ UNCHANGED <<tables, extra, todo>>
  /\ UNCHANGED <<setting, db, plans, compared, results, history>>

-----------------------------------------------------------------------------
(* PrePass and planDecision.                                               *)

Numeric == {"int", "uint", "decimal", "float", "double"}

\* compatibleCol: the types can be compared, a time pair with --allow-tz-swap.
CompatibleCol(sc, dc) ==
  \/ Family[sc.def] = Family[dc.def]
  \/ {Family[sc.def], Family[dc.def]} \subseteq Numeric
  \/ TimePair(sc, dc) /\ setting.tzSwap

\* conn.Compatible: the columns line up by position; those left by
\* --ignore-columns by name.
Comparable(src, dst) ==
  /\ IF setting.ignore # {} THEN Names(src) = Names(dst)
     ELSE [i \in DOMAIN src.cols |-> src.cols[i].name] = [i \in DOMAIN dst.cols |-> dst.cols[i].name]
  /\ \A n \in Names(src) : CompatibleCol(Col(src, n), Col(dst, n))

CanCompare(t) ==
  /\ IsTable(db["src"][t]) /\ IsTable(db["dst"][t])
  /\ Comparable(Seen("src", t), Seen("dst", t))

\* The pre-pass compares one table after the other; its verdicts are not
\* taken again.
CompareTable ==
  /\ phase = "compare" /\ todo # {}
  /\ LET t == Pick(todo)
     IN  /\ \/ compared' = Put(compared, t, CanCompare(t)) /\ UNCHANGED trouble
            \/ Fails /\ compared' = Put(compared, t, FALSE)
         /\ IF todo = {t} THEN phase' = "plan" /\ todo' = tables
            ELSE todo' = todo \ {t} /\ UNCHANGED phase
  /\ UNCHANGED <<setting, db, tables, extra, plans, current, results, exit, history>>

NothingToCompare ==
  /\ phase = "compare" /\ todo = {} /\ phase' = "plan"
  /\ UNCHANGED <<setting, db, planned, todo, current, results, exit, history, trouble>>

Plan(mode, ddl) == [mode |-> mode, ddl |-> ddl]

Created(s) == [cols |-> NotNull(s.cols, s.keys), keys |-> s.keys]

\* createPlanFor: a table missing on the destination, by what the pre-pass
\* and the two existence tests say.
DecideCreate(t) ==
  LET src == Seen("src", t)
  IN  IF setting.schema /\ ~setting.filtered /\ \A c \in ToSet(src.cols) : c.gen = Plain
      THEN Plan("CREATE", <<src>>) ELSE Plan("ERROR", <<>>)

\* structurePlan: what the structures of the moment still need.
StructurePlan(t) ==
  CHOOSE ddl \in {RenderDDL(ch) : ch \in {Changes(Seen("src", t), Seen("dst", t), setting.defaults)}} :
    TRUE

BothThere(t) == IsTable(db["src"][t]) /\ IsTable(db["dst"][t])
Refuses(t)   == Refused(Seen("src", t), Seen("dst", t), setting.defaults)

\* A structure that differs is altered, but not by a filtered run.
DecideAlter(t) ==
  CASE Refuses(t) -> Plan("ERROR", <<>>)
    [] ~Refuses(t) /\ setting.filtered -> Plan("ARGUMENT", <<>>)
    [] OTHER -> Plan("ALTER", StructurePlan(t))

Decide(t) ==
  IF ~compared[t] /\ db["dst"][t] = Absent /\ IsTable(db["src"][t]) THEN DecideCreate(t)
  ELSE IF setting.schema /\ ~BothThere(t) THEN Plan("ERROR", <<>>)
  ELSE IF setting.schema /\ (Refuses(t) \/ StructurePlan(t) # <<>>) THEN DecideAlter(t)
  ELSE Plan(IF compared[t] THEN "SKIP" ELSE "ERROR", <<>>)

\* The preflight of one table after the other.
PlanTable ==
  /\ phase = "plan" /\ todo # {}
  /\ LET t == Pick(todo)
     IN  /\ todo' = todo \ {t}
         /\ \/ \E d \in {Decide(t)} : plans' = Put(plans, t, d) /\ UNCHANGED trouble
            \/ Fails /\ plans' = Put(plans, t, Plan("ERROR", <<>>))
  /\ UNCHANGED <<setting, db, phase, tables, extra, compared, current, results, exit, history>>

\* An argument error ends the run, and so does having nothing to do; else
\* the operator confirms what is shown, or does not.
Confirm ==
  /\ phase = "plan" /\ todo = {}
  /\ LET modes == {plans[t].mode : t \in tables}
     IN  IF "ARGUMENT" \in modes THEN End(3) /\ UNCHANGED <<todo, lacked, results>>
         ELSE IF extra = {} /\ modes = {"SKIP"} THEN End(0) /\ UNCHANGED <<todo, lacked, results>>
         ELSE \/ /\ phase' = "apply" /\ todo' = {t \in tables : plans[t].mode # "SKIP"}
                 /\ results' = [t \in {u \in tables : plans[u].mode = "SKIP"} |-> "SKIPPED"]
                 /\ lacked' = {t \in Tables : db["src"][t] = Absent}
                 /\ UNCHANGED <<exit, current>>
              \/ ~setting.yes /\ End(3) /\ UNCHANGED <<todo, lacked, results>>
  /\ UNCHANGED <<setting, db, planned, start, disturbed, trouble>>

-----------------------------------------------------------------------------
(* ApplyTable.                                                             *)

Finish(status) ==
  /\ results' = Put(results, current.table, status)
  /\ current' = Idle

\* The decision is taken again, on the structures of the moment.
StartTable ==
  /\ phase = "apply" /\ current = Idle /\ todo # {}
  /\ \E t \in {Pick(todo)} :
       /\ todo' = todo \ {t}
       /\ \/ \E d \in {Decide(t)} :
               /\ IF d.mode \in {"CREATE", "ALTER"}
                  THEN /\ current' = [Idle EXCEPT !.table = t, !.step = d.mode, !.ddl = d.ddl]
                       /\ UNCHANGED results
                  ELSE /\ results' = Put(results, t, IF d.mode = "SKIP" THEN "SKIPPED" ELSE "FAILED")
                       /\ UNCHANGED current
               /\ UNCHANGED trouble
          \/ Fails /\ results' = Put(results, t, "FAILED") /\ UNCHANGED current
  /\ UNCHANGED <<setting, db, phase, planned, exit, history>>

Statement == Head(current.ddl)

\* The structure the next statement makes of the destination's, or Absent
\* if the server rejects it.
Effect ==
  LET dst == db["dst"][current.table]
  IN  IF current.step = "CREATE"
      THEN IF dst # Absent \/ Impossible(Created(Statement)) THEN Absent ELSE Created(Statement)
      ELSE IF ~IsTable(dst) \/ Rejected(dst, Statement) THEN Absent ELSE Altered(dst, Statement)

Takes(effect) == db' = [db EXCEPT !["dst"][current.table] = effect]

ExecStatement ==
  /\ current.step \in {"CREATE", "ALTER"} /\ current.ddl # <<>>
  /\ \E effect \in {Effect} \ {Absent} : Takes(effect)
  /\ current' = [current EXCEPT !.ddl = Tail(@)]
  /\ UNCHANGED <<setting, phase, planned, todo, results, exit, history, trouble>>

\* The statement is rejected, or fails, or its answer is lost: the table
\* stops, or is emptied and planned again with --allow-structure-truncate.
FailStatement ==
  /\ current.step \in {"CREATE", "ALTER"} /\ current.ddl # <<>>
  /\ \E effect \in {Effect} :
       \/ effect = Absent /\ UNCHANGED <<db, trouble>>
       \/ effect # Absent /\ Fails /\ (Takes(effect) \/ UNCHANGED db)
  /\ IF current.step = "ALTER" /\ setting.truncate /\ ~current.replanned
     THEN current' = [current EXCEPT !.step = "truncate"] /\ UNCHANGED results
     ELSE Finish("FAILED")
  /\ UNCHANGED <<setting, phase, planned, todo, exit, history>>

\* Mutant of Remaining: the old statements are executed again.
RemainingReplayed(t) == plans[t].ddl

Remaining(t) == StructurePlan(t)

\* TRUNCATE, then the statements still missing from a fresh plan.
Replan ==
  /\ current.step = "truncate"
  /\ LET t  == current.table
         ok == BothThere(t) /\ ~Refuses(t)
     IN  \/ /\ ok /\ UNCHANGED <<results, trouble>>
            /\ current' = [current EXCEPT !.step = "ALTER", !.ddl = Remaining(t), !.replanned = TRUE]
         \/ ~ok /\ Finish("FAILED") /\ UNCHANGED trouble
         \/ Fails /\ Finish("FAILED")
  /\ UNCHANGED <<setting, db, phase, planned, todo, exit, history>>

\* convergeAfterDDL compares the tables again and syncs the rows.
Converge ==
  /\ current.step \in {"CREATE", "ALTER"} /\ current.ddl = <<>>
  /\ \/ Finish(IF CanCompare(current.table) THEN "APPLIED" ELSE "FAILED") /\ UNCHANGED trouble
     \/ Fails /\ Finish("FAILED")
  /\ UNCHANGED <<setting, db, phase, planned, todo, exit, history>>

-----------------------------------------------------------------------------
(* ApplyDrop.                                                              *)

StartDrops ==
  /\ phase = "apply" /\ current = Idle /\ todo = {}
  /\ phase' = "drop" /\ todo' = extra
  /\ UNCHANGED <<setting, db, planned, current, results, exit, history, trouble>>

\* Mutant of FirstProbe: the source is not asked again.
FirstProbeDestination == "probeDestination"

FirstProbe == "probeSource"

StartDrop ==
  /\ phase = "drop" /\ current = Idle /\ todo # {}
  /\ current' = [Idle EXCEPT !.table = Pick(todo), !.step = FirstProbe]
  /\ todo' = todo \ {Pick(todo)}
  /\ UNCHANGED <<setting, db, phase, planned, results, exit, history, trouble>>

\* A probe that fails vetoes the DROP; the existence test counts views too.
Probe(step, stop, status, next) ==
  /\ current.step = step
  /\ \/ stop /\ Finish(status) /\ UNCHANGED trouble
     \/ ~stop /\ current' = [current EXCEPT !.step = next] /\ UNCHANGED <<results, trouble>>
     \/ Fails /\ Finish("FAILED")
  /\ UNCHANGED <<setting, db, phase, planned, todo, exit, history>>

There(d) == db[d][current.table] # Absent
ProbeSource      == Probe("probeSource", There("src"), "FAILED", "probeDestination")
ProbeDestination == Probe("probeDestination", ~There("dst"), "APPLIED", "dropTable")

\* DROP TABLE IF EXISTS.
DropTable ==
  /\ current.step = "dropTable"
  /\ \/ /\ Takes(Absent)
        /\ \/ current' = [current EXCEPT !.step = "check"] /\ UNCHANGED <<results, trouble>>
           \/ Fails /\ Finish("FAILED")
     \/ Fails /\ Finish("FAILED") /\ UNCHANGED db
  /\ UNCHANGED <<setting, phase, planned, todo, exit, history>>

CheckDropped ==
  /\ current.step = "check"
  /\ \/ Finish(IF There("dst") THEN "FAILED" ELSE "APPLIED") /\ UNCHANGED trouble
     \/ Fails /\ Finish("FAILED")
  /\ UNCHANGED <<setting, db, phase, planned, todo, exit, history>>

-----------------------------------------------------------------------------
\* Mutant of ExitCode: failures do not count.
ExitCodeOfVerified(verified) == IF \E t \in DOMAIN verified : ~verified[t] THEN 1 ELSE 0

\* syncApplyExit.
ExitCode(verified) ==
  IF \E t \in DOMAIN results : results[t] = "FAILED" THEN 2
  ELSE IF \E t \in DOMAIN verified : ~verified[t] THEN 1 ELSE 0

\* The tables written to are compared once more; a dropped one is not.  The
\* comparison of one table can fail, or that of all of them.
Verify ==
  /\ phase = "drop" /\ current = Idle /\ todo = {}
  /\ LET written == {t \in tables : results[t] = "APPLIED"}
     IN  \/ End(ExitCode([t \in written |-> CanCompare(t)])) /\ UNCHANGED trouble
         \/ \E lost \in written :
              Fails /\ End(ExitCode([t \in written |-> t # lost /\ CanCompare(t)]))
         \/ written # {} /\ Fails /\ End(2)
  /\ UNCHANGED <<setting, db, planned, todo, results, history>>

\* The operator runs the command again after a failure.
Rerun ==
  /\ phase = "ended" /\ exit \in {1, 2}
  /\ phase' = "listSource" /\ exit' = -1
  /\ tables' = {} /\ extra' = {} /\ plans' = Nothing /\ compared' = Nothing
  /\ todo' = {} /\ results' = Nothing
  /\ start' = db /\ lacked' = {} /\ disturbed' = FALSE
  /\ UNCHANGED <<setting, db, current, trouble>>

\* Another session creates, alters or drops a table of either side.
Drift ==
  /\ exit # 0 /\ trouble.drifts < setting.drifts
  /\ trouble' = [trouble EXCEPT !.drifts = @ + 1]
  /\ \E d \in Sides, t \in Tables, x \in Shapes :
       /\ x # db[d][t] /\ db[d][t] # View
       /\ db' = [db EXCEPT ![d][t] = x]
  /\ lacked' = lacked \cup {t \in Tables : db'["src"][t] = Absent}
  /\ disturbed' = TRUE
  /\ UNCHANGED <<setting, phase, planned, todo, results, current, exit, start>>

Step == \/ ListSource \/ ListDestination \/ CompareTable \/ NothingToCompare \/ PlanTable \/ Confirm
        \/ StartTable \/ ExecStatement \/ FailStatement \/ Replan \/ Converge
        \/ StartDrops \/ StartDrop \/ ProbeSource \/ ProbeDestination \/ DropTable \/ CheckDropped
        \/ Verify

Next == Step \/ Rerun \/ Drift

Spec == Init /\ [][Next]_vars /\ WF_vars(Step) /\ WF_vars(Rerun)

-----------------------------------------------------------------------------
ScopeOK ==
  /\ setting \in Settings /\ DOMAIN db = Sides
  /\ phase \in {"listSource", "listDestination", "compare", "plan", "apply", "drop", "ended"}
  /\ tables \cap extra = {} /\ tables \cup extra \subseteq Tables /\ todo \subseteq tables \cup extra

PlansOK ==
  /\ compared \in [DOMAIN compared -> BOOLEAN] /\ DOMAIN compared \subseteq tables
  /\ \A t \in DOMAIN plans : t \in tables /\ Len(plans[t].ddl) <= 2

ResultsOK ==
  /\ DOMAIN results \subseteq (tables \cup extra) \ todo
  /\ current = Idle \/ (current.table \in (tables \cup extra) \ (todo \cup DOMAIN results))

OutcomeOK ==
  /\ exit \in -1..3 /\ (exit = -1 <=> phase # "ended")
  /\ trouble \in [drifts : 0..setting.drifts, failures : 0..setting.failures]

\* The types, and what the parts of the state have to do with each other.
TypeOK == ScopeOK /\ PlansOK /\ ResultsOK /\ OutcomeOK

\* None of the structure's keys is out of sight behind an ignored column, and
\* some column is in sight.
InSight(s) == (\A k \in s.keys : ~Refs(k, setting.ignore)) /\ ~(Names(s) \subseteq setting.ignore)

\* A pair of structures the DDL can repair as a whole.
Mendable(src, dst) ==
  /\ InSight(src) /\ InSight(dst)
  /\ Repairable(Visible(src, setting.ignore), Visible(dst, setting.ignore), setting.defaults)

\* The whole database is mirrored: no filter and no names, and the
\* structures are synced too.
WholeDatabase ==
  setting.schema /\ ~setting.filtered /\ setting.named = {} /\ setting.excluded = {}

\* Columns are compared by name if some are ignored, else by position.
Mirrored(t) ==
  /\ IsTable(db["src"][t]) <=> IsTable(db["dst"][t])
  /\ IsTable(db["src"][t]) =>
       /\ Aligned(Seen("src", t), Seen("dst", t), setting.defaults)
       /\ HasTimePair(Seen("src", t), Seen("dst", t)) => setting.tzSwap
       /\ setting.ignore = {} => OrderAgrees(db["src"][t], db["dst"][t])

\* Exit code 0 of a whole-database run nobody disturbed: both sides have the
\* same tables, and each table the same columns and keys, whatever the two
\* structures were; with three exceptions: with --allow-tz-swap a DATETIME
\* column keeps facing a TIMESTAMP one, whatever their NULL and default
\* (Mirrored); a key of the destination that lost some of its columns with
\* them; and a nullable column that was in its primary key.
ExitZeroMeansMirrored ==
  exit = 0 /\ ~disturbed /\ WholeDatabase =>
    \A t \in Tables :
      \/ Mirrored(t)
      \/ /\ IsTable(start["src"][t]) /\ IsTable(start["dst"][t])
         /\ \/ ~NoKeyShrinks(Seen("src", t), Visible(start["dst"][t], setting.ignore))
            \/ ~PrimaryNotNull(Seen("src", t), start["dst"][t])

\* No statement for a table that can be repaired is rejected by the server,
\* the statements planned again after a failure half way included.
RepairIsAccepted ==
  LET t == current.table
  IN  /\ ~disturbed /\ current.step \in {"CREATE", "ALTER"} /\ current.ddl # <<>>
      /\ (current.step = "CREATE" => InSight(start["src"][t]))
      /\ (current.step = "ALTER" => Mendable(start["src"][t], start["dst"][t]))
      => Effect # Absent

\* The destructive statements the operator was shown for a table.
Shown(t) == {s \in IF t \in DOMAIN plans THEN ToSet(plans[t].ddl) ELSE {} : Destructive(s)}

\* Nothing is lost that was not shown: no table, no column and no key of the
\* destination (but a key goes with a column that was shown).  Not so of a
\* table whose preflight failed: it is altered all the same.
LossWasShown ==
  ~disturbed => \A t \in {u \in Tables : u \in DOMAIN plans => plans[u].mode # "ERROR"} :
    LET was == start["dst"][t]
        is  == db["dst"][t]
        cols == UNION {s.dropCol : s \in Shown(t)}
        keys == UNION {s.dropKey : s \in Shown(t)}
    IN  was # is /\ IsTable(was) =>
          IF is = Absent THEN t \in extra
          ELSE /\ Names(was) \ Names(is) \subseteq cols
               /\ \A k \in was.keys : k.cols \in KeySeqs(is) \/ k \in keys \/ Refs(k, cols)

\* The run drops a table only if the source was without it at some moment
\* after the confirmation, whoever creates it meanwhile; never an excluded
\* one, and none in a filtered run or beside named tables.
DropsOnlyLacked ==
  [][current.step = "dropTable" /\ db' # db =>
       /\ current.table \in (lacked \cap extra) \ setting.excluded
       /\ ~setting.filtered /\ setting.named = {}]_vars

\* A repair interrupted between its statements, however often, leaves
\* structures that can still be repaired.
RepairStaysRepairable ==
  ~disturbed => \A t \in Tables :
    IsTable(start["src"][t]) /\ IsTable(db["dst"][t]) /\ IsTable(start["dst"][t])
      /\ Mendable(start["src"][t], start["dst"][t])
    => Mendable(db["src"][t], db["dst"][t])

\* Every pair of structures there is, or will be, can be repaired, and no
\* view has a table's name.  A DATETIME column facing a TIMESTAMP one is
\* neither repaired nor, without --allow-tz-swap, compared.
Possible ==
  LET is(d)    == {db[d][t] : t \in Tables}
      comes    == IF setting.drifts > 0 THEN Shapes ELSE {}
      pairs    == {<<db["src"][t], db["dst"][t]>> : t \in Tables}
                    \cup (is("src") \X comes) \cup (comes \X is("dst")) \cup (comes \X comes)
  IN  /\ View \notin is("src") \cup is("dst") \cup comes
      /\ \A p \in pairs : p[1] # Absent =>
           IF p[2] = Absent THEN InSight(p[1]) /\ \A c \in ToSet(p[1].cols) : c.gen = Plain
           ELSE /\ Mendable(p[1], p[2])
                /\ HasTimePair(Visible(p[1], setting.ignore), Visible(p[2], setting.ignore))
                     => setting.tzSwap

\* Confirmed and repeated after each failure, a whole-database run comes to
\* exit code 0 (3 if there is no table left on either side) if every pair of
\* structures can be repaired, whatever fails and is changed on the way.
EventuallyMirrors ==
  WholeDatabase /\ setting.yes /\ Possible => <>(exit \in {0, 3})
=============================================================================
