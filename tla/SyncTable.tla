----------------------------- MODULE SyncTable -----------------------------
(***************************************************************************)
(* sync --apply for one table, from the pre-pass to the exit code: the     *)
(* preflight plan and the destructive scope it shows, the confirmation,    *)
(* and ApplyTable, which decides again on the tables as they are now and   *)
(* takes one of four paths (row work, structure DDL, CREATE, table state). *)
(* Every statement on the destination is a step: other sessions change the *)
(* tables between two of them (Drift), and a statement can fail or lose    *)
(* its answer.  The rows are abstract here; RowSync has them.              *)
(***************************************************************************)
EXTENDS Naturals, FiniteSets

CONSTANTS
  Groups,       \* identities of row groups a rewrite can address
  Statements,   \* the DDL statements a structure repair can need
  Breaking,     \* those without which the columns do not compare
  KeyFacts,     \* what the two sides' keys can look like
  Settings,     \* the options of the runs: filtered (--where), schema (not
                \* --no-sync-schema), structureTruncate and rowRewrite
                \* (--allow-structure-truncate, --allow-row-rewrite); and
                \* repaired, the key facts once the structures agree
  MaxDrifts,    \* bound: changes by other sessions
  MaxFailures   \* bound: failing plans and statements

Key == [srcKeyed : BOOLEAN, dstKeyed : BOOLEAN, unique : BOOLEAN,
        agree : BOOLEAN, ordered : BOOLEAN, chunkable : BOOLEAN]

ASSUME SyncTableAssumption ==
  /\ KeyFacts \subseteq Key /\ Breaking \subseteq Statements
  /\ Settings \subseteq [filtered : BOOLEAN, schema : BOOLEAN, structureTruncate : BOOLEAN,
                         rowRewrite : BOOLEAN, repaired : KeyFacts]
  /\ MaxDrifts \in Nat /\ MaxFailures \in Nat

VARIABLES
  setting,       \* the run's options
  exists,        \* the destination has the table
  missing,       \* the statements that would make its structure the source's
  key,           \* the two sides' keys
  equal,         \* the rows are equal
  hot, cross,    \* a row plan finds groups to rewrite, a cross-chunk conflict
  stale,         \* the differing chunks last reported are gone
  counter,       \* the next AUTO_INCREMENT, against the source's
  phase, res,    \* the step that runs next; the pre-pass verdict
  plan,          \* the plan shown before the confirmation
  path,          \* the path ApplyTable took
  todo,          \* DDL statements still to execute
  pending,       \* groups still to rewrite
  preTruncated,  \* the destination was emptied before the load
  status, exit,  \* the table's outcome, the process's exit code
  truncated, rewritten, executed,  \* what this run did to the destination
  moved,         \* a session changed something since the rows were planned
  drifts, failures

tables  == <<exists, missing, key, equal, hot, cross, stale, counter>>
course  == <<res, plan, path, todo, pending, preTruncated>>
history == <<truncated, rewritten, executed>>
env     == <<setting, moved, drifts, failures>>
vars    == <<tables, phase, course, status, exit, history, env>>

-----------------------------------------------------------------------------
Filtered               == setting.filtered
SyncSchema             == setting.schema
AllowStructureTruncate == setting.structureTruncate
AllowRowRewrite        == setting.rowRewrite
Repaired               == setting.repaired

Counters == {"equal", "below", "above"}

\* Mutant of DecidePlan: a filter changes nothing.
DecidePlanUnfiltered ==
  IF ~(key.srcKeyed /\ key.dstKeyed /\ key.agree) \/ ~key.chunkable THEN "FULL"
  ELSE IF key.ordered THEN "ROWLEVEL" ELSE "ERROR"

\* DecidePlan, of a table that differs.
DecidePlan ==
  LET usable == key.srcKeyed /\ key.dstKeyed /\ key.agree IN
  CASE Filtered /\ ~(usable /\ key.unique /\ key.ordered /\ key.chunkable) -> "ARGERR"
    [] ~Filtered /\ ~usable -> "FULL"
    [] ~Filtered /\ usable /\ ~key.ordered -> "ERROR"
    [] ~Filtered /\ usable /\ key.ordered /\ ~key.chunkable -> "FULL"
    [] OTHER -> "ROWLEVEL"

\* What a comparison says, and whether the counter needs anything.
Compared == CASE ~exists \/ missing \cap Breaking # {} -> "ERROR"
              [] exists /\ missing \cap Breaking = {} -> IF equal THEN "OK" ELSE "DIFFERENT"
StateAligned == Filtered \/ counter = "equal"

\* planDecision for the pre-pass verdict res, on the tables as they are.
\* The mode predicted for a structure repair is the source's key's.
Decision ==
  CASE ~exists -> IF res = "ERROR" /\ SyncSchema /\ ~Filtered THEN "CREATE"
                  ELSE IF res = "OK" /\ ~SyncSchema THEN "SKIP" ELSE "ERROR"
    [] exists /\ SyncSchema /\ missing # {} -> IF Filtered THEN "ARGERR" ELSE "STRUCTURE"
    [] OTHER -> CASE res = "ERROR" \/ missing \cap Breaking # {} -> "ERROR"
                  [] res = "OK" -> IF StateAligned THEN "SKIP" ELSE "STATE"
                  [] OTHER -> DecidePlan

\* Mutant of RowPlan: a cross-chunk conflict is always refused.
RowPlanRefusing == IF stale THEN "escalate" ELSE IF cross THEN "refused" ELSE "ops"

\* PlanRowWork: stale chunk ids and a cross-chunk conflict ask for the full
\* resync; without --allow-row-rewrite any conflict is refused.
RowPlan ==
  CASE stale -> "escalate"
    [] ~stale /\ (hot # {} \/ cross) /\ ~AllowRowRewrite -> "refused"
    [] ~stale /\ cross /\ AllowRowRewrite -> "escalate"
    [] OTHER -> "ops"

\* Mutant of Plan: the rewrites are not recorded.
PlanWithoutGroups(mode, ddl, full, groups) ==
  [mode |-> mode, ddl |-> ddl, full |-> full, groups |-> {}]

\* A plan, and what it shows: the DDL, the rewrites, and whether it may
\* TRUNCATE.
Plan(mode, ddl, full, groups) == [mode |-> mode, ddl |-> ddl, full |-> full, groups |-> groups]
NoPlan == Plan("ERROR", {}, FALSE, {})

PlanFor(decision) ==
  CASE decision = "STRUCTURE" ->
         Plan(decision, missing, ~(Repaired.srcKeyed /\ Repaired.chunkable), {})
    [] decision = "FULL" -> Plan(decision, {}, TRUE, {})
    [] decision = "ROWLEVEL" /\ RowPlan = "ops" -> Plan(decision, {}, FALSE, hot)
    [] decision = "ROWLEVEL" /\ RowPlan = "escalate" /\ ~Filtered -> Plan("FULL", {}, TRUE, {})
    [] decision = "ROWLEVEL" /\ (RowPlan = "refused" \/ (RowPlan = "escalate" /\ Filtered)) ->
         NoPlan
    [] OTHER -> Plan(decision, {}, FALSE, {})

-----------------------------------------------------------------------------
Rows(e, h, c) == e => h = {} /\ ~c

Init ==
  /\ setting \in Settings
  /\ exists \in BOOLEAN /\ missing \in SUBSET Statements /\ key \in KeyFacts
  /\ equal \in BOOLEAN /\ hot \in SUBSET Groups /\ cross \in BOOLEAN /\ Rows(equal, hot, cross)
  /\ counter \in Counters /\ stale = FALSE
  /\ (missing = {} \/ ~exists) => key = Repaired
  /\ ~exists => missing = {} /\ ~equal /\ hot = {} /\ ~cross /\ counter = "equal"
  /\ phase = "prePass" /\ res = "none" /\ plan = NoPlan /\ path = "none"
  /\ todo = {} /\ pending = {} /\ preTruncated = FALSE
  /\ status = "none" /\ exit = "none"
  /\ truncated = FALSE /\ rewritten = {} /\ executed = {}
  /\ moved = FALSE /\ drifts = 0 /\ failures = 0

PrePass ==
  /\ phase = "prePass"
  /\ res' = Compared /\ stale' = FALSE /\ phase' = "plan"
  /\ UNCHANGED <<exists, missing, key, equal, hot, cross, counter, plan, path, todo,
                 pending, preTruncated, status, exit, history, env>>

\* The preflight.  A plan that fails for a runtime reason is shown as
\* failed and does not stop the run; an argument error does, and so does a
\* plan with nothing to do.
PlanTable ==
  /\ phase = "plan"
  /\ \/ plan' = PlanFor(Decision) /\ UNCHANGED failures
     \/ plan' = NoPlan /\ failures < MaxFailures /\ failures' = failures + 1
  /\ \/ plan'.mode = "ARGERR" /\ phase' = "done" /\ exit' = "argument"
     \/ plan'.mode = "SKIP" /\ phase' = "done" /\ exit' = "identical"
     \/ plan'.mode \notin {"ARGERR", "SKIP"} /\ phase' = "confirm" /\ UNCHANGED exit
  /\ UNCHANGED <<tables, res, path, todo, pending, preTruncated, status, history,
                 setting, moved, drifts>>

Confirm ==
  /\ phase = "confirm" /\ phase' = "apply"
  /\ UNCHANGED <<tables, course, status, exit, history, env>>

Decline ==
  /\ phase = "confirm" /\ phase' = "done" /\ exit' = "argument"
  /\ UNCHANGED <<tables, course, status, history, env>>

-----------------------------------------------------------------------------
\* Mutant of Stop: the outcome is taken for the next phase.
StopAtPhase(s) == phase' = s /\ UNCHANGED status

Stop(s) == phase' = "verify" /\ status' = s

\* A statement on the destination, which the server can execute or not.  It
\* takes effect, or fails before it reached the server or with its answer
\* lost; others are the variables it would have changed.
Statement(possible, effect, next, failed, others) ==
  \/ possible /\ effect /\ next /\ UNCHANGED failures
  \/ /\ possible /\ failures < MaxFailures /\ failures' = failures + 1
     /\ effect \/ UNCHANGED others
     /\ failed
  \/ ~possible /\ failed /\ UNCHANGED <<others, failures>>

\* ApplyTable decides again, from the same pre-pass verdict.  scopeGate
\* stops a full resync the plan did not show.
ApplyTable ==
  /\ phase = "apply"
  /\ \/ Decision \in {"ERROR", "ARGERR"} /\ Stop("FAILED") /\ UNCHANGED <<path, todo>>
     \/ Decision = "SKIP" /\ Stop("SKIPPED") /\ UNCHANGED <<path, todo>>
     \/ /\ Decision \in {"STATE", "CREATE"}
        /\ path' = (IF Decision = "STATE" THEN "state" ELSE "create") /\ phase' = path'
        /\ UNCHANGED <<todo, status>>
     \/ /\ Decision = "STRUCTURE"
        /\ phase' = "ddl" /\ path' = "structure" /\ todo' = missing /\ UNCHANGED status
     \/ /\ Decision = "ROWLEVEL"
        /\ phase' = "rowPlan" /\ path' = "plain" /\ UNCHANGED <<todo, status>>
     \/ /\ Decision = "FULL" /\ path' = "plain" /\ UNCHANGED todo
        /\ \/ plan.full /\ phase' = "truncate" /\ UNCHANGED status
           \/ ~plan.full /\ Stop("REPLAN")
  /\ UNCHANGED <<tables, res, plan, pending, preTruncated, exit, history, env>>

\* Mutant of RewritesAllowed: no gate.
RewritesUngated == TRUE

\* The gate on the rewrites a row plan needs: after a structure repair it
\* asks only whether the plan showed any, otherwise which ones.
RewritesAllowed ==
  IF path = "plain" THEN hot \subseteq plan.groups ELSE hot = {} \/ plan.groups # {}

\* The row plan right before the writes.
PlanRows ==
  /\ phase = "rowPlan" /\ moved' = FALSE
  /\ \/ /\ RowPlan = "refused" \/ ~exists \/ (RowPlan = "escalate" /\ Filtered)
        /\ Stop("FAILED") /\ UNCHANGED pending
     \/ /\ exists /\ RowPlan = "escalate" /\ ~Filtered /\ UNCHANGED pending
        /\ \/ ~plan.full /\ Stop("REPLAN")
           \/ plan.full /\ path = "plain" /\ phase' = "truncate" /\ UNCHANGED status
           \/ plan.full /\ path # "plain" /\ phase' = "loadGate" /\ UNCHANGED status
     \/ /\ exists /\ RowPlan = "ops"
        /\ \/ RewritesAllowed /\ phase' = "write" /\ pending' = hot /\ UNCHANGED status
           \/ ~RewritesAllowed /\ Stop("REPLAN") /\ UNCHANGED pending
  /\ UNCHANGED <<tables, res, plan, path, todo, preTruncated, exit, history,
                 setting, drifts, failures>>

\* ApplyRowWork: the chunk of one rewrite group at a time ...
RewriteGroup ==
  /\ phase = "write"
  /\ \E g \in pending :
       Statement(exists,
                 rewritten' = rewritten \cup {g} /\ hot' = hot \ {g},
                 pending' = pending \ {g} /\ UNCHANGED <<phase, status>>,
                 Stop("FAILED") /\ UNCHANGED pending,
                 <<rewritten, hot>>)
  /\ UNCHANGED <<exists, missing, key, equal, cross, stale, counter, res, plan, path, todo,
                 preTruncated, exit, truncated, executed, setting, moved, drifts>>

\* ... and the rest.  Rows written with their ids can raise the counter.
\* They are equal then, unless somebody moved them.
Written ==
  /\ equal' \in IF moved THEN BOOLEAN ELSE {TRUE}
  /\ hot' = (IF equal' THEN {} ELSE hot) /\ cross' = (cross /\ ~equal')
  /\ counter' \in {counter} \cup (IF counter = "below" THEN {"equal"} ELSE {})

WriteRows ==
  /\ phase = "write" /\ pending = {}
  /\ Statement(exists, Written, phase' = "state" /\ UNCHANGED status, Stop("FAILED"),
               <<equal, hot, cross, counter>>)
  /\ UNCHANGED <<exists, missing, key, stale, course, exit, history, setting, moved, drifts>>

\* An emptied table: its counter starts over, and nothing holds a value.
Emptied ==
  /\ truncated' = TRUE /\ equal' \in BOOLEAN /\ hot' = {} /\ cross' = FALSE
  /\ counter' \in {"below", "equal"}

\* ApplyFull, also behind the load gate.
Truncate ==
  /\ phase = "truncate" /\ moved' = FALSE
  /\ Statement(exists, Emptied, phase' = "load" /\ UNCHANGED status, Stop("FAILED"),
               <<truncated, equal, hot, cross, counter>>)
  /\ UNCHANGED <<exists, missing, key, stale, course, exit, rewritten, executed, setting, drifts>>

Load ==
  /\ phase = "load"
  /\ Statement(exists, Written, phase' = "state" /\ UNCHANGED status, Stop("FAILED"),
               <<equal, hot, cross, counter>>)
  /\ UNCHANGED <<exists, missing, key, stale, course, exit, history, setting, moved, drifts>>
-----------------------------------------------------------------------------
(* The structure path and the CREATE path.                                 *)

CreateTable ==
  /\ phase = "create"
  /\ Statement(~exists,
               /\ exists' = TRUE /\ missing' = {} /\ key' = Repaired
               /\ equal' \in BOOLEAN /\ hot' = {} /\ cross' = FALSE
               /\ counter' \in {"below", "equal"},
               phase' = "recompare" /\ preTruncated' = TRUE /\ UNCHANGED status,
               Stop("FAILED") /\ UNCHANGED preTruncated,
               <<exists, missing, key, equal, hot, cross, counter>>)
  /\ UNCHANGED <<stale, res, plan, path, todo, pending, exit, history, setting, moved, drifts>>

\* An ALTER fills new columns, rebuilds the table and can restore its key;
\* the rows of an emptied table stay as they are.
Altered(s) ==
  /\ missing' = missing \ {s} /\ executed' = executed \cup {s}
  /\ key' \in IF missing' = {} THEN {Repaired} ELSE KeyFacts
  /\ IF preTruncated THEN UNCHANGED <<equal, hot, cross>>
     ELSE /\ equal' \in BOOLEAN /\ hot' \in SUBSET Groups /\ cross' \in BOOLEAN
          /\ Rows(equal', hot', cross')
  /\ counter' \in {counter, "below", "equal"}

\* execDDL.  A failure stops the table, or the first one leads to the
\* fallback that --allow-structure-truncate allows.
ExecDDL ==
  /\ phase \in {"ddl", "ddlRest"} /\ todo # {}
  /\ \E s \in todo :
       Statement(exists /\ s \in missing, Altered(s),
                 todo' = todo \ {s} /\ UNCHANGED <<phase, status>>,
                 /\ IF phase = "ddl" /\ AllowStructureTruncate
                    THEN phase' = "fallback" /\ UNCHANGED status
                    ELSE Stop("FAILED")
                 /\ UNCHANGED todo,
                 <<missing, executed, key, equal, hot, cross, counter>>)
  /\ UNCHANGED <<exists, stale, res, plan, path, pending, preTruncated, exit,
                 truncated, rewritten, setting, moved, drifts>>

ExecutedDDL ==
  /\ phase \in {"ddl", "ddlRest"} /\ todo = {}
  /\ phase' = "recompare"
  /\ UNCHANGED <<tables, course, status, exit, history, env>>

Fallback ==
  /\ phase = "fallback"
  /\ Statement(exists, Emptied, phase' = "replanDDL" /\ preTruncated' = TRUE /\ UNCHANGED status,
               Stop("FAILED") /\ UNCHANGED preTruncated,
               <<truncated, equal, hot, cross, counter>>)
  /\ UNCHANGED <<exists, missing, key, stale, res, plan, path, todo, pending, exit,
                 rewritten, executed, setting, moved, drifts>>

\* Mutant of ReplanDDL: the statements of the first plan are replayed.
ReplayDDL ==
  /\ phase = "replanDDL" /\ phase' = "ddlRest"
  /\ UNCHANGED <<tables, course, status, exit, history, env>>

\* The first plan is stale: both structures are read again.
ReplanDDL ==
  /\ phase = "replanDDL"
  /\ IF exists THEN todo' = missing /\ phase' = "ddlRest" /\ UNCHANGED status
     ELSE Stop("FAILED") /\ UNCHANGED todo
  /\ UNCHANGED <<tables, res, plan, path, pending, preTruncated, exit, history, env>>

\* convergeAfterDDL: compare and decide on what the DDL has made of it.
Recompare ==
  /\ phase = "recompare" /\ stale' = FALSE
  /\ \/ Compared = "OK" /\ phase' = "state" /\ UNCHANGED status
     \/ Compared = "ERROR" /\ Stop("FAILED")
     \/ /\ Compared = "DIFFERENT"
        /\ \/ DecidePlan = "ROWLEVEL" /\ phase' = "rowPlan" /\ UNCHANGED status
           \/ DecidePlan = "FULL" /\ phase' = "loadGate" /\ UNCHANGED status
           \/ DecidePlan \notin {"ROWLEVEL", "FULL"} /\ Stop("FAILED")
  /\ UNCHANGED <<exists, missing, key, equal, hot, cross, counter, course, exit, history, env>>

\* Mutant of LoadGate: no gate.
LoadUngated ==
  /\ phase = "loadGate" /\ phase' = (IF preTruncated THEN "load" ELSE "truncate")
  /\ UNCHANGED <<tables, course, status, exit, history, env>>

LoadGate ==
  /\ phase = "loadGate"
  /\ \/ preTruncated /\ phase' = "load" /\ UNCHANGED status
     \/ ~preTruncated /\ plan.full /\ phase' = "truncate" /\ UNCHANGED status
     \/ ~preTruncated /\ ~plan.full /\ Stop("REPLAN")
  /\ UNCHANGED <<tables, course, exit, history, env>>

-----------------------------------------------------------------------------
\* The counter can be raised, not lowered.
ApplyState ==
  /\ phase = "state"
  /\ IF exists /\ ~Filtered /\ counter = "below"
     THEN Statement(TRUE, counter' = "equal", Stop("APPLIED"), Stop("FAILED"), <<counter>>)
     ELSE /\ Stop(IF path = "state" THEN "SKIPPED" ELSE "APPLIED")
          /\ UNCHANGED <<counter, failures>>
  /\ UNCHANGED <<exists, missing, key, equal, hot, cross, stale, course, exit, history,
                 setting, moved, drifts>>

\* Mutant of Verify: what was applied is taken for converged.
VerifyNothing ==
  /\ phase = "verify" /\ phase' = "done"
  /\ exit' = (IF status \in {"FAILED", "REPLAN"} THEN "runtime" ELSE "identical")
  /\ UNCHANGED <<tables, course, status, history, env>>

\* The verification compares the rows of a table that was written, and the
\* counter of one whose state was planned, and yields the exit code.
Verify ==
  /\ phase = "verify" /\ phase' = "done"
  /\ \/ status \in {"FAILED", "REPLAN"} /\ exit' = "runtime"
     \/ /\ status = "APPLIED"
        /\ exit' = IF Compared = "OK" /\ StateAligned THEN "identical" ELSE "different"
     \/ /\ status = "SKIPPED"
        /\ exit' = IF path = "state" /\ exists /\ ~StateAligned THEN "different"
                   ELSE "identical"
  /\ UNCHANGED <<tables, course, status, history, env>>

\* The operator starts a run that did not converge again.
Rerun ==
  /\ phase = "done" /\ exit # "identical"
  /\ phase' = "prePass" /\ res' = "none" /\ plan' = NoPlan /\ path' = "none"
  /\ todo' = {} /\ pending' = {} /\ preTruncated' = FALSE /\ status' = "none" /\ exit' = "none"
  /\ truncated' = FALSE /\ rewritten' = {} /\ executed' = {}
  /\ UNCHANGED <<tables, env>>

\* Another session changes one thing about the two tables.
Drift ==
  /\ phase # "done" /\ drifts < MaxDrifts
  /\ drifts' = drifts + 1 /\ moved' = TRUE
  /\ \/ /\ exists' = ~exists
        /\ IF exists THEN missing' = {} /\ key' = Repaired ELSE UNCHANGED <<missing, key>>
        /\ equal' = FALSE /\ hot' = {} /\ cross' = FALSE /\ counter' = "equal"
        /\ UNCHANGED stale
     \/ /\ exists /\ missing' \in SUBSET Statements /\ key' \in KeyFacts
        /\ missing' = {} => key' = Repaired
        /\ UNCHANGED <<exists, equal, hot, cross, stale, counter>>
     \/ /\ exists /\ equal' \in BOOLEAN /\ hot' \in SUBSET Groups /\ cross' \in BOOLEAN
        /\ Rows(equal', hot', cross') /\ stale' \in BOOLEAN
        /\ UNCHANGED <<exists, missing, key, counter>>
     \/ /\ exists /\ counter' \in Counters
        /\ UNCHANGED <<exists, missing, key, equal, hot, cross, stale>>
  /\ UNCHANGED <<phase, course, status, exit, history, setting, failures>>

Step == \/ PrePass \/ PlanTable \/ ApplyTable \/ PlanRows \/ RewriteGroup \/ WriteRows
        \/ Truncate \/ Load \/ CreateTable \/ ExecDDL \/ ExecutedDDL \/ Fallback \/ ReplanDDL
        \/ Recompare \/ LoadGate \/ ApplyState \/ Verify

Next == Step \/ Confirm \/ Decline \/ Rerun \/ Drift

Spec == /\ Init /\ [][Next]_vars
        /\ WF_vars(Step) /\ WF_vars(Rerun) /\ SF_vars(Confirm)

-----------------------------------------------------------------------------
Modes == {"ERROR", "ARGERR", "SKIP", "STATE", "CREATE", "STRUCTURE", "ROWLEVEL", "FULL"}

TablesOK ==
  /\ setting \in Settings
  /\ exists \in BOOLEAN /\ missing \in SUBSET Statements /\ key \in KeyFacts
  /\ equal \in BOOLEAN /\ hot \in SUBSET Groups /\ cross \in BOOLEAN /\ stale \in BOOLEAN
  /\ counter \in Counters

CourseOK ==
  /\ phase \in {"prePass", "plan", "confirm", "apply", "rowPlan", "write", "truncate", "load",
                "create", "ddl", "ddlRest", "fallback", "replanDDL", "recompare", "loadGate",
                "state", "verify", "done"}
  /\ res \in {"none", "OK", "DIFFERENT", "ERROR"}
  /\ plan \in [mode : Modes, ddl : SUBSET Statements, full : BOOLEAN, groups : SUBSET Groups]
  /\ path \in {"none", "plain", "create", "structure", "state"}
  /\ todo \in SUBSET Statements /\ pending \in SUBSET Groups /\ preTruncated \in BOOLEAN

OutcomeOK ==
  /\ status \in {"none", "FAILED", "REPLAN", "APPLIED", "SKIPPED"}
  /\ exit \in {"none", "identical", "different", "runtime", "argument"}
  /\ truncated \in BOOLEAN /\ rewritten \in SUBSET Groups /\ executed \in SUBSET Statements
  /\ moved \in BOOLEAN /\ drifts \in Nat /\ failures \in Nat

TypeOK == TablesOK /\ CourseOK /\ OutcomeOK

\* Whatever the tables have become since the plan was confirmed, a TRUNCATE
\* runs only if the plan showed one, or as the fallback the operator allowed
\* for a failed ALTER; the groups rewritten are among those it showed, or,
\* behind a structure repair or a CREATE, it showed some.
ScopeRespected ==
  /\ truncated => plan.full \/ (AllowStructureTruncate /\ path = "structure")
  /\ rewritten # {} => plan.groups # {}
  /\ path = "plain" => rewritten \subseteq plan.groups

\* Under --where no table is truncated and no structure altered, whatever
\* the row plan escalates to and whatever changes after the confirmation.
FilteredKeepsTable == Filtered => ~truncated /\ executed = {} /\ path # "create"

\* The apply implements the promise of the confirmation.  Besides what the
\* plan showed, a structure repair grants two things: the TRUNCATE that
\* --allow-structure-truncate permits, and, to a plan that showed a rewrite,
\* the rewrites of any group.  Without the structure sync the promise is
\* kept to the letter.
Confirmed == phase \notin {"prePass", "plan", "confirm", "done"} \/ status # "none"
Granted   == IF SyncSchema /\ plan.groups # {} THEN Groups ELSE plan.groups
Scope == INSTANCE ConfirmedScope WITH
  confirmed <- Confirmed,
  full      <- Confirmed /\ (plan.full \/ (SyncSchema /\ AllowStructureTruncate)),
  groups    <- IF Confirmed THEN Granted ELSE {}
ScopeSpec == Scope!Spec

\* Two promises bound the apply.  DestructiveScope's comment says it may run
\* the groups the plan showed or a subset of them, and nothing else; and the
\* confirmation must cover what actually runs, which lists every statement
\* that will be executed.  An apply that breaks one of them, since the
\* structure changed after the confirmation, at least keeps the other.
OnePromiseIsKept == ~(executed \subseteq plan.ddl) => rewritten \subseteq plan.groups

\* While nobody else writes, no DDL statement is executed that has taken
\* effect already, also when an answer was lost or the fallback plans again.
NoReplay == drifts = 0 /\ phase \in {"ddl", "ddlRest"} => todo \subseteq missing

\* The two sides have a key in common once the structures agree.  They agree
\* in the columns and the uniqueness of every index, which does not say which
\* unique one is the primary key.
RepairAgrees == Repaired.srcKeyed => Repaired.dstKeyed /\ Repaired.agree

\* While nobody else writes, the plan that was confirmed is one the apply
\* can carry out, with two exceptions behind a repair whose plan did not show
\* the TRUNCATE: the rows, which are not planned before their structure is
\* repaired, can need more than it showed; and the mode predicted from the
\* source's key is not the one it ends with if the sides select different keys.
NoReplanUndisturbed ==
  drifts = 0 /\ status = "REPLAN" /\ plan.mode # "ERROR" =>
    path = "structure" /\ ~plan.full /\ (hot # {} \/ cross \/ ~RepairAgrees)

\* While nobody else writes, the exit code 0 means that structure, rows and
\* counter have converged, whichever path was taken and whatever failed
\* before.
ExitIdenticalMeansConverged ==
  drifts = 0 /\ exit = "identical" =>
    exists /\ equal /\ StateAligned /\ (SyncSchema => missing = {})

\* Runs that are confirmed and repeated after failures and changes by other
\* sessions converge, except that nothing but a reload lowers a counter.
EventuallyConverges == <>(exit = "identical" \/ (exists /\ counter = "above"))
=============================================================================
