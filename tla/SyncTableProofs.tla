-------------------------- MODULE SyncTableProofs --------------------------
(***************************************************************************)
(* SyncTable for every set of groups, statements and keys, all options and *)
(* every number of failures and of changes by other sessions: its type     *)
(* invariant; that the destructive scope of the confirmed plan is          *)
(* respected, as an invariant and as an implementation of ConfirmedScope;  *)
(* that --where keeps the table; that no DDL statement is replayed; and,   *)
(* of runs that nobody disturbs, that the exit code 0 means converged and  *)
(* that the confirmed plan can be carried out.                             *)
(***************************************************************************)
EXTENDS SyncTable, TLAPS

(***************************************************************************)
(* The operators of the model have values of their types.                  *)
(***************************************************************************)
LEMMA DecisionType == Decision \in Modes
  BY DEF Decision, DecidePlan, Modes

LEMMA ComparedType == Compared \in {"OK", "DIFFERENT", "ERROR"}
  BY DEF Compared

LEMMA RowPlanType == RowPlan \in {"ops", "escalate", "refused"}
  BY DEF RowPlan

PlanType == [mode : Modes, ddl : SUBSET Statements, full : BOOLEAN, groups : SUBSET Groups]

LEMMA NoPlanType == NoPlan \in PlanType
  BY DEF NoPlan, Plan, PlanType, Modes

LEMMA PlanForType ==
  ASSUME TypeOK, NEW d \in Modes
  PROVE  PlanFor(d) \in PlanType
  BY NoPlanType, RowPlanType, SyncTableAssumption
  DEF TypeOK, TablesOK, PlanFor, Plan, PlanType, Modes, Key, Repaired

-----------------------------------------------------------------------------
LEMMA TypeInit == Init => TypeOK
<1> SUFFICES ASSUME Init PROVE TypeOK
  OBVIOUS
<1>1. TablesOK
  BY SyncTableAssumption DEF Init, TablesOK, Counters, Rows, Repaired
<1>2. CourseOK
  BY NoPlanType DEF Init, CourseOK, PlanType
<1>3. OutcomeOK
  BY DEF Init, OutcomeOK
<1> QED
  BY <1>1, <1>2, <1>3 DEF TypeOK

LEMMA TypeNext == TypeOK /\ [Next]_vars => TypeOK'
<1> SUFFICES ASSUME TypeOK, [Next]_vars PROVE TypeOK'
  OBVIOUS
<1> USE SyncTableAssumption DEF TypeOK, TablesOK, CourseOK, OutcomeOK, Counters, Repaired
<1>1. CASE PrePass
  <2>1. TablesOK'
    BY <1>1, ComparedType DEF PrePass, history, env
  <2>2. CourseOK'
    BY <1>1, ComparedType DEF PrePass, history, env
  <2>3. OutcomeOK'
    BY <1>1, ComparedType DEF PrePass, history, env
  <2> QED
    BY <2>1, <2>2, <2>3
<1>2. CASE PlanTable
  <2>1. plan' \in PlanType
    BY <1>2, DecisionType, PlanForType, NoPlanType DEF PlanTable
  <2> QED
    BY <1>2, <2>1 DEF PlanTable, PlanType, tables, history
<1>3. CASE Confirm
  BY <1>3 DEF Confirm, tables, course, history, env
<1>4. CASE Decline
  BY <1>4 DEF Decline, tables, course, history, env
<1>5. CASE ApplyTable
  BY <1>5, DecisionType DEF ApplyTable, Stop, tables, history, env
<1>6. CASE PlanRows
  <2>1. TablesOK'
    BY <1>6, RowPlanType DEF PlanRows, Stop, tables, history
  <2>2. CourseOK'
    BY <1>6, RowPlanType DEF PlanRows, Stop, tables, history
  <2>3. OutcomeOK'
    BY <1>6, RowPlanType DEF PlanRows, Stop, tables, history
  <2> QED
    BY <2>1, <2>2, <2>3
<1>7. CASE RewriteGroup
  BY <1>7 DEF RewriteGroup, Statement, Stop
<1>8. CASE WriteRows
  <2>1. TablesOK'
    BY <1>8 DEF WriteRows, Written, Statement, Stop, course, history
  <2>2. CourseOK'
    BY <1>8 DEF WriteRows, Written, Statement, Stop, course, history
  <2>3. OutcomeOK'
    BY <1>8 DEF WriteRows, Statement, Stop, course, history
  <2> QED
    BY <2>1, <2>2, <2>3
<1>9. CASE Truncate
  <2>1. TablesOK'
    BY <1>9 DEF Truncate, Emptied, Statement, Stop, course
  <2>2. CourseOK'
    BY <1>9 DEF Truncate, Emptied, Statement, Stop, course
  <2>3. truncated' \in BOOLEAN
    BY <1>9 DEF Truncate, Emptied, Statement
  <2>4. moved' \in BOOLEAN
    BY <1>9 DEF Truncate
  <2>5. /\ status' \in {status, "FAILED"} /\ failures' \in Nat
        /\ UNCHANGED <<exit, rewritten, executed, drifts>>
    BY <1>9 DEF Truncate, Statement, Stop
  <2>6. OutcomeOK'
    BY <2>3, <2>4, <2>5
  <2> QED
    BY <2>1, <2>2, <2>6
<1>10. CASE Load
  <2>1. TablesOK'
    BY <1>10 DEF Load, Written, Statement, Stop, course, history
  <2>2. CourseOK'
    BY <1>10 DEF Load, Written, Statement, Stop, course, history
  <2>3. OutcomeOK'
    BY <1>10 DEF Load, Statement, Stop, course, history
  <2> QED
    BY <2>1, <2>2, <2>3
<1>11. CASE CreateTable
  <2>1. TablesOK'
    BY <1>11 DEF CreateTable, Statement, Stop, history
  <2>2. CourseOK'
    BY <1>11 DEF CreateTable, Statement, Stop, history
  <2>3. OutcomeOK'
    BY <1>11 DEF CreateTable, Statement, Stop, history
  <2> QED
    BY <2>1, <2>2, <2>3
<1>12. CASE ExecDDL
  BY <1>12 DEF ExecDDL, Altered, Rows, Statement, Stop
<1>13. CASE ExecutedDDL
  BY <1>13 DEF ExecutedDDL, tables, course, history, env
<1>14. CASE Fallback
  <2>1. TablesOK'
    BY <1>14 DEF Fallback, Emptied, Statement, Stop
  <2>2. CourseOK'
    BY <1>14 DEF Fallback, Emptied, Statement, Stop
  <2>3. truncated' \in BOOLEAN
    BY <1>14 DEF Fallback, Emptied, Statement
  <2>4. OutcomeOK'
    BY <1>14, <2>3 DEF Fallback, Statement, Stop
  <2> QED
    BY <2>1, <2>2, <2>4
<1>15. CASE ReplanDDL
  BY <1>15 DEF ReplanDDL, Stop, tables, history, env
<1>16. CASE Recompare
  <2>1. TablesOK'
    BY <1>16, ComparedType DEF Recompare, Stop, course, history, env
  <2>2. CourseOK'
    BY <1>16, ComparedType DEF Recompare, Stop, course, history, env
  <2>3. OutcomeOK'
    BY <1>16, ComparedType DEF Recompare, Stop, course, history, env
  <2> QED
    BY <2>1, <2>2, <2>3
<1>17. CASE LoadGate
  BY <1>17 DEF LoadGate, Stop, tables, course, history, env
<1>18. CASE ApplyState
  BY <1>18 DEF ApplyState, Statement, Stop, course, history
<1>19. CASE Verify
  BY <1>19 DEF Verify, tables, course, history, env
<1>20. CASE Rerun
  BY <1>20, NoPlanType DEF Rerun, PlanType, tables, env
<1>21. CASE Drift
  <2>1. TablesOK'
    BY <1>21 DEF Drift, Rows, course, history
  <2>2. CourseOK'
    BY <1>21 DEF Drift, Rows, course, history
  <2>3. OutcomeOK'
    BY <1>21 DEF Drift, Rows, course, history
  <2> QED
    BY <2>1, <2>2, <2>3
<1>22. CASE UNCHANGED vars
  BY <1>22 DEF vars, tables, course, history, env
<1> QED
  BY <1>1, <1>2, <1>3, <1>4, <1>5, <1>6, <1>7, <1>8, <1>9, <1>10, <1>11, <1>12,
     <1>13, <1>14, <1>15, <1>16, <1>17, <1>18, <1>19, <1>20, <1>21, <1>22 DEF
     Next, Step

\* Every variable keeps its type, whatever fails and whoever interferes.
THEOREM TypeCorrect == Spec => []TypeOK
  BY TypeInit, TypeNext, PTL DEF Spec

-----------------------------------------------------------------------------
(***************************************************************************)
(* The scope.  ScopeRespected is not inductive: a table may be truncated   *)
(* only because of the gate that led to the phase, and a group rewritten   *)
(* because of the gate that let it into pending.  The invariant says what  *)
(* each gate has established while its consequence is still to come.       *)
(***************************************************************************)
NothingDoneYet ==
  phase \in {"prePass", "plan", "confirm", "apply"} =>
    path = "none" /\ pending = {} /\ ~truncated /\ rewritten = {}

PathOfPhase ==
  /\ phase \in {"ddl", "ddlRest", "fallback", "replanDDL"} => path = "structure"
  /\ phase = "create" => path = "create"
  /\ phase \in {"rowPlan", "write", "recompare"} => path \in {"plain", "structure", "create"}
  /\ path \in {"structure", "create"} => SyncSchema

TruncateGated ==
  /\ phase = "truncate" => plan.full
  /\ phase = "fallback" => AllowStructureTruncate

RewritesGated ==
  /\ pending # {} => plan.groups # {}
  /\ path = "plain" => pending \subseteq plan.groups

ScopeInv == NothingDoneYet /\ PathOfPhase /\ TruncateGated /\ RewritesGated /\ ScopeRespected

LEMMA StructureNeedsSchema == Decision \in {"STRUCTURE", "CREATE"} => SyncSchema
  BY DEF Decision, DecidePlan

LEMMA ScopeInit == Init => ScopeInv
  BY DEF Init, ScopeInv, NothingDoneYet, PathOfPhase, TruncateGated, RewritesGated, ScopeRespected

LEMMA ScopeNext == ScopeInv /\ [Next]_vars => ScopeInv'
<1> SUFFICES ASSUME ScopeInv, [Next]_vars PROVE ScopeInv'
  OBVIOUS
<1> USE DEF ScopeInv, NothingDoneYet, PathOfPhase, TruncateGated, RewritesGated, ScopeRespected,
            SyncSchema, AllowStructureTruncate
<1>1. CASE PrePass
  BY <1>1 DEF PrePass, history, env
<1>2. CASE PlanTable
  BY <1>2 DEF PlanTable, tables, history
<1>3. CASE Confirm
  BY <1>3 DEF Confirm, tables, course, history, env
<1>4. CASE Decline
  BY <1>4 DEF Decline, tables, course, history, env
<1>5. CASE ApplyTable
  BY <1>5, StructureNeedsSchema DEF ApplyTable, Stop, tables, history, env
<1>6. CASE PlanRows
  BY <1>6 DEF PlanRows, RewritesAllowed, Stop, tables, history
<1>7. CASE RewriteGroup
  BY <1>7 DEF RewriteGroup, Statement, Stop
<1>8. CASE WriteRows
  BY <1>8 DEF WriteRows, Statement, Stop, course, history
<1>9. CASE Truncate
  BY <1>9 DEF Truncate, Emptied, Statement, Stop, course
<1>10. CASE Load
  BY <1>10 DEF Load, Statement, Stop, course, history
<1>11. CASE CreateTable
  BY <1>11 DEF CreateTable, Statement, Stop, history
<1>12. CASE ExecDDL
  BY <1>12 DEF ExecDDL, Altered, Statement, Stop
<1>13. CASE ExecutedDDL
  BY <1>13 DEF ExecutedDDL, tables, course, history, env
<1>14. CASE Fallback
  BY <1>14 DEF Fallback, Emptied, Statement, Stop
<1>15. CASE ReplanDDL
  BY <1>15 DEF ReplanDDL, Stop, tables, history, env
<1>16. CASE Recompare
  BY <1>16 DEF Recompare, Stop, course, history, env
<1>17. CASE LoadGate
  BY <1>17 DEF LoadGate, Stop, tables, course, history, env
<1>18. CASE ApplyState
  BY <1>18 DEF ApplyState, Statement, Stop, course, history
<1>19. CASE Verify
  BY <1>19 DEF Verify, tables, course, history, env
<1>20. CASE Rerun
  BY <1>20 DEF Rerun, tables, env
<1>21. CASE Drift
  BY <1>21 DEF Drift, course, history
<1>22. CASE UNCHANGED vars
  BY <1>22 DEF vars, tables, course, history, env
<1> QED
  BY <1>1, <1>2, <1>3, <1>4, <1>5, <1>6, <1>7, <1>8, <1>9, <1>10, <1>11, <1>12,
     <1>13, <1>14, <1>15, <1>16, <1>17, <1>18, <1>19, <1>20, <1>21, <1>22 DEF
     Next, Step

LEMMA ScopeAlways == Spec => []ScopeInv
  BY ScopeInit, ScopeNext, PTL DEF Spec

\* No run truncates the table or rewrites a row group outside the scope its
\* confirmed plan showed, except in the two ways ScopeRespected names,
\* however the tables change between the preflight and the writes.
THEOREM ScopeCorrect == Spec => []ScopeRespected
<1>1. ScopeInv => ScopeRespected
  BY DEF ScopeInv
<1> QED
  BY <1>1, ScopeAlways, PTL

-----------------------------------------------------------------------------
(***************************************************************************)
(* SyncTable implements ConfirmedScope.  The state of a run that has been  *)
(* confirmed and that of one that has not are told apart by phase and      *)
(* status, which change together.                                          *)
(***************************************************************************)
Course ==
  /\ phase \in {"prePass", "plan", "confirm"} => status = "none"
  /\ phase = "verify" => status # "none"
  /\ phase = "done" /\ status = "none" => ~truncated /\ rewritten = {}

LEMMA CourseInit == Init => Course
  BY DEF Init, Course

LEMMA CourseNext ==
  ASSUME Course, NothingDoneYet, [Next]_vars
  PROVE  Course'
<1> USE DEF Course, NothingDoneYet
<1>1. CASE PrePass
  BY <1>1 DEF PrePass, history, env
<1>2. CASE PlanTable
  BY <1>2 DEF PlanTable, tables, history
<1>3. CASE Confirm
  BY <1>3 DEF Confirm, tables, course, history, env
<1>4. CASE Decline
  BY <1>4 DEF Decline, tables, course, history, env
<1>5. CASE ApplyTable
  BY <1>5 DEF ApplyTable, Stop, tables, history, env
<1>6. CASE PlanRows
  BY <1>6 DEF PlanRows, Stop, tables, history
<1>7. CASE RewriteGroup
  BY <1>7 DEF RewriteGroup, Statement, Stop
<1>8. CASE WriteRows
  BY <1>8 DEF WriteRows, Statement, Stop, course, history
<1>9. CASE Truncate
  BY <1>9 DEF Truncate, Emptied, Statement, Stop, course
<1>10. CASE Load
  BY <1>10 DEF Load, Statement, Stop, course, history
<1>11. CASE CreateTable
  BY <1>11 DEF CreateTable, Statement, Stop, history
<1>12. CASE ExecDDL
  BY <1>12 DEF ExecDDL, Statement, Stop
<1>13. CASE ExecutedDDL
  BY <1>13 DEF ExecutedDDL, tables, course, history, env
<1>14. CASE Fallback
  BY <1>14 DEF Fallback, Statement, Stop
<1>15. CASE ReplanDDL
  BY <1>15 DEF ReplanDDL, Stop, tables, history, env
<1>16. CASE Recompare
  BY <1>16 DEF Recompare, Stop, course, history, env
<1>17. CASE LoadGate
  BY <1>17 DEF LoadGate, Stop, tables, course, history, env
<1>18. CASE ApplyState
  BY <1>18 DEF ApplyState, Statement, Stop, course, history
<1>19. CASE Verify
  BY <1>19 DEF Verify, tables, course, history, env
<1>20. CASE Rerun
  BY <1>20 DEF Rerun, tables, env
<1>21. CASE Drift
  BY <1>21 DEF Drift, course, history
<1>22. CASE UNCHANGED vars
  BY <1>22 DEF vars, tables, course, history, env
<1> QED
  BY <1>1, <1>2, <1>3, <1>4, <1>5, <1>6, <1>7, <1>8, <1>9, <1>10, <1>11, <1>12,
     <1>13, <1>14, <1>15, <1>16, <1>17, <1>18, <1>19, <1>20, <1>21, <1>22 DEF
     Next, Step

LEMMA ScopeStep ==
  ASSUME TypeOK, ScopeInv, Course, Course', [Next]_vars
  PROVE  [Scope!Next]_(Scope!vars)
<1> USE DEF Course, ScopeInv, NothingDoneYet, PathOfPhase, TruncateGated, RewritesGated,
            Confirmed, Granted, SyncSchema, AllowStructureTruncate, TypeOK, CourseOK,
            Scope!Next, Scope!vars, Scope!Confirm, Scope!Truncate, Scope!Rewrite, Scope!EndRun,
            Scope!Idle
<1>1. CASE PrePass
  BY <1>1 DEF PrePass, history, env
<1>2. CASE PlanTable
  BY <1>2 DEF PlanTable, tables, history
<1>3. CASE Confirm
  BY <1>3 DEF Confirm, tables, course, history, env
<1>4. CASE Decline
  BY <1>4 DEF Decline, tables, course, history, env
<1>5. CASE ApplyTable
  BY <1>5 DEF ApplyTable, Stop, tables, history, env
<1>6. CASE PlanRows
  BY <1>6 DEF PlanRows, Stop, tables, history
<1>7. CASE RewriteGroup
  <2>1. Confirmed /\ pending \subseteq Granted
    BY <1>7 DEF RewriteGroup
  <2>2. phase' # "done" /\ phase' # "prePass" /\ phase' # "plan" /\ phase' # "confirm"
    BY <1>7 DEF RewriteGroup, Statement, Stop
  <2>3. UNCHANGED <<plan, setting, truncated>>
    BY <1>7 DEF RewriteGroup
  <2>4. (\E g \in pending : rewritten' = rewritten \cup {g}) \/ UNCHANGED rewritten
    BY <1>7 DEF RewriteGroup, Statement
  <2> QED
    BY <2>1, <2>2, <2>3, <2>4
<1>8. CASE WriteRows
  BY <1>8 DEF WriteRows, Statement, Stop, course, history
<1>9. CASE Truncate
  <2>1. Confirmed /\ plan.full
    BY <1>9 DEF Truncate
  <2>2. phase' # "done" /\ phase' # "prePass" /\ phase' # "plan" /\ phase' # "confirm"
    BY <1>9 DEF Truncate, Statement, Stop
  <2>3. UNCHANGED <<plan, setting, rewritten>>
    BY <1>9 DEF Truncate, course
  <2>4. truncated' = TRUE \/ UNCHANGED truncated
    BY <1>9 DEF Truncate, Statement, Emptied
  <2> QED
    BY <2>1, <2>2, <2>3, <2>4
<1>10. CASE Load
  BY <1>10 DEF Load, Statement, Stop, course, history
<1>11. CASE CreateTable
  BY <1>11 DEF CreateTable, Statement, Stop, history
<1>12. CASE ExecDDL
  BY <1>12 DEF ExecDDL, Statement, Stop
<1>13. CASE ExecutedDDL
  BY <1>13 DEF ExecutedDDL, tables, course, history, env
<1>14. CASE Fallback
  <2>1. Confirmed /\ SyncSchema /\ AllowStructureTruncate
    BY <1>14 DEF Fallback
  <2>2. Confirmed' /\ UNCHANGED <<plan, setting, rewritten>>
    BY <1>14 DEF Fallback, Statement, Stop
  <2>3. truncated' = TRUE \/ UNCHANGED truncated
    BY <1>14 DEF Fallback, Statement, Emptied
  <2> QED
    BY <2>1, <2>2, <2>3
<1>15. CASE ReplanDDL
  BY <1>15 DEF ReplanDDL, Stop, tables, history, env
<1>16. CASE Recompare
  BY <1>16 DEF Recompare, Stop, course, history, env
<1>17. CASE LoadGate
  BY <1>17 DEF LoadGate, Stop, tables, course, history, env
<1>18. CASE ApplyState
  BY <1>18 DEF ApplyState, Statement, Stop, course, history
<1>19. CASE Verify
  BY <1>19 DEF Verify, tables, course, history, env
<1>20. CASE Rerun
  <2>1. Confirmed' = FALSE
    BY <1>20 DEF Rerun
  <2>2. truncated' = FALSE /\ rewritten' = {}
    BY <1>20 DEF Rerun
  <2>3. CASE Confirmed
    BY <2>1, <2>2, <2>3
  <2>4. CASE ~Confirmed
    <3>1. truncated = FALSE /\ rewritten = {}
      BY <1>20, <2>4 DEF Rerun, OutcomeOK
    <3>2. (Confirmed /\ plan.full)' = (Confirmed /\ plan.full)
      BY <2>1, <2>4
    <3> QED
      BY <2>1, <2>2, <2>4, <3>1, <3>2
  <2> QED
    BY <2>3, <2>4
<1>21. CASE Drift
  BY <1>21 DEF Drift, course, history
<1>22. CASE UNCHANGED vars
  BY <1>22 DEF vars, tables, course, history, env
<1> QED
  BY <1>1, <1>2, <1>3, <1>4, <1>5, <1>6, <1>7, <1>8, <1>9, <1>10, <1>11, <1>12,
     <1>13, <1>14, <1>15, <1>16, <1>17, <1>18, <1>19, <1>20, <1>21, <1>22 DEF
     Next, Step

LEMMA CourseAlways == Spec => []Course
<1>1. Course /\ NothingDoneYet /\ [Next]_vars => Course'
  BY CourseNext
<1>2. ScopeInv => NothingDoneYet
  BY DEF ScopeInv
<1> QED
  BY <1>1, <1>2, CourseInit, ScopeAlways, PTL DEF Spec

\* Whatever other sessions change after the confirmation, and whichever
\* statement fails: ApplyTable truncates and rewrites only what the confirmed
\* plan showed, or what the structure repair was granted beyond it.
THEOREM ScopeImplemented == Spec => ScopeSpec
<1>1. Init => Scope!Init
  BY DEF Init, NoPlan, Plan, Confirmed, Scope!Init, Scope!Idle
<1>2. TypeOK /\ ScopeInv /\ Course /\ Course' /\ [Next]_vars => [Scope!Next]_(Scope!vars)
  BY ScopeStep
<1> QED
  BY <1>1, <1>2, TypeCorrect, ScopeAlways, CourseAlways, PTL DEF Spec, ScopeSpec, Scope!Spec
-----------------------------------------------------------------------------
(***************************************************************************)
(* --where.  The filtered run never leaves the row-level path, so it never *)
(* reaches a phase that truncates or alters.                               *)
(***************************************************************************)
FilterInv ==
  Filtered =>
    /\ phase \notin {"truncate", "create", "ddl", "ddlRest", "fallback", "replanDDL",
                     "recompare", "loadGate"}
    /\ path \in {"none", "plain", "state"}
    /\ ~truncated /\ executed = {}

LEMMA FilteredDecision == Filtered => Decision \notin {"CREATE", "STRUCTURE", "FULL"}
  BY DEF Decision, DecidePlan

LEMMA FilterInit == Init => FilterInv
  BY DEF Init, FilterInv

LEMMA FilterNext ==
  ASSUME FilterInv, [Next]_vars
  PROVE  FilterInv'
<1> USE DEF FilterInv, Filtered
<1>1. CASE PrePass
  BY <1>1 DEF PrePass, history, env
<1>2. CASE PlanTable
  BY <1>2 DEF PlanTable, tables, history
<1>3. CASE Confirm
  BY <1>3 DEF Confirm, tables, course, history, env
<1>4. CASE Decline
  BY <1>4 DEF Decline, tables, course, history, env
<1>5. CASE ApplyTable
  BY <1>5, FilteredDecision DEF ApplyTable, Stop, tables, history, env
<1>6. CASE PlanRows
  BY <1>6 DEF PlanRows, Stop, tables, history
<1>7. CASE RewriteGroup
  BY <1>7 DEF RewriteGroup, Statement, Stop
<1>8. CASE WriteRows
  BY <1>8 DEF WriteRows, Statement, Stop, course, history
<1>9. CASE Truncate
  BY <1>9 DEF Truncate, Emptied, Statement, Stop, course
<1>10. CASE Load
  BY <1>10 DEF Load, Statement, Stop, course, history
<1>11. CASE CreateTable
  BY <1>11 DEF CreateTable, Statement, Stop, history
<1>12. CASE ExecDDL
  BY <1>12 DEF ExecDDL, Statement, Stop
<1>13. CASE ExecutedDDL
  BY <1>13 DEF ExecutedDDL, tables, course, history, env
<1>14. CASE Fallback
  BY <1>14 DEF Fallback, Statement, Stop
<1>15. CASE ReplanDDL
  BY <1>15 DEF ReplanDDL, Stop, tables, history, env
<1>16. CASE Recompare
  BY <1>16 DEF Recompare, Stop, course, history, env
<1>17. CASE LoadGate
  BY <1>17 DEF LoadGate, Stop, tables, course, history, env
<1>18. CASE ApplyState
  BY <1>18 DEF ApplyState, Statement, Stop, course, history
<1>19. CASE Verify
  BY <1>19 DEF Verify, tables, course, history, env
<1>20. CASE Rerun
  BY <1>20 DEF Rerun, tables, env
<1>21. CASE Drift
  BY <1>21 DEF Drift, course, history
<1>22. CASE UNCHANGED vars
  BY <1>22 DEF vars, tables, course, history, env
<1> QED
  BY <1>1, <1>2, <1>3, <1>4, <1>5, <1>6, <1>7, <1>8, <1>9, <1>10, <1>11, <1>12,
     <1>13, <1>14, <1>15, <1>16, <1>17, <1>18, <1>19, <1>20, <1>21, <1>22 DEF
     Next, Step

\* Whatever the row plan escalates to and whatever changes after the
\* confirmation, a run with --where truncates no table, executes no DDL and
\* creates none.
THEOREM FilterCorrect == Spec => []FilteredKeepsTable
<1>1. FilterInv => FilteredKeepsTable
  BY DEF FilterInv, FilteredKeepsTable
<1>2. FilterInv /\ [Next]_vars => FilterInv'
  BY FilterNext
<1> QED
  BY <1>1, <1>2, FilterInit, PTL DEF Spec
-----------------------------------------------------------------------------
(* NoReplay.  It is inductive given the type of drifts: a statement leaves  *)
(* todo only together with missing, and every other way into the two DDL    *)
(* phases takes todo from missing.                                          *)

LEMMA ReplayInit == Init => NoReplay
  BY DEF Init, NoReplay

LEMMA ReplayNext ==
  ASSUME TypeOK, NoReplay, [Next]_vars
  PROVE  NoReplay'
<1> USE DEF NoReplay
<1>1. CASE PrePass
  BY <1>1 DEF PrePass
<1>2. CASE PlanTable
  BY <1>2 DEF PlanTable
<1>3. CASE Confirm
  BY <1>3 DEF Confirm
<1>4. CASE Decline
  BY <1>4 DEF Decline
<1>5. CASE ApplyTable
  BY <1>5 DEF ApplyTable, Stop, tables, env
<1>6. CASE PlanRows
  BY <1>6 DEF PlanRows, Stop
<1>7. CASE RewriteGroup
  BY <1>7 DEF RewriteGroup, Statement, Stop
<1>8. CASE WriteRows
  BY <1>8 DEF WriteRows, Statement, Stop
<1>9. CASE Truncate
  BY <1>9 DEF Truncate, Statement, Stop
<1>10. CASE Load
  BY <1>10 DEF Load, Statement, Stop
<1>11. CASE CreateTable
  BY <1>11 DEF CreateTable, Statement, Stop
<1>12. CASE ExecDDL
  BY <1>12 DEF ExecDDL, Statement, Altered, Stop
<1>13. CASE ExecutedDDL
  BY <1>13 DEF ExecutedDDL
<1>14. CASE Fallback
  BY <1>14 DEF Fallback, Statement, Stop
<1>15. CASE ReplanDDL
  BY <1>15 DEF ReplanDDL, Stop, tables, env
<1>16. CASE Recompare
  BY <1>16 DEF Recompare, Stop
<1>17. CASE LoadGate
  BY <1>17 DEF LoadGate, Stop
<1>18. CASE ApplyState
  BY <1>18 DEF ApplyState, Statement, Stop
<1>19. CASE Verify
  BY <1>19 DEF Verify
<1>20. CASE Rerun
  BY <1>20 DEF Rerun
<1>21. CASE Drift
  BY <1>21 DEF Drift, TypeOK, OutcomeOK
<1>22. CASE UNCHANGED vars
  BY <1>22 DEF vars, tables, course, env
<1> QED
  BY <1>1, <1>2, <1>3, <1>4, <1>5, <1>6, <1>7, <1>8, <1>9, <1>10, <1>11, <1>12,
     <1>13, <1>14, <1>15, <1>16, <1>17, <1>18, <1>19, <1>20, <1>21, <1>22 DEF
     Next, Step

\* While nobody else writes, no statement is executed that has taken effect
\* already, however many fail or lose their answer, and also after the
\* fallback has planned again.
THEOREM ReplayCorrect == Spec => []NoReplay
<1>1. TypeOK /\ NoReplay /\ [Next]_vars => NoReplay'
  BY ReplayNext
<1> QED
  BY <1>1, ReplayInit, TypeCorrect, PTL DEF Spec
-----------------------------------------------------------------------------
(***************************************************************************)
(* What a run that nobody disturbs knows of the tables at each phase.  The *)
(* verdict of the pre-pass stays true until the first write; the table     *)
(* leaves the DDL phases with the source's structure and key; only a table *)
(* with nothing to write is handed to the state path.                      *)
(***************************************************************************)
Undisturbed == drifts = 0

Converged == exists /\ equal /\ StateAligned /\ (SyncSchema => missing = {})

OutcomeOfPhase ==
  /\ phase \notin {"verify", "done"} => status = "none"
  /\ phase # "done" => exit = "none"
  /\ path = "state" => phase \in {"state", "verify", "done"}

VerdictHolds ==
  Undisturbed /\ phase \in {"plan", "confirm", "apply"} => res = Compared

DDLRemains ==
  Undisturbed =>
    /\ phase \in {"ddl", "ddlRest"} => missing \subseteq todo
    /\ phase \in {"recompare", "loadGate"} => missing = {}
    /\ phase = "rowPlan" /\ path # "plain" => missing = {}
    /\ phase \in {"rowPlan", "write", "truncate", "load", "state"} => (SyncSchema => missing = {})

OutcomeHolds ==
  Undisturbed =>
    /\ phase = "state" /\ path = "state" => exists /\ equal /\ (SyncSchema => missing = {})
    /\ phase = "verify" /\ status = "APPLIED" => (SyncSchema => missing = {})
    /\ phase = "verify" /\ status = "SKIPPED" =>
         /\ exists /\ equal /\ (SyncSchema => missing = {})
         /\ path # "state" => StateAligned

ExitInv == OutcomeOfPhase /\ VerdictHolds /\ DDLRemains /\ OutcomeHolds
           /\ ExitIdenticalMeansConverged

\* What the pre-pass says of a table it can compare, and what SKIP and the
\* decisions that write take for granted.
LEMMA ComparedOK == Compared = "OK" <=> exists /\ missing \cap Breaking = {} /\ equal
  BY DEF Compared

LEMMA DecisionAligned ==
  ASSUME res = Compared
  PROVE  /\ Decision \in {"SKIP", "STATE"} => exists /\ equal /\ (SyncSchema => missing = {})
         /\ Decision = "SKIP" => StateAligned
         /\ Decision \in {"ROWLEVEL", "FULL"} => (SyncSchema => missing = {})
<1> USE DEF Compared, Decision
<1>1. DecidePlan \notin {"SKIP", "STATE"}
  BY DEF DecidePlan
<1>2. CASE ~exists
  BY <1>2
<1>3. CASE exists /\ SyncSchema /\ missing # {}
  BY <1>3
<1>4. CASE exists /\ ~(SyncSchema /\ missing # {})
  BY <1>1, <1>4
<1> QED
  BY <1>2, <1>3, <1>4

LEMMA SkipShown ==
  /\ \A d \in Modes : PlanFor(d).mode = "SKIP" => d = "SKIP"
  /\ NoPlan.mode # "SKIP"
  BY DEF PlanFor, NoPlan, Plan, Modes

\* A step that leaves the tables alone changes none of these.
LEMMA TablesSame ==
  ASSUME UNCHANGED <<exists, missing, equal, counter, setting>>
  PROVE  UNCHANGED <<Compared, StateAligned>>
  BY DEF Compared, StateAligned, Filtered

LEMMA ExitInit == Init => ExitInv
  BY DEF Init, ExitInv, OutcomeOfPhase, VerdictHolds, DDLRemains, OutcomeHolds,
         ExitIdenticalMeansConverged

LEMMA ExitNext ==
  ASSUME TypeOK, ExitInv, [Next]_vars
  PROVE  ExitInv'
<1> USE DEF ExitInv, OutcomeOfPhase, VerdictHolds, DDLRemains, OutcomeHolds, Undisturbed,
            ExitIdenticalMeansConverged, SyncSchema
<1>1. CASE PrePass
  BY <1>1, TablesSame DEF PrePass, history, env
<1>2. CASE PlanTable
  BY <1>2, TablesSame, DecisionAligned, SkipShown, DecisionType DEF PlanTable, tables, history
<1>3. CASE Confirm
  BY <1>3, TablesSame DEF Confirm, tables, course, history, env
<1>4. CASE Decline
  BY <1>4, TablesSame DEF Decline, tables, course, history, env
<1>5. CASE ApplyTable
  BY <1>5, TablesSame, DecisionAligned DEF ApplyTable, Stop, tables, history, env
<1>6. CASE PlanRows
  BY <1>6 DEF PlanRows, Stop, tables, history
<1>7. CASE RewriteGroup
  BY <1>7 DEF RewriteGroup, Statement, Stop
<1>8. CASE WriteRows
  <2>1. UNCHANGED <<missing, exit, path, drifts, setting, res>> /\ phase' \in {"state", "verify"}
        /\ (phase' = "verify" => status' = "FAILED") /\ (phase' = "state" => status' = status)
    BY <1>8 DEF WriteRows, Statement, Stop, course, env
  <2> QED
    BY <1>8, <2>1 DEF WriteRows
<1>9. CASE Truncate
  BY <1>9 DEF Truncate, Statement, Stop, course
<1>10. CASE Load
  <2>1. UNCHANGED <<missing, exit, path, drifts, setting, res>> /\ phase' \in {"state", "verify"}
        /\ (phase' = "verify" => status' = "FAILED") /\ (phase' = "state" => status' = status)
    BY <1>10 DEF Load, Statement, Stop, course, env
  <2> QED
    BY <1>10, <2>1 DEF Load
<1>11. CASE CreateTable
  BY <1>11 DEF CreateTable, Statement, Stop, history
<1>12. CASE ExecDDL
  BY <1>12 DEF ExecDDL, Altered, Statement, Stop
<1>13. CASE ExecutedDDL
  BY <1>13 DEF ExecutedDDL, tables, course, history, env
<1>14. CASE Fallback
  BY <1>14 DEF Fallback, Statement, Stop
<1>15. CASE ReplanDDL
  BY <1>15 DEF ReplanDDL, Stop, tables, history, env
<1>16. CASE Recompare
  <2>1. UNCHANGED <<Compared, StateAligned>>
    BY <1>16, TablesSame DEF Recompare, env
  <2> QED
    BY <1>16, <2>1 DEF Recompare, Stop, course, history, env
<1>17. CASE LoadGate
  BY <1>17 DEF LoadGate, Stop, tables, course, history, env
<1>18. CASE ApplyState
  BY <1>18 DEF ApplyState, Statement, Stop, course, history
<1>19. CASE Verify
  BY <1>19, ComparedOK, TablesSame DEF Verify, tables, course, history, env
<1>20. CASE Rerun
  BY <1>20 DEF Rerun, tables, env
<1>21. CASE Drift
  BY <1>21 DEF Drift, course, history, TypeOK, OutcomeOK
<1>22. CASE UNCHANGED vars
  BY <1>22, TablesSame DEF vars, tables, course, history, env
<1> QED
  BY <1>1, <1>2, <1>3, <1>4, <1>5, <1>6, <1>7, <1>8, <1>9, <1>10, <1>11, <1>12,
     <1>13, <1>14, <1>15, <1>16, <1>17, <1>18, <1>19, <1>20, <1>21, <1>22 DEF
     Next, Step

\* While nobody else writes, the exit code 0 means that structure, rows and
\* counter have converged, whichever path was taken, whatever failed before
\* and however many runs it took.
THEOREM ExitCorrect == Spec => []ExitIdenticalMeansConverged
<1>1. TypeOK /\ ExitInv /\ [Next]_vars => ExitInv'
  BY ExitNext
<1>2. ExitInv => ExitIdenticalMeansConverged
  BY DEF ExitInv
<1> QED
  BY <1>1, <1>2, ExitInit, TypeCorrect, PTL DEF Spec
-----------------------------------------------------------------------------
(***************************************************************************)
(* The confirmed plan and the plan the apply comes to.  Both are derived   *)
(* from the same tables until the first write; behind a structure repair   *)
(* the apply decides from the repaired key, which the plan predicted from  *)
(* the source's.                                                           *)
(***************************************************************************)
KeyRestored == missing = {} => key = Repaired

NotStale == Undisturbed => ~stale

PlanHolds ==
  Undisturbed /\ phase \in {"confirm", "apply"} /\ plan.mode # "ERROR" => plan = PlanFor(Decision)

PlainPlanHolds ==
  Undisturbed /\ plan.mode # "ERROR" /\ path = "plain" /\ phase = "rowPlan" =>
    /\ RowPlan = "ops" => hot \subseteq plan.groups
    /\ RowPlan = "escalate" /\ ~Filtered => plan.full

PathOfRepair == phase \in {"recompare", "loadGate"} => path \in {"structure", "create"}

RepairPredicted ==
  path = "structure" =>
    /\ ~Filtered
    /\ Undisturbed /\ plan.mode # "ERROR" =>
         plan.full = ~(Repaired.srcKeyed /\ Repaired.chunkable)

RepairHolds ==
  Undisturbed =>
    /\ phase = "rowPlan" /\ path = "structure" => Repaired.srcKeyed /\ Repaired.chunkable
    /\ phase = "loadGate" /\ path = "structure" /\ plan.mode # "ERROR" =>
         plan.full \/ ~RepairAgrees

CreatedEmpty ==
  Undisturbed /\ path = "create" /\ phase \in {"recompare", "rowPlan", "loadGate"} =>
    preTruncated /\ hot = {} /\ ~cross

ReplanInv ==
  /\ KeyRestored /\ NotStale /\ PlanHolds /\ PlainPlanHolds /\ PathOfRepair
  /\ RepairPredicted /\ RepairHolds /\ CreatedEmpty /\ NoReplanUndisturbed

LEMMA PlanSame ==
  ASSUME UNCHANGED <<tables, res, setting>>
  PROVE  UNCHANGED <<RowPlan, PlanFor(Decision)>>
<1> USE DEF tables
<1>1. UNCHANGED RowPlan
  BY DEF RowPlan, AllowRowRewrite
<1>2. UNCHANGED DecidePlan
  BY DEF DecidePlan, Filtered
<1>3. UNCHANGED Decision
  BY <1>2 DEF Decision, StateAligned, Filtered, SyncSchema
<1> QED
  BY <1>1, <1>3 DEF PlanFor, Plan, NoPlan, Filtered, Repaired

LEMMA NoPlanMode == NoPlan.mode = "ERROR"
  BY DEF NoPlan, Plan

\* What the plans of the three writing decisions show.
LEMMA PlanForFacts ==
  /\ PlanFor("FULL").full
  /\ PlanFor("STRUCTURE").full = ~(Repaired.srcKeyed /\ Repaired.chunkable)
  /\ RowPlan = "ops" => PlanFor("ROWLEVEL").groups = hot
  /\ RowPlan = "escalate" /\ ~Filtered => PlanFor("ROWLEVEL").full
  BY DEF PlanFor, Plan

LEMMA RepairUnfiltered == Decision = "STRUCTURE" => ~Filtered
  BY DEF Decision, DecidePlan

\* Without stale chunks, only a rewrite or a cross-chunk conflict keeps a row
\* plan from being carried out.
LEMMA RowPlanSmall ==
  ASSUME TypeOK, ~stale, RowPlan # "ops"
  PROVE  hot # {} \/ cross
  BY DEF RowPlan

\* The mode decided from the repaired key is the predicted one, as far as the
\* two sides select the same.
LEMMA RedecidedKey ==
  ASSUME key = Repaired, ~Filtered
  PROVE  /\ DecidePlan = "ROWLEVEL" => Repaired.srcKeyed /\ Repaired.chunkable
         /\ DecidePlan = "FULL" =>
              ~(Repaired.srcKeyed /\ Repaired.chunkable) \/ ~RepairAgrees
  BY DEF DecidePlan, RepairAgrees

LEMMA ReplanInit == Init => ReplanInv
  BY NoPlanMode
  DEF Init, ReplanInv, KeyRestored, NotStale, PlanHolds, PlainPlanHolds, PathOfRepair,
      RepairPredicted, RepairHolds, CreatedEmpty, NoReplanUndisturbed

LEMMA ReplanNext ==
  ASSUME TypeOK, ScopeInv, ExitInv, ReplanInv, [Next]_vars
  PROVE  ReplanInv'
<1> USE DEF ReplanInv, KeyRestored, NotStale, PlanHolds, PlainPlanHolds, PathOfRepair,
            RepairPredicted, RepairHolds, CreatedEmpty, NoReplanUndisturbed, Undisturbed,
            ExitInv, OutcomeOfPhase, DDLRemains, ScopeInv, NothingDoneYet, PathOfPhase,
            Repaired, Filtered, RepairAgrees
<1>1. CASE PrePass
  BY <1>1 DEF PrePass, history, env
<1>2. CASE PlanTable
  <2>1. UNCHANGED <<tables, path, status, setting, drifts>> /\ phase' \in {"done", "confirm"}
    BY <1>2 DEF PlanTable
  <2>2. path # "structure" /\ status = "none"
    BY <1>2 DEF PlanTable
  <2>3. PlanHolds'
    BY <1>2, PlanSame, NoPlanMode DEF PlanTable
  <2> QED
    BY <2>1, <2>2, <2>3 DEF tables
<1>3. CASE Confirm
  BY <1>3, PlanSame DEF Confirm, tables, course, history, env
<1>4. CASE Decline
  BY <1>4 DEF Decline, tables, course, history, env
<1>5. CASE ApplyTable
  BY <1>5, PlanForFacts, RepairUnfiltered, PlanSame DEF ApplyTable, Stop, tables, history, env
<1>6. CASE PlanRows
  <2>1. /\ phase = "rowPlan" /\ path \in {"plain", "structure", "create"}
        /\ UNCHANGED <<tables, res, plan, path, preTruncated, setting, drifts>>
        /\ phase' \in {"write", "truncate", "loadGate", "verify"}
        /\ phase' = "loadGate" => plan.full /\ path # "plain"
    BY <1>6 DEF PlanRows, Stop
  <2>2. UNCHANGED RepairAgrees
    BY <2>1
  <2>3. NoReplanUndisturbed'
    <3>1. SUFFICES ASSUME drifts = 0, status' = "REPLAN", plan.mode # "ERROR"
                   PROVE  path = "structure" /\ ~plan.full /\ (hot # {} \/ cross)
      BY <2>1 DEF tables
    <3>2. \/ RowPlan = "escalate" /\ ~Filtered /\ ~plan.full
          \/ RowPlan = "ops" /\ ~RewritesAllowed
      BY <1>6, <3>1 DEF PlanRows, Stop
    <3>3. path # "plain"
      BY <2>1, <3>1, <3>2 DEF RewritesAllowed
    <3>4. hot # {} \/ cross
      BY <3>1, <3>2, RowPlanSmall DEF RewritesAllowed
    <3>5. path = "structure"
      BY <2>1, <3>1, <3>3, <3>4
    <3> QED
      BY <2>1, <3>1, <3>4, <3>5, SyncTableAssumption DEF TypeOK, CourseOK
  <2> QED
    BY <2>1, <2>2, <2>3 DEF tables
<1>7. CASE RewriteGroup
  BY <1>7 DEF RewriteGroup, Statement, Stop
<1>8. CASE WriteRows
  BY <1>8 DEF WriteRows, Statement, Stop, course, history
<1>9. CASE Truncate
  BY <1>9 DEF Truncate, Statement, Stop, course
<1>10. CASE Load
  BY <1>10 DEF Load, Statement, Stop, course, history
<1>11. CASE CreateTable
  BY <1>11 DEF CreateTable, Statement, Stop, history
<1>12. CASE ExecDDL
  BY <1>12 DEF ExecDDL, Altered, Statement, Stop
<1>13. CASE ExecutedDDL
  BY <1>13, PlanSame DEF ExecutedDDL, tables, course, history, env
<1>14. CASE Fallback
  BY <1>14 DEF Fallback, Statement, Stop
<1>15. CASE ReplanDDL
  BY <1>15 DEF ReplanDDL, Stop, tables, history, env
<1>16. CASE Recompare
  BY <1>16, RedecidedKey DEF Recompare, Stop, course, history, env
<1>17. CASE LoadGate
  BY <1>17 DEF LoadGate, Stop, tables, course, history, env
<1>18. CASE ApplyState
  BY <1>18 DEF ApplyState, Statement, Stop, course, history
<1>19. CASE Verify
  BY <1>19 DEF Verify, tables, course, history, env
<1>20. CASE Rerun
  BY <1>20 DEF Rerun, tables, env
<1>21. CASE Drift
  BY <1>21 DEF Drift, course, history, TypeOK, OutcomeOK
<1>22. CASE UNCHANGED vars
  BY <1>22, PlanSame DEF vars, tables, course, history, env
<1> QED
  BY <1>1, <1>2, <1>3, <1>4, <1>5, <1>6, <1>7, <1>8, <1>9, <1>10, <1>11, <1>12,
     <1>13, <1>14, <1>15, <1>16, <1>17, <1>18, <1>19, <1>20, <1>21, <1>22 DEF
     Next, Step

\* While nobody else writes, a plan that was confirmed is one the apply can
\* carry out, but for what a structure repair brings to light: the rewrites
\* its rows need, and a key of the destination that is not the source's.
THEOREM ReplanCorrect == Spec => []NoReplanUndisturbed
<1>1. TypeOK /\ ExitInv /\ [Next]_vars => ExitInv'
  BY ExitNext
<1>2. TypeOK /\ ScopeInv /\ ExitInv /\ ReplanInv /\ [Next]_vars => ReplanInv'
  BY ReplanNext
<1>3. ReplanInv => NoReplanUndisturbed
  BY DEF ReplanInv
<1> QED
  BY <1>1, <1>2, <1>3, ExitInit, ReplanInit, ScopeAlways, TypeCorrect, PTL DEF Spec
=============================================================================
