SPECIFICATION Spec
CHECK_DEADLOCK FALSE
CONSTANTS
 Nobody = Nobody
 NoRow = NoRow
 Keys <- KeySet
 Values = {1,2}
 Parallel = 2
 MaxFaults = 2
 DrillMaxRows = 2
 Settings <- AllSettings
INVARIANTS TypeOK NoUnguardedSession NothingLeaks VerdictIsTrue SnapshotVerdictIsTrue DrillShowsDifference BlamedSideFailed OneKillSurvived AllReturned
PROPERTIES Terminates
