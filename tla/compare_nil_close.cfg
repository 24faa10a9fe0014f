SPECIFICATION Spec
CHECK_DEADLOCK FALSE
CONSTANTS
 Nobody = Nobody
 NoRow = NoRow
 Keys <- KeySet
 Values = {1,2}
 Parallel = 2
 MaxFaults = 2
 DrillMaxRows = 2
 Settings <- LostSettings
INVARIANT OneResultPerTable
