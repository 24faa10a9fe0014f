SPECIFICATION Spec
CONSTANTS
 NULL = NULL
 Half = 32
 MaxN = 4
 Settings <- TableSettings
CHECK_DEADLOCK FALSE
INVARIANTS TypeOK AppliedIsConverged
PROPERTIES OnlyFoldsAreRejected ChunkCommitConverges EqualRowsStay FilterRespected
