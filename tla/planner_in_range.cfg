SPECIFICATION Spec
CONSTANTS
 NULL = NULL
 Half = 4
 KeySpaces <- ThreeSampled
 ChunkSize = 2
 MaxN = 4
 MaxRows = 2
 MaxTotal = 2
 MaxChanges = 0
CHECK_DEADLOCK FALSE
INVARIANT InSpanIsKept
