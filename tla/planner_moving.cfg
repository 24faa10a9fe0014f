SPECIFICATION Spec
CONSTANTS
 NULL = NULL
 Half = 4
 KeySpaces <- AllKeys
 ChunkSize = 1
 MaxN = 4
 MaxRows = 3
 MaxTotal = 5
 MaxChanges = 1
CHECK_DEADLOCK FALSE
INVARIANTS TypeOK NoOverlap NoGap ChunksInKeyOrder OutOfRangeIsOutsideSpan PlanIsBounded
