SPECIFICATION Spec
CONSTANTS
 NULL = NULL
 Half = 32
 MaxN = 4
 Settings <- SpreadSettings
CHECK_DEADLOCK FALSE
INVARIANT NoDuplicateKey
