SPECIFICATION Spec
CONSTANTS
 NULL = NULL
 Half = 32
 MaxN = 4
 Settings <- MovingSettings
CHECK_DEADLOCK FALSE
PROPERTY EventuallyConverged
