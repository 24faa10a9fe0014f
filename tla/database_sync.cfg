SPECIFICATION Spec
CHECK_DEADLOCK FALSE
CONSTANTS
 Absent = Absent
 View = View
 Tables <- TwoTables
 Databases <- Initial
 Shapes <- NewShapes
 MaxSteps = 2
 ColumnNames <- ThreeColumns
 Definitions <- SomeTypes
 Family <- Families
 Generations <- SomeKinds
 Collations <- SomeOrders
 Settings <- AllSettings
INVARIANTS TypeOK ExitZeroMeansMirrored RepairIsAccepted LossWasShown RepairStaysRepairable
PROPERTIES DropsOnlyLacked EventuallyMirrors
