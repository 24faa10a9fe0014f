SPECIFICATION Spec
CONSTANTS
 g1 = g1
 g2 = g2
 addColumn = addColumn
 dropIndex = dropIndex
 Groups <- TwoGroups
 Statements <- TwoStatements
 Breaking <- JustAddColumn
 KeyFacts <- AllKeys
 Settings <- EverySetting
 MaxDrifts = 1
 MaxFailures = 1
CHECK_DEADLOCK FALSE
INVARIANTS TypeOK ScopeRespected FilteredKeepsTable NoReplay NoReplanUndisturbed ExitIdenticalMeansConverged
PROPERTY ScopeSpec
