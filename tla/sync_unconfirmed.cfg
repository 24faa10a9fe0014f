SPECIFICATION Spec
CONSTANTS
 g1 = g1
 g2 = g2
 addColumn = addColumn
 dropIndex = dropIndex
 Groups <- TwoGroups
 Statements <- OneStatement
 Breaking <- JustAddColumn
 KeyFacts <- SomeKeys
 Settings <- Permissive
 MaxDrifts = 1
 MaxFailures = 0
CHECK_DEADLOCK FALSE
INVARIANT OnePromiseIsKept
