SPECIFICATION WritesSpec
CONSTANTS
  v1 = v1
  v2 = v2
  ternary = ternary
  NotReferable = ternary
  Tables <- MCTables
  BuiltInTables <- MCBuiltInTables
  TableReferences <- MCTableReferences
  DependencyRank <- MCDependencyRank
  UpdateLists <- MCUpdateLists
  Problems <- MCMixedProblems
  Unlimited = Unlimited
  MaxUpdates = 2
INVARIANTS
  SequencedCorrectly
CHECK_DEADLOCK FALSE
