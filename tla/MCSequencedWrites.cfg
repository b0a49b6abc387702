SPECIFICATION WritesSpec
CONSTANTS
  v1 = v1
  v2 = v2
  ternary = ternary
  NotReferable = ternary
  Tables <- MCTables
  BuiltInTables <- MCBuiltInTables
  TableReferences <- MCTableReferences
  DependencyRank <- MCDependencyRank
  UpdateLists <- MCUpdateLists
  Problems <- MCProblems
  Unlimited = Unlimited
  MaxUpdates = 4
INVARIANTS
  EveryUpdateSentOnce
  DependenciesComeFirst
  NoBatchIsLate
  NeverCyclic
  RequestsFit
  BuildUpAndTearDownAccepted
PROPERTIES
  TableEventuallyReached
CHECK_DEADLOCK FALSE
