SPECIFICATION Spec
CONSTANTS
  v1 = v1
  v2 = v2
  ternary = ternary
  NotReferable = ternary
  Tables <- MCTables
  TableReferences <- MCTableReferences
  DependencyRank <- MCDependencyRank
  Inputs <- MCInputs
  MaxEntities = 4
INVARIANTS
  ReturnsExactlyTheUnreachable
  NothingKeptDangles
CHECK_DEADLOCK FALSE
