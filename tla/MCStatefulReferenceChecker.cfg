SPECIFICATION Spec
CONSTANTS
  v1 = v1
  v2 = v2
  ternary = ternary
  NotReferable = ternary
  Tables <- MCTables
  TableReferences <- MCTableReferences
  DependencyRank <- MCDependencyRank
  Entities <- MCEntities
VIEW checkerView
INVARIANTS
  TypeOK
  CountersMatchEntities
  NoDanglingReferences
  ReferencesMeetWhenValuesAgree
  SomethingCanBeRemoved
PROPERTIES
  ImplementsReferenceIntegrity
