SPECIFICATION Spec
CONSTANTS
  Tables = {t1, t2, t3, t4}
  Graphs <- MCGraphs
  MaxReferences = 5
INVARIANTS
  ReferencedTablesRankHigher
  RanksAreTight
  RefusedOnlyIfCyclic
PROPERTIES
  EveryTableIsRanked
CHECK_DEADLOCK FALSE
