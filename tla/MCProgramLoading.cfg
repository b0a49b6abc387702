SPECIFICATION Spec
CONSTANTS
  Refused = Refused
  AddressBits <- MCAddressBits
  RoleSets <- MCRoleSets
INVARIANTS
  OrderIsIrrelevant
  OnlyContradictionsRefused
  RolesKeepTheirPrograms
  CopiesAgree
  ReferencesAreMutual
  AssumptionsOfReferencesHold
  NothingUnsupportedRemains
CHECK_DEADLOCK FALSE
