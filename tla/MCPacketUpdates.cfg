SPECIFICATION Spec
CONSTANTS
  Missing = Missing
  Malformed = Malformed
  Undefined = Undefined
  AnyValue = AnyValue
  OutOfBounds = OutOfBounds
  MinPayload = 9
  Mtu = 40
  InitialPackets <- MCInitialPackets
  EditValues <- MCEditValues
  MaxEdits = 1
INVARIANTS
  NothingIsStale
  OnlyGapsAreFilled
  ChangesAreReported
  CompletablePacketsAreSent
  IpTrailersAreFound
