SPECIFICATION Spec
CONSTANTS
  Missing = Missing
  Malformed = Malformed
  Undefined = Undefined
  AnyValue = AnyValue
  OutOfBounds = OutOfBounds
  MinPayload = 9
  Mtu = 40
  InitialPackets <- MCEtherTypeMissing
  EditValues <- MCEditValues
  MaxEdits = 0
INVARIANTS
  ValidationAnswers
