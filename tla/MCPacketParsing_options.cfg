SPECIFICATION Spec
CONSTANTS
  Missing = Missing
  Malformed = Malformed
  Undefined = Undefined
  AnyValue = AnyValue
  OutOfBounds = OutOfBounds
  MinPayload = 3
  Mtu = 40
  OptionWords = 11
  Inputs <- MCInputs
  FirstHeaders <- MCFirstHeaders
  Sent <- MCSent
INVARIANTS
  PacketsComeBack
CHECK_DEADLOCK FALSE
