SPECIFICATION Spec
CONSTANTS
  Missing = Missing
  Malformed = Malformed
  Undefined = Undefined
  AnyValue = AnyValue
  OutOfBounds = OutOfBounds
  MinPayload = 3
  Mtu = 40
  OptionWords = 2
  Inputs <- MCInputs
  FirstHeaders <- MCFirstHeaders
  Sent <- MCSent
INVARIANTS
  ParsingIsLossless
  SupportedHeadersAreParsed
  PacketsComeBack
PROPERTIES
  ParsingEnds
CHECK_DEADLOCK FALSE
