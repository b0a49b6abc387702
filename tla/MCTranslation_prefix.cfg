SPECIFICATION Spec
CONSTANTS
  Refused = Refused
  None = None
  BitsPerNibble = 2
  AddressBits <- MCAddressBits
  Program <- MCProgram
  PdProgram <- MCPdProgram
  PdRequests <- MCPdRequests
  OptionSets <- MCOptionSets
  Requests <- MCRequests
  WireRequests <- MCWireRequests
  Answers <- MCAnswers
  WireAnswers <- MCWireAnswers
INVARIANT LpmValuesEndWithTheirPrefix
CHECK_DEADLOCK FALSE
