SPECIFICATION MCSpec
CONSTANTS
  Bits = 8
  HalfBits = 4
  NoConversion = NoConversion
  Divisions <- MCDivisions
  CodeOf <- MCCodeOf
  Prints <- MCPrints
  Buffers <- MCBuffers
  Hexes <- MCHexes
  Decimals <- MCDecimals
INVARIANTS FormatsRight FieldFilled ReadsBack Quotient NothingLost NumbersReadable
PROPERTY CallsReturn
CHECK_DEADLOCK FALSE
