SPECIFICATION Spec
CONSTANTS
  Nodes <- MCNodes
  Programs <- FloatModPrograms
  Name <- MCName
  MinInt <- Min8
  MaxInt = 127
  MaxFloat = 8
  NaN = NaN
  PosInf = PosInf
  NegInf = NegInf
  IntBits = 8
  OverflowChecks = FALSE
PROPERTY
  OperandsAreGuaranteed
