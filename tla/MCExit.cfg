SPECIFICATION Spec
CONSTANTS
  Nodes <- MCNodes
  Programs <- MinPrograms
  Name <- MCName
  MinInt <- Min8
  MaxInt = 127
  MaxFloat = 8
  NaN = NaN
  PosInf = PosInf
  NegInf = NegInf
  IntBits = 8
  OverflowChecks = FALSE
INVARIANT
  ExitIsDocumented
