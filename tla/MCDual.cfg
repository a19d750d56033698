SPECIFICATION Spec
CONSTANTS
  Nodes <- MCNodes
  Programs <- MCPrograms
  Name <- MCName
  MinInt <- Min8
  MaxInt = 127
  MaxFloat = 8
  NaN = NaN
  PosInf = PosInf
  NegInf = NegInf
  IntBits = 8
  OverflowChecks = FALSE
INVARIANTS
  SlotsMeanTheirSymbols
  OnlyVoidFallsOff
  OneTerminatorPerBlock
  PhisNameTheirPredecessors
  AllocasInEntry
  NativeIsWellDefined
  SameBehaviour
PROPERTIES
  CodegenPanicsOnlyWhereKnown
