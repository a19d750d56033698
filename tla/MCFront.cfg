SPECIFICATION Spec
CONSTANTS
  Nodes <- MCNodes
  Programs <- MCPrograms
  Name <- MCName
  MinInt <- Min8
  MaxInt = 127
  MaxFloat = 24
  NaN = NaN
  PosInf = PosInf
  NegInf = NegInf
  Texts <- MCTexts
  Letter <- MCLetter
  Space <- MCSpace
  Utf8 <- MCUtf8
  Trees <- MCTrees
  MaxLexeme = 16
  MaxTokens = 14
  IntBits = 8
  OverflowChecks = FALSE
INVARIANTS
  ReadsItsTokens
  LexesTheLanguage
  RoundTrip
  SaysWhatItSays
  AcceptsTheGrammar
