SPECIFICATION FairSpec
CONSTANTS
  Call = {"one", "two", "run", "check"}
  Cmd <- MCCmd
  File <- MCFile
  Output <- MCOutput
  Path = {"o"}
  Text <- MCText
  FailsAt <- MCFailsAt
  Absent = Absent
  Scrap = Scrap
  Pid = {1, 2}
  Stem = {"s"}
  StemOf <- MCStemOf
  MaxCalls = 2
INVARIANTS
  LinksItsOwn
  BuiltIsThere
PROPERTIES
  Implements
  OnlyAcceptedBuildsWrite
  EveryCallAnswers
