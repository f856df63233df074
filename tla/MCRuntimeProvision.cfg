SPECIFICATION Spec

CONSTANTS
  None = None
  PrefixLength = 2
  MaxLua = 5
  CallLength = 1
  Integers32 = {"7", "0"}
  Numbers = {"7", "0"}
  Booleans = {"true"}
  EightItems = {"a|b"}
  MaxSteps = 3
  Here <- MCHere
  Locations <- MCLocations
  UserTexts <- MCUserTexts
  Trees <- MCTrees
  TargetArgs <- MCTargetArgs
  Inputs <- MCInputs
  AsciiOf <- MCAsciiOf
  Holdings <- MCHoldings

CHECK_DEADLOCK FALSE

CONSTRAINT Changed

INVARIANTS
  TypeOK
  FailureHasReason
  InstalledIsWanted
  RemoveGivesBack
  ScreenShowsRequest
