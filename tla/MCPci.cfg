SPECIFICATION Spec
CONSTANTS
  HighestBus = 2
  HighestSlot = 32
  HighestFunc = 8
  ScreenLines = 2
  Present <- MCPresent
INVARIANTS
  TypeOK
  FoundSoFar
