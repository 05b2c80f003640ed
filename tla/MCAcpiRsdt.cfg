SPECIFICATION FairSpec
CONSTANTS
  ByteMod = 4
  WordMod = 20
  HeaderSize = 4
  Tables <- MCTables
  Rsdts <- MCBadRsdts
  NULL = NULL
INVARIANTS
  RsdtChecked
