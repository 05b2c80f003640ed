SPECIFICATION FairSpec
CONSTANTS
  ByteMod = 4
  WordMod = 20
  HeaderSize = 4
  Tables <- MCTables
  Rsdts <- MCRsdts
  NULL = NULL
INVARIANTS
  TypeOK
  AcceptedFadtIsValid
  WellFormedOutcome
PROPERTIES
  AcpiEnds
