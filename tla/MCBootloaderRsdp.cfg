SPECIFICATION Spec
CONSTANTS
  Pages = {0, 1, 2, 3, 4, 5, 6}
  Phdrs <- MCPhdrs
  InUse <- MCInUse
  Fonts <- MCFonts
  ConfigTables <- MCConfigFirst
  JunkSizes <- MCZero
  JunkKeys <- MCNoKey
  NULL = NULL
INVARIANTS
  RsdpFound
