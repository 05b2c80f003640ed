SPECIFICATION FairSpec
CONSTANTS
  R = 2
  Limit = 7
  MemMaps <- MCMemMaps
  Junk <- MCJunk
  JunkSegments <- MCJunkSegments
  InitialPlacement = 14
  PML4 = PML4
  NP = NP
INVARIANTS
  TypeOK
  IdentityMapping
  EverythingMapped
  LargestSegmentChosen
  TablesInUsableMemory
  EnoughPagesSuffice
PROPERTIES
  ImplementsAddressSpace
  BootCompletes
