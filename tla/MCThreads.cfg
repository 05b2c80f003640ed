SPECIFICATION FairSpec
CONSTANTS
  MAX_THREADS = 3
  Addr <- MCAddr
  Endless <- MCEndless
  Keys <- MCKeys
INVARIANTS
  TypeOK
  OneThreadAtATime
  StartedInOrder
  DroppedNeverStarts
  CreatedKeepTheirSlots
  KeystrokeWhole
PROPERTIES
  HeadStarts
  KeysGetThrough
