SPECIFICATION FairSpec
CONSTANTS
  Sleeps <- MCSleeps
  MaxIdle = 1
  Faults = {}
  Speaker0 <- MCQuiet
  Port0 <- MCPort0
  KernelSS = 1
PROPERTIES
  KeyPressNoticed
