SPECIFICATION Spec
CONSTANTS
  Sleeps <- MCSleeps
  MaxIdle = 2
  Faults = {}
  Speaker0 <- MCQuiet
  Port0 <- MCPort0
  KernelSS = 16
INVARIANTS
  SpeakerSilenced
