SPECIFICATION FairSpec
CONSTANTS
  Sleeps <- MCSleeps
  MaxIdle = 2
  Faults <- MCFaults
  Speaker0 <- MCSpeaker
  Port0 <- MCPort0
  KernelSS = 1
INVARIANTS
  TypeOK
  InterruptsFindTheirHandler
  InServiceMatchesHandlers
  HandlersDoNotNest
  UserSpaceUndisturbed
  OnlyShutupExposed
PROPERTIES
  SleepsLongEnough
  SpeakerOnlyWhilePlaying
  BootReachesUserSpace
  PanicStopsTheMachine
