SPECIFICATION Spec
CONSTANTS
  Screens <- MCScreens
  Functions <- MCFunctions
  MaxDevices = 22
  Stacks <- MCStacks
  Rsp = 6291450
  UserCalls <- MCUserCalls
  Faults = {0, 13}
  MaxFaults = 2
INVARIANTS
  TypeOK
  ReportWhole
  NumbersRight
PROPERTY
  NeverOverdraws
