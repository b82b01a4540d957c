SPECIFICATION Spec
CONSTANTS
  MaxUpdates = 3
  MaxFaults = 2
  MaxCrashes = 2
  SizeOf <- MCSizeOf
  Torn <- MCTorn
INVARIANTS
  IInv
  PromisesKept
  ServesThePath
  NoTempLeft
PROPERTIES
  ImplementsLog
CHECK_DEADLOCK FALSE
