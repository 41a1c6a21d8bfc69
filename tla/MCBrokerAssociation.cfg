CONSTANTS
  DeviceMax = 2
  Threads = {t1, t2}
  Ports = {1, 2}
  MaxGeneration = 2
  MaxId = 3
  SerialDetach = TRUE
\* The association: three networks, three attempts, late and repeated events.
  Networks <- MCNetworks
  None = None
  MinTimeout = 1
  MaxTimeout = 1
  MaxRoamAge = 1
  RoamGains = {1}
  MaxAttempts = 3
  MaxTime = 2
  MaxScan = 2
  MaxCommands = 1
  MaxEvents = 2
SPECIFICATION BrokerAssociationSpec
SYMMETRY ThreadSymmetry
INVARIANTS TransferHasOwner CancelIsFinal RegisteredUntilDetached KeysMatchState SavedTargets
PROPERTIES ImplementsRegistry RoamKeepsProtection ResumeNeedsNewScan
