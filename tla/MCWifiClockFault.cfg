CONSTANTS
    Networks <- MCNetworks
    None = None
    MinTimeout = 1
    MaxTimeout = 1
    MaxRoamAge = 1
    RoamGains = {1}
    MaxAttempts = 3
    MaxTime = 2
    MaxScan = 2
    MaxCommands = 1
    MaxEvents = 2
SPECIFICATION AssociationSpec
INVARIANT ControllerStaysValid
CHECK_DEADLOCK FALSE
