CONSTANTS
    DeviceMax = 2
    Threads = {t1, t2}
    Ports = {1, 2}
    MaxGeneration = 2
    MaxId = 3
    SerialDetach = FALSE
SPECIFICATION Spec
INVARIANT RegisteredUntilDetached
