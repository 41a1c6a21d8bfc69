\* Wi-Fi association: a short instance for liveness.
CONSTANTS
  Networks <- MCNetworksSae
  None = None
  MinTimeout = 1
  MaxTimeout = 1
  MaxRoamAge = 1
  RoamGains = {1}
  MaxAttempts = 2
  MaxTime = 2
  MaxScan = 1
  MaxCommands = 1
  MaxEvents = 1
\* CTAP-HID framing.
  InitDataSize = 2
  ContDataSize = 3
  LastSequence = 2
  DefaultMaxMessage = 2
  TimeoutMax = 1
  Zero = 0
  Channel = 7
  WireMax = 3
  Units <- UnitsToLimit
  Payloads <- AllSizes
\* Media sessions.
  NumSlots = 2
  Threads = {t1, t2}
  Objects = {o1, o2}
  NoObject = NoObject
  MaxPid = 2
\* Close hooks.
  HookSlots = 2
  MaxHookGen = 3
  MaxInFlight = 2
  Closers = {c1, c2, c3}
  Hooks = {h1, h2}
  NoHook = NoHook
\* Input ring.
  RingCapacity = 2
  MaxInputs = 4
  MaxFocus = 2
  PopMax = 2
\* Virtqueue.
  QueueSize = 2
  IndexWrap = 4
  MaxBatch = 2
  MaxBadWrites = 2
\* Force feedback, PID actuator, PID effects.
  FFThreads = {t1, t2}
  MaxPort = 2
  PidThreads = {t1, t2}
  MaxEffect = 2
  MaxPidPort = 2
  PoolThreads = {t1, t2}
  PoolSlots = 2
  MaxSequence = 2
\* Mapping database.
  DbThreads = {t1, t2}
  Devices = {k1, k2, k3}
  Profiles = {p1, p2}
  MaxRecords = 2
  MaxDbGen = 4
\* Exceptions.
  Things = {o1, o2}
  Exceptions = {e1, e2}
  NoException = NoException
  MaxStack = 7
  QuietHandlers = TRUE
SPECIFICATION PartsSpec
INVARIANTS RoundTrip LocksAreHeld UnloadIsSafe CriticalsDelivered QueueIntact CompletionsReported PlayingIsKnown OneEffectAtATime PlayingCanBeStopped MemoryIsStorage EachDiesOnce
PROPERTIES DrainsEnd TimedStatesEnd
CHECK_DEADLOCK FALSE
