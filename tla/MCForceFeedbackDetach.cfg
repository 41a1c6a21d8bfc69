CONSTANTS
  FFThreads = {t1, t2}
  MaxPort = 2
SPECIFICATION FFSpec
INVARIANT DetachedIsSilent
CHECK_DEADLOCK FALSE
