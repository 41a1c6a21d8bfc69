CONSTANTS
  NumSlots = 1
  Threads = {t1, t2}
  Objects = {o1, o2}
  NoObject = NoObject
  MaxPid = 1
SPECIFICATION MediaSpec
PROPERTY EndsUnderItsLock
CHECK_DEADLOCK FALSE
