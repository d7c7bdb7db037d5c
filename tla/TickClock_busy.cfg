SPECIFICATION Spec
CONSTANTS
  target = 2
  timeout = 5
  MaxTick = 2
  MaxServe = 3
  KEEP_ALIVE = 3
  MaxInt = 15
INVARIANTS TypeOK KeepAliveOnTime
