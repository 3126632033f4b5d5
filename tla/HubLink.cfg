SPECIFICATION FairSpec
CONSTANTS
  Conns = {k1, k2}
  Timers = {t1, t2}
  MaxFaults = 3
  None = None
INVARIANTS TypeOK LiveIsRegistered StatusFollowsRegistry
 
CHECK_DEADLOCK FALSE
