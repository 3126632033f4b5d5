SPECIFICATION FairSpec
CONSTANTS
  Cmds = {x, y}
  Conns = {1, 2}
  MaxFaults = 1
  None = None
INVARIANTS TypeOK StatusIsEarned
PROPERTIES EveryCommandSettles
CHECK_DEADLOCK FALSE
