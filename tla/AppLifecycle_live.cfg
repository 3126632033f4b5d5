SPECIFICATION InstalledFairSpec
CONSTANTS
  a = a
  b = b
  c = c
  Defs = {a}
  ContainerDefs = {}
  MaxRestarts <- MCMaxRestarts
  CmdOf <- MCCmdOf
  Procs = {p1, p2}
  RestartStates = {r1}
  Goroutines = {w1, w2}
  Uptimes = {FALSE}
  Faults = {}
  GrandchildrenLinger = FALSE
  CountCap = 2
  MaxImports = 1
  MaxInputs = 2
  None = None
  Removed = Removed
PROPERTIES CrashLoopEnds StopConverges
CHECK_DEADLOCK FALSE
