SPECIFICATION StopSpec
CONSTANTS
  a = a
  b = b
  c = c
  Defs = {a}
  ContainerDefs = {}
  MaxRestarts <- MCMaxRestarts
  CmdOf <- MCCmdOf
  Procs = {p1, p2}
  RestartStates = {r1, r2}
  Goroutines = {w1, w2}
  Uptimes = {TRUE, FALSE}
  Faults = {}
  GrandchildrenLinger = TRUE
  CountCap = 2
  MaxImports = 1
  MaxInputs = 4
  None = None
  Removed = Removed
SYMMETRY Symmetry
INVARIANTS UserStopWins
CHECK_DEADLOCK FALSE
