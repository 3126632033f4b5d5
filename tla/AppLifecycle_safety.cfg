SPECIFICATION Spec
CONSTANTS
  a = a
  b = b
  c = c
  Defs = {a, b, c}
  ContainerDefs = {c}
  MaxRestarts <- MCMaxRestarts
  CmdOf <- MCCmdOf
  Procs = {p1, p2}
  RestartStates = {r1}
  Goroutines = {w1, w2}
  Uptimes = {TRUE, FALSE}
  Faults = {"spawn", "kill", "engine"}
  GrandchildrenLinger = TRUE
  CountCap = 2
  MaxImports = 1
  MaxInputs = 3
  None = None
  Removed = Removed
SYMMETRY Symmetry
INVARIANTS TypeOK OneOwner TableIsWatched RunsOnlyConsented
PROPERTIES ImplementsConsent
CHECK_DEADLOCK FALSE
