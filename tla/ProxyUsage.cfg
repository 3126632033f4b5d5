SPECIFICATION Spec
CONSTANTS
  r1 = r1
  r2 = r2
  Requests = {r1, r2}
  Script <- MCScript
  Model <- MCModel
  Prices <- MCPrices
  BufferCap = 1
  Threshold = 2
  MaxDays = 2
  MaxOther = 3
  MaxFaults = 1
INVARIANTS TypeOK ParsedAsWhole MeteredOnce CrossingIsAlerted
CHECK_DEADLOCK FALSE
