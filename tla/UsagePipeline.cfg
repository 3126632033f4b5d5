SPECIFICATION FairSpec
CONSTANTS
  ClaudeFiles = {claude}
  CodexFiles = {codex}
  Messages = {m1}
  MaxOutput = 2
  MaxLines = 2
  FlushAt = 2
  BacklogCap = 2
  QueueCap = 1
  SeenCap = 0
  MaxFaults = 2
  None = None
INVARIANTS TypeOK NothingUnaccounted CodexCountsOnce
PROPERTIES CatchesUp
