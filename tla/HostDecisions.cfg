SPECIFICATION Spec
CONSTANTS
  Apps = {a1}
  Hashes = {h1, h2}
  Requests = {q1, q2}
  MaxEdits = 2
  MaxOps = 2
  MaxFaults = 1
  None = None
SYMMETRY Symmetry
INVARIANTS TypeOK HubShowsConsent DecisionsAccounted HubShowsDecision
CHECK_DEADLOCK FALSE
