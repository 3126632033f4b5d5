SPECIFICATION Spec
CONSTANTS
  c1 = c1
  c2 = c2
  c3 = c3
  t1 = t1
  t2 = t2
  Clis = {c1, c2, c3}
  Tokens = {t1, t2}
  None = None
  MaxSaves = 3
  MaxFaults = 3
SYMMETRY Symmetry
INVARIANTS TypeOK BindingIsKnown StateIsWhole
CHECK_DEADLOCK FALSE
