SPECIFICATION Spec
CONSTANTS
  Keys = {k1}
  Widths <- MCWidths
  Retain <- MCRetain
  BufferCap = 2
  MaxTime = 6
  MaxFaults = 1
INVARIANTS TypeOK SampleInOnePlace OneRowPerBucket BucketIsWhole
PROPERTIES NothingForgotten
CHECK_DEADLOCK FALSE
