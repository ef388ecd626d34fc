\* Two items of one batch, one sent to somebody else; every first status.
SPECIFICATION Spec
CONSTANTS
  i1 = i1
  i2 = i2
  b1 = b1
  d1 = d1
  Item = {i1, i2}
  Batch = {b1}
  BatchOf <- OneBatch
  Misdirected = {i1}
  AllowApproval = TRUE
  FirstRow <- SomeRows
  FirstBatch <- SomeBatches
  Desk = {d1}
  Run = Run
  Idle = Idle
  NoCall = NoCall
  MaxCalls = 3
INVARIANTS NeverSynthetic
CHECK_DEADLOCK FALSE
