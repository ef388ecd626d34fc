\* Two payouts of one owner, one tick at a time, revenue for one of them.
CONSTANTS
  p1 = p1
  p2 = p2
  w1 = w1
  w2 = w2
  owner = owner
  revenue = revenue
  NoPayout = NoPayout
  NoOwner = NoOwner
  Payout <- TwoPayouts
  Worker <- OneWorker
  Net <- NetTwo
  Owner <- OwnerTwo
  Opening <- Revenue3
  Malformed <- NobodyIn
  Unroutable <- NobodyIn
  Holdable <- NobodyIn
  Modes <- LiveOnly
  Limit = 2
  MaxPerTx = 5
  MaxDaily = 5
  PollsBeforeQuarantine = 2
  MaxFailedSubmits = 2
  MaxFaults = 0
  MaxClock = 0
\* With every payout in a final status there is nothing left to do.
CHECK_DEADLOCK FALSE
SPECIFICATION Spec
INVARIANT ReservationsCovered
