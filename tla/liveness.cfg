\* One payout, two ticks, one crash or outage, one midnight, weak fairness.
CONSTANTS
  p1 = p1
  p2 = p2
  w1 = w1
  w2 = w2
  owner = owner
  revenue = revenue
  NoPayout = NoPayout
  NoOwner = NoOwner
  Payout <- OnePayout
  Worker <- TwoWorkers
  Net <- NetOne
  Owner <- OwnerOne
  Opening <- Revenue3
  Malformed <- NobodyIn
  Unroutable <- NobodyIn
  Holdable <- NobodyIn
  Modes <- LiveOnly
  Limit = 2
  MaxPerTx = 5
  MaxDaily = 5
  PollsBeforeQuarantine = 2
  MaxFailedSubmits = 1
  MaxFaults = 1
  MaxClock = 1
\* With every payout in a final status there is nothing left to do.
CHECK_DEADLOCK FALSE
SPECIFICATION FairSpec
PROPERTIES
  SubmittingResolves
  UnknownResolves
  CompletedIsBooked
  ReservedIsDispatched
