\* One payout, two overlapping ticks: crashes, lost answers, retries and holds.
CONSTANTS
  p1 = p1
  p2 = p2
  w1 = w1
  w2 = w2
  owner = owner
  revenue = revenue
  NoPayout = NoPayout
  NoOwner = NoOwner
  Payout <- OnePayout
  Worker <- TwoWorkers
  Net <- NetOne
  Owner <- OwnerOne
  Opening <- Revenue3
  Malformed <- NobodyIn
  Unroutable <- NobodyIn
  Holdable <- OnePayout
  Modes <- AllModes
  Limit = 2
  MaxPerTx = 5
  MaxDaily = 5
  PollsBeforeQuarantine = 2
  MaxFailedSubmits = 2
  MaxFaults = 2
  MaxClock = 0
\* With every payout in a final status there is nothing left to do.
CHECK_DEADLOCK FALSE
SPECIFICATION Spec
SYMMETRY Workers
INVARIANTS
  TypeOK
  OnePayingInstruction
  RetrySafeIsUnpaid
  SettledOnEvidence
  LedgerFollowsStatus
  ThrottleHolds
PROPERTIES
  LegalSteps
  KeepsPromise
