\* Two rails, three submits of the payout, crashes, lost answers, rewirings.
SPECIFICATION FairSpec
CONSTANTS
  r1 = r1
  r2 = r2
  NoRequest = NoRequest
  Rail = {r1, r2}
  Chain <- TwoRails
  MaxWalks = 3
  MaxFaults = 3
INVARIANTS
  OnePayingRail
  SettledOnOwningRail
PROPERTIES
  NoPivotOnUnknown
  KeepsPromise
  PaidIsReconciled
\* A payout in a final status, with no fault left, has nothing to do.
CHECK_DEADLOCK FALSE
