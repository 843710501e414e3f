SPECIFICATION Spec
CONSTANTS
  m1 = m1  m2 = m2  b1 = b1  b2 = b2  q1 = q1  q2 = q2  r1 = r1  r2 = r2
  low = low  high = high
  Members = {m1}
  Batches = {b1}
  Requests = {q1, q2}
  References = {r1, r2}
  Terms = {low, high}
  NoTerms = NoTerms
  NoBatch = NoBatch
  NumRedemptions = 1
  NumCycles = 1
  PriorRedemptions = 1
  PriorCycles = 1
  MinimumPoints <- MCMinimumPoints
  ConversionRate <- MCConversionRate
  CarryoverCredit <- MCCarryoverCredit
  RequestSizes = {1, 2}
  Grants = {1}
  MaxEarned = 2
SYMMETRY Symmetric
INVARIANTS TypeOK PaidAtMostOnce PaidIsRecorded AmountIsServerDerived OnlyApprovedBatchesPay LegacyNeverPaid
PROPERTY KillSwitchHolds
