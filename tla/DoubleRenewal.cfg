SPECIFICATION Spec
CONSTANTS
  r1 = r1
  r2 = r2
  Slot = {r1, r2}
  Kinds = {"DAILY", "RETRY"}
  Batch = {}
  Origins = {"PAST_DUE"}
  Seats = {1}
  Horizon = 4
  OpTimeout = 1
  Stale = 2
  Life = 1
  Period = 2
  RetryGap = 2
  MaxRetry = 1
  NoticeLead = 1
  Defer = 1
SYMMETRY SlotSymmetry
INVARIANT NoDoubleCharge
