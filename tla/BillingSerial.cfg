SPECIFICATION Spec
CONSTANTS
  r1 = r1
  Slot = {r1}
  Kinds = {"START", "CARD", "SEAT", "CANCEL", "UNCANCEL", "DAILY", "SWEEP", "RETRY", "DEFER", "TERMINATE", "WITHDRAW", "MANUAL"}
  Batch = {}
  Origins = {"NONE", "ACTIVE", "PAST_DUE", "CANCEL_SCHEDULED", "CANCELED"}
  Seats = {1, 2}
  Horizon = 5
  OpTimeout = 1
  Stale = 2
  Life = 1
  Period = 3
  RetryGap = 2
  MaxRetry = 1
  NoticeLead = 1
  Defer = 1
INVARIANTS NoDoubleCharge SeatsMatchLastPayment PrenoticeHonest
