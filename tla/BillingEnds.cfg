SPECIFICATION Spec
CONSTANTS
  r1 = r1
  r2 = r2
  Slot = {r1, r2}
  Kinds = {"SEAT", "DAILY", "TERMINATE", "WITHDRAW", "MANUAL", "SWEEP"}
  Batch = {"DAILY", "MANUAL"}
  Origins = {"ACTIVE", "PAST_DUE", "CANCEL_SCHEDULED"}
  Seats = {1, 2}
  Horizon = 5
  OpTimeout = 1
  Stale = 2
  Life = 1
  Period = 2
  RetryGap = 2
  MaxRetry = 1
  NoticeLead = 1
  Defer = 1
SYMMETRY SlotSymmetry
INVARIANT PlanMirror
PROPERTIES EndedStaysUnlessReapplied LeftWithoutSub RecoveredWhileLive
