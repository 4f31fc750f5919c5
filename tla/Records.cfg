SPECIFICATION RecordsSpec
CONSTANTS
  Upload = {u1}
  Client = {p1, p2}
  TokenLife = 1
  Retention = 2
  Grace = 2
  MaxStorageFaults = 1
  Admin = {p1, p2}
  Price = 2
  MaxRefund = 3
  MaxCancel = 2
  MaxRefundFaults = 1
  SyncRun = {r1, r2}
  Slot = {1, 2}
  Target = {g1}
  Text = {x, y}
  NoText = NoText
  SyncKey = {i1}
  Agent = {p1, p2}
  Reviewer = {p1, p2}
  MaxFinding = 2
  Person = {o, p}
  Founder = o
  Joined = {p}
  OtherRole = {"ADMIN"}
  Asker = {p1, p2}
  Prj = {q1, q2}
  Shared = {q1}
  Opener = {p1, p2}
  MaxTask = 2
  AiWorker = {p1, p2}
  AiUser = {b1}
  Saver = {p1, p2}
  Creator = c
  Manager = {m}
  Scope = {"NEW", "OLD"}
  MaxHistory = 2
  MaxVersion = 2
  TestCase = {k1}
  Wording = {x1}
  MaxRound = 2
  Tester = {p1, p2}
SYMMETRY ProcessSymmetry
INVARIANTS
  RecordsTypeOK
  AttachedKept
  CountedIsReal StatusFollowsRefunds
  ReviewStatusTrue OneRunPerKey
  OneOwnerUnlessOvertaken
  OneOpenUnlessPlain
  OneWorkerPerTask ResultShownOnce ShownOnlyWhenDone
  VersionsDistinct
  OpenRoundsCover ClosedIsJudged
PROPERTIES
  AppliedOverAnalysed ClosedStaysClosed
  RestoreIsExact
  ClosedForAnother
  CreatorUndoesNoOther
  ClosedIsRecord
CHECK_DEADLOCK FALSE
