------------------------- MODULE CompositionProofs --------------------------
(* The services of MCRecords and of MCServices side by side, for every value   *)
(* of the constants: whichever of them a behaviour exercises, each keeps to    *)
(* its own specification.  So what the other proof modules show of a service   *)
(* alone holds of the specifications that the runs Records and Services check. *)
EXTENDS MCRecords, MCServices, ServiceProofs, RefundProofs, DocumentProofs, ProjectProofs

(* --------------------- Each service does what it does alone -------------- *)
LEMMA RecordsApart ==
  ASSUME [RecordsNext]_recordVars
  PROVE  /\ [StorageNext]_storageVars /\ [RefundNext]_refundVars /\ [SyncNext]_syncVars
         /\ [MembersNext]_memberVars /\ [LocksNext]_lockVars /\ [AiNext]_aiVars
         /\ [EditNext]_editVars /\ [RoundsNext]_roundVars
BY DEF RecordsNext, Others, recordVars

LEMMA ServicesApart ==
  ASSUME [ServicesNext]_servicesVars
  PROVE  [StorageNext]_storageVars /\ [SessionNext]_sessionVars /\ [BatchNext]_batchVars
BY DEF ServicesNext, servicesVars

(* Every service of MCRecords keeps to its own specification: the program      *)
(* serves uploads, refunds, submissions, members, locks, tasks, saves and      *)
(* rounds from tables of their own.                                            *)
THEOREM RecordsCompose ==
  RecordsSpec => /\ StorageSafety /\ RefundSpec /\ SyncSpec /\ MembersSpec
                 /\ LocksSpec /\ AiSpec /\ EditSpec /\ RoundsSpec
<1>1. RecordsInit => /\ StorageInit /\ RefundInit /\ SyncInit /\ MembersInit
                     /\ LocksInit /\ AiInit /\ EditInit /\ RoundsInit
  BY DEF RecordsInit
<1> QED
  BY <1>1, RecordsApart, PTL
     DEF RecordsSpec, StorageSafety, RefundSpec, SyncSpec, MembersSpec, LocksSpec, AiSpec,
         EditSpec, RoundsSpec

(* The same of the services of MCServices, their fairness left aside.          *)
THEOREM ServicesCompose == ServicesSpec => StorageSafety /\ SessionSafety /\ BatchSafety
<1>1. ServicesInit => StorageInit /\ SessionInit /\ BatchInit
  BY DEF ServicesInit
<1> QED
  BY <1>1, ServicesApart, PTL
     DEF ServicesSpec, ServicesSafety, StorageSafety, SessionSafety, BatchSafety

(* -------------------------------- The types ------------------------------ *)
LEMMA StorageTyped == StorageSafety => []StorageTypeOK
<1>1. StorageInv => StorageTypeOK
  BY DEF StorageInv
<1> QED
  BY <1>1, StorageInitInv, StorageStep, PTL DEF StorageSafety

LEMMA JobsTyped == BatchSafety => []BatchTypeOK
<1>1. BatchInv => BatchTypeOK
  BY DEF BatchInv
<1> QED
  BY <1>1, BatchInitInv, BatchStep, PTL DEF BatchSafety

LEMMA SyncTyped == SyncSpec => []SyncTypeOK
<1>1. SyncInv => SyncTypeOK
  BY DEF SyncInv
<1> QED
  BY <1>1, SyncInitInv, SyncStep, PTL DEF SyncSpec

LEMMA MembersTyped == MembersSpec => []MembersTypeOK
<1>1. MembersInv => MembersTypeOK
  BY DEF MembersInv
<1> QED
  BY <1>1, MembersInitInv, MembersStep, PTL DEF MembersSpec

LEMMA LocksTyped == LocksSpec => []LocksTypeOK
<1>1. LocksInv => LocksTypeOK
  BY DEF LocksInv
<1> QED
  BY <1>1, LocksInitInv, LocksStep, PTL DEF LocksSpec

LEMMA AiTyped == AiSpec => []AiTypeOK
<1>1. AiInv => AiTypeOK
  BY DEF AiInv
<1> QED
  BY <1>1, AiInitInv, AiStep, PTL DEF AiSpec

LEMMA SavesTyped == EditSpec => []EditTypeOK
<1>1. EditInv => EditTypeOK
  BY DEF EditInv
<1> QED
  BY <1>1, EditInitInv, EditStep, PTL DEF EditSpec

LEMMA RoundsTyped == RoundsSpec => []RoundsTypeOK
<1>1. RoundsInv => RoundsTypeOK
  BY DEF RoundsInv
<1> QED
  BY <1>1, RoundsInitInv, RoundsStep, PTL DEF RoundsSpec

(* The state of every service of MCRecords keeps its type, whatever the        *)
(* bounds: no row takes a status its column has not, no request points at a    *)
(* row that is not there.                                                      *)
THEOREM RecordsTyped == RecordsSpec => []RecordsTypeOK
BY RecordsCompose, StorageTyped, RefundsTyped, SyncTyped, MembersTyped, LocksTyped, AiTyped,
   SavesTyped, RoundsTyped, PTL DEF RecordsTypeOK

(* The same of uploads, sessions and batch jobs.                               *)
THEOREM ServicesTyped == ServicesSpec => []ServicesTypeOK
BY ServicesCompose, StorageTyped, SessionsTyped, JobsTyped, PTL DEF ServicesTypeOK

(* ------------------------------- The runs -------------------------------- *)
(* Every safety property that the run Records checks holds for every value of  *)
(* the constants: what a save, a refund, a review, a transfer of ownership,    *)
(* an unlock, a task or a round promises is not the work of its bounds.        *)
THEOREM RecordsSafe ==
  RecordsSpec => /\ [](/\ AttachedKept
                       /\ CountedIsReal /\ StatusFollowsRefunds
                       /\ ReviewStatusTrue /\ OneRunPerKey
                       /\ OneOwnerUnlessOvertaken
                       /\ OneOpenUnlessPlain
                       /\ OneWorkerPerTask /\ ResultShownOnce /\ ShownOnlyWhenDone
                       /\ VersionsDistinct
                       /\ OpenRoundsCover /\ ClosedIsJudged)
                 /\ AppliedOverAnalysed /\ ClosedStaysClosed
                 /\ RestoreIsExact
                 /\ ClosedForAnother
                 /\ CreatorUndoesNoOther
                 /\ ClosedIsRecord
BY RecordsCompose, KeptAttached, CountedReal, StatusFollows, ReviewsClose, KeysAreRuns, OneOwner,
   OneOpen, OneWorker, WrittenOnce, ShownIsDone, VersionsDiffer, RoundsCover, ClosedJudged,
   ReviewImplemented, ClosedRuns, RestoresThoseTaken, SwapsOpen, CreatorKeepsOthers, ClosedKept, PTL

(* Every safety property that the run Services checks does, too: the tokens    *)
(* of a session and the jobs of the night.                                     *)
THEOREM ServicesSafe ==
  ServicesSpec => /\ [](AttachedKept /\ OneSuccessor /\ NoFalseAlarm /\ AloneUnlessRaced)
                  /\ EndedSessionGetsNoToken
BY ServicesCompose, KeptAttached, OneLiveToken, NoStrikeUnlessLost, JobsExclude,
   TokensForValidSessions, PTL
=============================================================================
