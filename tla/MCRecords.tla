------------------------------ MODULE MCRecords -------------------------------
(* One small instance of the services whose rows several requests write:       *)
(* uploads, refunds, spec sync, members, locks, AI tasks, content edits and    *)
(* test rounds.  They share no state here, so a behaviour exercises one of     *)
(* them (part) and leaves the others alone.                                    *)
EXTENDS StorageUpload, RefundLedger, SpecSync, ProjectMembers, ProjectLocks, AiTasks,
        ContentEdit, TestRounds, TLC

VARIABLE part

(* The same two requests, workers or testers serve each part, and nothing      *)
(* tells one from the other; only safety is checked here.                      *)
ProcessSymmetry == Permutations(Client)

Part == {"storage", "refunds", "sync", "members", "locks", "ai", "content", "rounds"}
recordVars == <<part, storageVars, refundVars, syncVars, memberVars, lockVars, aiVars,
                editVars, roundVars>>

Others(p) ==
  /\ UNCHANGED part
  /\ p # "storage" => UNCHANGED storageVars
  /\ p # "refunds" => UNCHANGED refundVars
  /\ p # "sync" => UNCHANGED syncVars
  /\ p # "members" => UNCHANGED memberVars
  /\ p # "locks" => UNCHANGED lockVars
  /\ p # "ai" => UNCHANGED aiVars
  /\ p # "content" => UNCHANGED editVars
  /\ p # "rounds" => UNCHANGED roundVars

(* The texts are interchangeable and a requirement may be created in either    *)
(* scope, so one of each is the first.                                         *)
RecordsInit ==
  /\ part \in Part /\ StorageInit /\ RefundInit /\ SyncInit /\ MembersInit
  /\ LocksInit /\ AiInit /\ EditInit /\ RoundsInit
  /\ \A t \in Target : design[t].text = CHOOSE x \in Text : TRUE
  /\ req.scope = CHOOSE x \in Scope : TRUE

RecordsNext ==
  \/ part = "storage" /\ Others("storage") /\ StorageNext
  \/ part = "refunds" /\ Others("refunds") /\ RefundNext
  \/ part = "sync" /\ Others("sync") /\ SyncNext
  \/ part = "members" /\ Others("members") /\ MembersNext
  \/ part = "locks" /\ Others("locks") /\ LocksNext
  \/ part = "ai" /\ Others("ai") /\ AiNext
  \/ part = "content" /\ Others("content") /\ EditNext
  \/ part = "rounds" /\ Others("rounds") /\ RoundsNext

RecordsSpec == RecordsInit /\ [][RecordsNext]_recordVars

(* The state of every one of these services keeps its type.                    *)
RecordsTypeOK ==
  /\ StorageTypeOK /\ RefundTypeOK /\ SyncTypeOK /\ MembersTypeOK /\ LocksTypeOK /\ AiTypeOK
  /\ EditTypeOK /\ RoundsTypeOK
===============================================================================
