------------------------------ MODULE MCServices ------------------------------
(* One small instance of the services that must come to an end: uploads, the   *)
(* refresh of a session and batch jobs.  They share no state in the program,   *)
(* so a behaviour exercises one of them (service) and leaves the others alone. *)
EXTENDS StorageUpload, RefreshSessions, BatchRunner

VARIABLE service

Service == {"storage", "sessions", "batch"}
servicesVars == <<service, storageVars, sessionVars, batchVars>>

ServicesInit == service \in Service /\ StorageInit /\ SessionInit /\ BatchInit

ServicesNext ==
  \/ service = "storage" /\ UNCHANGED <<service, sessionVars, batchVars>> /\ StorageNext
  \/ service = "sessions" /\ UNCHANGED <<service, storageVars, batchVars>> /\ SessionNext
  \/ service = "batch" /\ UNCHANGED <<service, storageVars, sessionVars>> /\ BatchNext

ServicesSafety == ServicesInit /\ [][ServicesNext]_servicesVars

(* The fairness of the services, for the one that a behaviour exercises.       *)
ServicesFairness ==
  /\ WF_storageVars(service = "storage" /\ UploadsAge)
  /\ WF_storageVars(service = "storage" /\ DailyStep)
  /\ WF_storageVars(service = "storage" /\ AuditStep)
  /\ \A u \in Upload : /\ SF_storageVars(service = "storage" /\ DailyLoad(u))
                        /\ SF_storageVars(service = "storage" /\ AuditLoad(u))
  /\ \A t \in Tab : /\ WF_sessionVars(service = "sessions" /\ ServerStep(t))
                     /\ WF_sessionVars(service = "sessions" /\ TabStep(t))
  /\ \A p \in Runner : /\ WF_batchVars(service = "batch" /\ Trigger(p))
                        /\ WF_batchVars(service = "batch" /\ RunnerStep(p))
  /\ \A m \in Payer : WF_batchVars(service = "batch" /\ (CloseAttempt(m) \/ LoseAttempt(m)))
  /\ SF_batchVars(service = "batch" /\ BatchTick)

ServicesSpec == ServicesSafety /\ ServicesFairness

(* The state of every one of these services keeps its type.                    *)
ServicesTypeOK == StorageTypeOK /\ SessionTypeOK /\ BatchTypeOK
===============================================================================
