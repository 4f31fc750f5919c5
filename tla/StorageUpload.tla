---------------------------- MODULE StorageUpload ----------------------------
(* Attachments of a project: the browser asks for a signed URL (prepare), puts *)
(* the object into the storage bucket itself, and asks the server to record    *)
(* it (complete) or to forget it (abort).  The database row and the object     *)
(* live in two stores that no transaction spans; the pending row written by    *)
(* prepare is what ties them together.  Two nightly jobs collect what was      *)
(* left behind: the targeted cleanup takes expired pending rows, the weekly    *)
(* audit takes objects no row refers to.                                       *)
(*                                                                             *)
(* Time is the age of an upload in ticks, capped where nothing depends on it   *)
(* any more.  A request may stall for any number of ticks between two awaits.  *)
EXTENDS Naturals, FiniteSets

CONSTANTS
  Upload,       \* prepared uploads, one object path each
  Client,       \* user requests that may be open at the same time
  TokenLife,    \* ticks a signed URL and a completion token stay valid (2 hours)
  Retention,    \* ticks until a pending row expires (24 hours)
  Grace,        \* ticks before the audit may take an object (24 hours)
  MaxStorageFaults \* bound on storage errors, failed transactions and crashes

ASSUME LivesAssumption ==
  /\ TokenLife \in Nat \ {0} /\ Retention \in Nat /\ Grace \in Nat
  /\ MaxStorageFaults \in Nat
  /\ TokenLife <= Retention /\ TokenLife <= Grace
ASSUME ClientAssumption == {"daily", "audit"} \cap Client = {}

VARIABLES
  file,         \* per upload: the pending row, the final row, the object
  handler,      \* per process: the handler it runs and where it stands
  storageFaults \* faults so far

storageVars == <<file, handler, storageFaults>>

StorageJob == {"daily", "audit"}
StorageProcess == Client \cup StorageJob
Oldest == IF Grace > Retention THEN Grace ELSE Retention
Ref == {"row", "pending"}

(* One upload.  lostBy is a history variable: the handler that removed the    *)
(* object while the final row stood; late says the row was committed by a     *)
(* request that had stalled until the object was older than the grace.        *)
File == [issued: BOOLEAN, age: 0..Oldest, pending: BOOLEAN, row: BOOLEAN,
         object: {"NONE", "WHOLE", "SHORT"}, kept: 0..Oldest,
         lostBy: {"NONE", "COMPLETE", "ABORT", "DELETE", "DAILY", "AUDIT"},
         late: BOOLEAN]
Handler == [kind: {"NONE", "COMPLETE", "ABORT", "DELETE", "DAILY", "AUDIT"},
            at: {"idle", "start", "size", "insert", "undo", "remove", "forget",
                 "unlink", "claim", "final", "look"},
            up: Upload, todo: SUBSET (Ref \cup {"object"}), again: BOOLEAN]

StorageTypeOK ==
  /\ file \in [Upload -> File]
  /\ handler \in [StorageProcess -> Handler]
  /\ storageFaults \in 0..MaxStorageFaults

(* ---------------------------- Helpers ---------------------------------- *)
Unused == [issued |-> FALSE, age |-> 0, pending |-> FALSE, row |-> FALSE,
           object |-> "NONE", kept |-> 0, lostBy |-> "NONE", late |-> FALSE]
NoHandler(u) == [kind |-> "NONE", at |-> "idle", up |-> u, todo |-> {}, again |-> FALSE]

TokenValid(u) == file[u].issued /\ file[u].age < TokenLife
Expired(u) == file[u].pending /\ file[u].age >= Retention

(* The object is deleted from the bucket; deleting what is absent succeeds.   *)
ObjectRemoved(f, by) ==
  [f EXCEPT !.object = "NONE", !.kept = 0,
            !.lostBy = IF f.row /\ f.object # "NONE" THEN by ELSE @]

HandlerAt(p, kind, step) == handler[p].kind = kind /\ handler[p].at = step
HandlerGoto(p, step) == handler' = [handler EXCEPT ![p].at = step]
HandlerDone(p) == handler' = [handler EXCEPT ![p] = NoHandler(@.up)]
HandlerBegin(p, kind, u, step) ==
  /\ handler[p].at = "idle"
  /\ handler' = [handler EXCEPT ![p] = [NoHandler(u) EXCEPT !.kind = kind, !.at = step]]
  /\ UNCHANGED <<file, storageFaults>>
StorageFault == storageFaults < MaxStorageFaults /\ storageFaults' = storageFaults + 1

StorageInit ==
  /\ file = [u \in Upload |-> Unused]
  /\ handler \in [StorageProcess -> {NoHandler(u) : u \in Upload}]
  /\ \A p, q \in StorageProcess : handler[p] = handler[q]
  /\ storageFaults = 0

(* ---------------- Prepare, and the browser's own upload ----------------- *)
Prepare(u) ==
  /\ ~file[u].issued
  /\ file' = [file EXCEPT ![u].issued = TRUE, ![u].pending = TRUE]
  /\ UNCHANGED <<handler, storageFaults>>

(* The bucket accepts the signed URL while the path is free: also again after *)
(* the object was removed.                                                    *)
PutObject(u, size) ==
  /\ TokenValid(u)
  /\ file[u].object = "NONE"
  /\ file' = [file EXCEPT ![u].object = size, ![u].kept = 0]
  /\ UNCHANGED <<handler, storageFaults>>

(* ---------------------------- Complete ---------------------------------- *)
Complete(c, u) == TokenValid(u) /\ HandlerBegin(c, "COMPLETE", u, "start")

FindPending(c) ==
  /\ HandlerAt(c, "COMPLETE", "start")
  /\ IF file[handler[c].up].pending THEN HandlerGoto(c, "size") ELSE HandlerDone(c)
  /\ UNCHANGED <<file, storageFaults>>

CheckSize(c) ==
  /\ HandlerAt(c, "COMPLETE", "size")
  /\ CASE file[handler[c].up].object = "WHOLE" -> HandlerGoto(c, "insert")
       [] file[handler[c].up].object = "SHORT" -> HandlerGoto(c, "undo")
       [] OTHER -> HandlerDone(c)
  /\ UNCHANGED <<file, storageFaults>>

(* The transaction inserts the final row and consumes the pending row; a      *)
(* pending row that is gone rolls both back.                                  *)
InsertAndConsume(c) ==
  /\ HandlerAt(c, "COMPLETE", "insert")
  /\ IF file[handler[c].up].pending
       THEN /\ file' = [file EXCEPT ![handler[c].up].row = TRUE,
                                    ![handler[c].up].pending = FALSE,
                                    ![handler[c].up].late = file[handler[c].up].kept >= Grace]
            /\ HandlerDone(c)
       ELSE HandlerGoto(c, "undo") /\ UNCHANGED file
  /\ UNCHANGED storageFaults

InsertFails(c) ==
  /\ HandlerAt(c, "COMPLETE", "insert")
  /\ StorageFault /\ HandlerGoto(c, "undo") /\ UNCHANGED file

(* Of a wrong size, or in the catch of the transaction: the error of the      *)
(* removal is swallowed.                                                      *)
Undo(c) ==
  /\ HandlerAt(c, "COMPLETE", "undo")
  /\ \/ file' = [file EXCEPT ![handler[c].up] = ObjectRemoved(@, "COMPLETE")] /\ UNCHANGED storageFaults
     \/ StorageFault /\ UNCHANGED file
  /\ HandlerDone(c)

(* ----------------------------- Abort ------------------------------------ *)
Abort(c, u) == TokenValid(u) /\ HandlerBegin(c, "ABORT", u, "start")

FindReferences(c) ==
  /\ HandlerAt(c, "ABORT", "start")
  /\ HandlerGoto(c, IF file[handler[c].up].row THEN "forget" ELSE "remove")
  /\ UNCHANGED <<file, storageFaults>>

AbortRemove(c) ==
  /\ HandlerAt(c, "ABORT", "remove")
  /\ \/ /\ file' = [file EXCEPT ![handler[c].up] = ObjectRemoved(@, "ABORT")]
        /\ HandlerGoto(c, "forget") /\ UNCHANGED storageFaults
     \/ StorageFault /\ HandlerDone(c) /\ UNCHANGED file

ForgetPending(c) ==
  /\ HandlerAt(c, "ABORT", "forget")
  /\ file' = [file EXCEPT ![handler[c].up].pending = FALSE]
  /\ HandlerDone(c) /\ UNCHANGED storageFaults

(* ---------------- Deleting an attachment: object, then row -------------- *)
DeleteFile(c, u) == file[u].row /\ HandlerBegin(c, "DELETE", u, "remove")

DeleteObject(c) ==
  /\ HandlerAt(c, "DELETE", "remove")
  /\ \/ /\ file' = [file EXCEPT ![handler[c].up] = ObjectRemoved(@, "DELETE")]
        /\ HandlerGoto(c, "unlink") /\ UNCHANGED storageFaults
     \/ StorageFault /\ HandlerDone(c) /\ UNCHANGED file

DeleteRow(c) ==
  /\ HandlerAt(c, "DELETE", "unlink")
  /\ file' = [file EXCEPT ![handler[c].up].row = FALSE]
  /\ HandlerDone(c) /\ UNCHANGED storageFaults

(* -------------- The daily cleanup of expired pending rows --------------- *)
DailyLoadSlip(u) ==
  Expired(u) /\ file[u].object # "NONE" /\ HandlerBegin("daily", "DAILY", u, "claim")
DailyLoad(u) == Expired(u) /\ HandlerBegin("daily", "DAILY", u, "claim")

(* The pending row is deleted first: of a cleanup and a completion only one   *)
(* can delete it.                                                             *)
ClaimPendingSlip ==
  /\ HandlerAt("daily", "DAILY", "claim")
  /\ HandlerGoto("daily", "final") /\ UNCHANGED <<file, storageFaults>>
ClaimPending ==
  /\ HandlerAt("daily", "DAILY", "claim")
  /\ IF Expired(handler["daily"].up)
       THEN /\ file' = [file EXCEPT ![handler["daily"].up].pending = FALSE]
            /\ HandlerGoto("daily", "final")
       ELSE HandlerDone("daily") /\ UNCHANGED file
  /\ UNCHANGED storageFaults

HasFinalAttachment ==
  /\ HandlerAt("daily", "DAILY", "final")
  /\ IF file[handler["daily"].up].row THEN HandlerDone("daily") ELSE HandlerGoto("daily", "remove")
  /\ UNCHANGED <<file, storageFaults>>

(* A storage error puts the pending row back; the restore may fail as well.   *)
DailyRemove ==
  /\ HandlerAt("daily", "DAILY", "remove")
  /\ \/ file' = [file EXCEPT ![handler["daily"].up] = ObjectRemoved(@, "DAILY")] /\ UNCHANGED storageFaults
     \/ StorageFault /\ \E restored \in BOOLEAN :
                   file' = [file EXCEPT ![handler["daily"].up].pending = @ \/ restored]
  /\ HandlerDone("daily")

(* ---------------- The weekly audit of the whole bucket ------------------ *)
(* Promise.all sends its queries together: they are answered in any order.    *)
AuditLoad(u) ==
  /\ file[u].object # "NONE"
  /\ handler["audit"].at = "idle"
  /\ handler' = [handler EXCEPT !["audit"] =
        [NoHandler(u) EXCEPT !.kind = "AUDIT", !.at = "look",
                             !.todo = {"row", "pending", "object"}]]
  /\ UNCHANGED <<file, storageFaults>>

Spares(u, t) ==
  CASE t = "row" -> file[u].row
    [] t = "pending" -> file[u].pending
    [] t = "object" -> file[u].object = "NONE" \/ file[u].kept < Grace

(* An object that no query spares is looked up once more before it goes.      *)
AuditLookSlip(t) ==
  LET a == handler["audit"] IN
  /\ HandlerAt("audit", "AUDIT", "look") /\ t \in a.todo
  /\ IF Spares(a.up, t) THEN HandlerDone("audit")
     ELSE handler' = [handler EXCEPT !["audit"].todo = a.todo \ {t},
                                     !["audit"].at = IF a.todo = {t} THEN "remove" ELSE @]
  /\ UNCHANGED <<file, storageFaults>>
AuditLook(t) ==
  LET a == handler["audit"] IN
  /\ HandlerAt("audit", "AUDIT", "look") /\ t \in a.todo
  /\ CASE Spares(a.up, t) -> HandlerDone("audit")
       [] ~Spares(a.up, t) /\ a.todo # {t} ->
            handler' = [handler EXCEPT !["audit"].todo = a.todo \ {t}]
       [] ~Spares(a.up, t) /\ a.todo = {t} /\ ~a.again ->
            handler' = [handler EXCEPT !["audit"].todo = {"row", "pending"},
                                       !["audit"].again = TRUE]
       [] ~Spares(a.up, t) /\ a.todo = {t} /\ a.again ->
            handler' = [handler EXCEPT !["audit"].todo = {}, !["audit"].at = "remove"]
  /\ UNCHANGED <<file, storageFaults>>

AuditRemove ==
  /\ HandlerAt("audit", "AUDIT", "remove")
  /\ \/ /\ file' = [file EXCEPT ![handler["audit"].up] = ObjectRemoved(@, "AUDIT")]
        /\ UNCHANGED storageFaults
     \/ StorageFault /\ UNCHANGED file
  /\ HandlerDone("audit")

(* --------------------------- Time and crashes ---------------------------- *)
Older(n) == IF n < Oldest THEN n + 1 ELSE n
UploadsAge ==
  /\ file' = [u \in Upload |->
        IF file[u].issued
          THEN [file[u] EXCEPT !.age = Older(@),
                               !.kept = IF file[u].object = "NONE" THEN 0 ELSE Older(@)]
          ELSE file[u]]
  /\ UNCHANGED <<handler, storageFaults>>

HandlerDies(p) ==
  /\ handler[p].at # "idle" /\ StorageFault /\ HandlerDone(p) /\ UNCHANGED file

(* --------------------------- The specification --------------------------- *)
ClientStep(c) ==
  \/ FindPending(c) \/ CheckSize(c) \/ InsertAndConsume(c) \/ InsertFails(c) \/ Undo(c)
  \/ FindReferences(c) \/ AbortRemove(c) \/ ForgetPending(c)
  \/ DeleteObject(c) \/ DeleteRow(c)
DailyStep == ClaimPending \/ HasFinalAttachment \/ DailyRemove
AuditStep == (\E t \in Ref \cup {"object"} : AuditLook(t)) \/ AuditRemove

StorageNext ==
  \/ \E u \in Upload :
       \/ Prepare(u) \/ DailyLoad(u) \/ AuditLoad(u)
       \/ \E size \in {"WHOLE", "SHORT"} : PutObject(u, size)
       \/ \E c \in Client : Complete(c, u) \/ Abort(c, u) \/ DeleteFile(c, u)
  \/ \E c \in Client : ClientStep(c)
  \/ DailyStep \/ AuditStep \/ UploadsAge
  \/ \E p \in StorageProcess : HandlerDies(p)

(* The nightly jobs run again and again and time passes; no user need come    *)
(* back and no request need finish.  Faults stop at their bound.              *)
StorageFairness ==
  /\ WF_storageVars(UploadsAge)
  /\ WF_storageVars(DailyStep)
  /\ WF_storageVars(AuditStep)
  /\ \A u \in Upload : SF_storageVars(DailyLoad(u)) /\ SF_storageVars(AuditLoad(u))

StorageSafety == StorageInit /\ [][StorageNext]_storageVars
StorageSpec == StorageSafety /\ StorageFairness

(* ------------------------------ Properties ------------------------------- *)
(* cleanupPendingUpload and runStorageAudit: of a completion and the cleanup   *)
(* only one deletes the pending row, so the cleanup never takes the object of  *)
(* a recorded attachment, however long either of them stalls; the audit takes  *)
(* it only if the completion had stalled past the grace, for the second look   *)
(* covers everything else.                                                     *)
AttachedKept ==
  \A u \in Upload : file[u].lostBy # "DAILY" /\ (file[u].lostBy = "AUDIT" => file[u].late)

(* prepareStorageUploads and the jobs: whatever users do or leave undone, an   *)
(* upload ends with no pending row, and with its object recorded or removed.   *)
UploadsSettle ==
  \A u \in Upload :
    file[u].issued ~> (~file[u].pending /\ (file[u].object = "NONE" \/ file[u].row))
==============================================================================
