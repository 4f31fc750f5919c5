------------------------------ MODULE AiTasks --------------------------------
(* The queue of AI tasks of one planning artifact.  Users request, retry,      *)
(* cancel, reject, delete and re-label tasks; workers, programs on the users'  *)
(* machines, list the waiting tasks, claim one, compute, and report the        *)
(* result, which replaces the artifact's text.  The worker's routes write      *)
(* under a condition on the status, the users' routes check the status and     *)
(* write in a later statement.                                                 *)
EXTENDS Naturals

CONSTANTS
  MaxTask,      \* bound on tasks
  AiWorker,     \* workers
  AiUser        \* user requests that may be open at the same time

ASSUME AiTaskAssumption == MaxTask \in Nat \ {0}

VARIABLES
  aiTask,       \* the task rows, in the order they are requested
  artifact,     \* whether the artifact still exists
  aiWorker,     \* per worker: where it is and with which task
  aiUser        \* per user request: what was checked and is still to be written

aiVars == <<aiTask, artifact, aiWorker, aiUser>>

AiTask == 1..MaxTask
NoTask == 0
TaskStatus == {"PENDING", "IN_PROGRESS", "DONE", "FAILED", "REJECTED", "TIMEOUT"}
Ended == TaskStatus \ {"PENDING", "IN_PROGRESS"}

(* History: shown, how often the task's result was written to the artifact;    *)
(* labelled, its status was set by hand; crossed, a request wrote its status   *)
(* after it had changed.                                                       *)
TaskRow == [status: TaskStatus \cup {"NONE", "DELETED"}, shown: 0..2, labelled: BOOLEAN, crossed: BOOLEAN]
AiUserRequest == [kind: {"NONE", "ATTACH", "CANCEL", "REJECT", "RETRY"},
                  task: AiTask \cup {NoTask}]

AiTypeOK ==
  /\ aiTask \in [AiTask -> TaskRow]
  /\ artifact \in {"kept", "deleted"}
  /\ aiWorker \in [AiWorker -> [at: {"idle", "listed", "working"}, task: AiTask \cup {NoTask}]]
  /\ aiUser \in [AiUser -> AiUserRequest]

(* ------------------------------ Helpers ---------------------------------- *)
IdleWorker == [at |-> "idle", task |-> NoTask]
NoRequest == [kind |-> "NONE", task |-> NoTask]
StatusOf(t) == aiTask[t].status
Requested(t) == StatusOf(t) \notin {"NONE", "DELETED"}
NextTask(t) == StatusOf(t) = "NONE" /\ \A u \in AiTask : u < t => StatusOf(u) # "NONE"
Removes(t) == aiTask' = [aiTask EXCEPT ![t] = [status |-> "DELETED", shown |-> 0,
                                               labelled |-> @.labelled, crossed |-> FALSE]]
AtRest(c) == aiUser[c].kind = "NONE"
Holds(c, kind) == aiUser[c].kind = kind
Opens(c, kind, t) == aiUser' = [aiUser EXCEPT ![c] = [kind |-> kind, task |-> t]]
Closes(c) == aiUser' = [aiUser EXCEPT ![c] = NoRequest]

AiInit ==
  /\ aiTask = [t \in AiTask |-> [status |-> "NONE", shown |-> 0,
                                 labelled |-> FALSE, crossed |-> FALSE]]
  /\ artifact = "kept"
  /\ aiWorker = [w \in AiWorker |-> IdleWorker]
  /\ aiUser = [c \in AiUser |-> NoRequest]

(* ------------------------------- Users ----------------------------------- *)
(* A request puts the task in the queue first and saves its attachments after; *)
(* when that fails, the task is deleted, whoever works on it by then.          *)
Generate(c, t) ==
  /\ AtRest(c) /\ NextTask(t) /\ artifact = "kept"
  /\ aiTask' = [aiTask EXCEPT ![t].status = "PENDING"]
  /\ \/ Opens(c, "ATTACH", t)
     \/ UNCHANGED aiUser              \* nothing attached
  /\ UNCHANGED <<artifact, aiWorker>>
Attach(c) ==
  /\ Holds(c, "ATTACH")
  /\ \/ UNCHANGED aiTask
     \/ Removes(aiUser[c].task)
  /\ Closes(c) /\ UNCHANGED <<artifact, aiWorker>>

Asks(c, kind, t, from) ==
  /\ AtRest(c) /\ StatusOf(t) \in from /\ Opens(c, kind, t)
  /\ UNCHANGED <<aiTask, artifact, aiWorker>>
(* Only a task requested five minutes ago is cancelled; any task may be.        *)
AskCancel(c, t) == Asks(c, "CANCEL", t, {"IN_PROGRESS"})
AskReject(c, t) == Asks(c, "REJECT", t, {"DONE"})
AskRetry(c, t) == Asks(c, "RETRY", t, {"FAILED", "REJECTED", "TIMEOUT"})

(* The write names the task only.                                              *)
Overwrite(c, kind, from, to) ==
  LET t == aiUser[c].task IN
  /\ Holds(c, kind)
  /\ IF Requested(t)
       THEN aiTask' = [aiTask EXCEPT ![t].status = to, ![t].crossed = @ \/ StatusOf(t) # from]
       ELSE UNCHANGED aiTask
  /\ Closes(c) /\ UNCHANGED <<artifact, aiWorker>>
CancelTask(c) == Overwrite(c, "CANCEL", "IN_PROGRESS", "FAILED")
RejectTask(c) == Overwrite(c, "REJECT", "DONE", "REJECTED")

(* A retry is a new task; the old one keeps its status.                        *)
RetryTask(c) ==
  /\ Holds(c, "RETRY")
  /\ \E t \in AiTask : NextTask(t) /\ aiTask' = [aiTask EXCEPT ![t].status = "PENDING"]
  /\ Closes(c) /\ UNCHANGED <<artifact, aiWorker>>

(* Bound: one task is re-labelled, once.                                       *)
LabelTask(t, to) ==
  /\ Requested(t) /\ \A u \in AiTask : ~aiTask[u].labelled
  /\ aiTask' = [aiTask EXCEPT ![t].status = to, ![t].labelled = TRUE]
  /\ UNCHANGED <<artifact, aiWorker, aiUser>>
DeleteTask(t) ==
  /\ Requested(t) /\ Removes(t)
  /\ UNCHANGED <<artifact, aiWorker, aiUser>>

DeleteArtifact ==
  /\ artifact = "kept" /\ artifact' = "deleted"
  /\ UNCHANGED <<aiTask, aiWorker, aiUser>>

(* ------------------------------ Workers ---------------------------------- *)
ListTasks(w, t) ==
  /\ aiWorker[w].at = "idle" /\ StatusOf(t) = "PENDING"
  /\ aiWorker' = [aiWorker EXCEPT ![w] = [at |-> "listed", task |-> t]]
  /\ UNCHANGED <<aiTask, artifact, aiUser>>

StartableSlip(t) == StatusOf(t) \in {"PENDING", "IN_PROGRESS"}
Startable(t) == StatusOf(t) = "PENDING"
StartTask(w) ==
  LET t == aiWorker[w].task IN
  /\ aiWorker[w].at = "listed"
  /\ IF Startable(t)
       THEN /\ aiTask' = [aiTask EXCEPT ![t].status = "IN_PROGRESS"]
            /\ aiWorker' = [aiWorker EXCEPT ![w].at = "working"]
       ELSE aiWorker' = [aiWorker EXCEPT ![w] = IdleWorker] /\ UNCHANGED aiTask
  /\ UNCHANGED <<artifact, aiUser>>

(* One transaction: the status, under its condition, and the artifact's text;  *)
(* without the artifact it is rolled back.  The answer may get lost, and the   *)
(* worker reports again.                                                       *)
Reports(w, to, accepted, published) ==
  LET t == aiWorker[w].task IN
  /\ aiWorker[w].at = "working"
  /\ IF accepted /\ (published => artifact = "kept")
       THEN aiTask' = [aiTask EXCEPT ![t].status = to,
                                     ![t].shown = IF published /\ @ < 2 THEN @ + 1 ELSE @]
       ELSE UNCHANGED aiTask
  /\ aiWorker' \in {aiWorker, [aiWorker EXCEPT ![w] = IdleWorker]}
  /\ UNCHANGED <<artifact, aiUser>>
InProgress(w) == StatusOf(aiWorker[w].task) = "IN_PROGRESS"
CompleteTaskSlip(w, to) ==
  Reports(w, to, StatusOf(aiWorker[w].task) \in {"IN_PROGRESS", to}, to = "DONE")
CompleteTaskWide(w, to) == Reports(w, to, InProgress(w), artifact = "kept")
CompleteTask(w, to) == Reports(w, to, InProgress(w), to = "DONE")

(* A worker dies: its task stays IN_PROGRESS until a user cancels it.          *)
WorkerDies(w) ==
  /\ aiWorker[w].at = "working" /\ aiWorker' = [aiWorker EXCEPT ![w] = IdleWorker]
  /\ UNCHANGED <<aiTask, artifact, aiUser>>

(* --------------------------- The specification --------------------------- *)
AiNext ==
  \/ \E c \in AiUser :
       \/ \E t \in AiTask : Generate(c, t) \/ AskCancel(c, t) \/ AskReject(c, t) \/ AskRetry(c, t)
       \/ Attach(c) \/ CancelTask(c) \/ RejectTask(c) \/ RetryTask(c)
  \/ \E t \in AiTask :
       \/ \E to \in TaskStatus : LabelTask(t, to)
       \/ DeleteTask(t)
  \/ DeleteArtifact
  \/ \E w \in AiWorker :
       \/ \E t \in AiTask : ListTasks(w, t)
       \/ StartTask(w) \/ WorkerDies(w)
       \/ \E to \in {"DONE", "FAILED"} : CompleteTask(w, to)

AiSpec == AiInit /\ [][AiNext]_aiVars

(* ------------------------------ Properties ------------------------------- *)
(* start: two workers never compute the same task, unless its status was put   *)
(* back by hand.                                                               *)
OneWorkerPerTask ==
  \A v, w \in AiWorker :
    v # w /\ aiWorker[v].at = "working" /\ aiWorker[w].at = "working"
      /\ aiWorker[v].task = aiWorker[w].task => aiTask[aiWorker[v].task].labelled

(* complete: a report that is sent again, or comes after a cancel, does not    *)
(* write the artifact a second time, over what users wrote since.              *)
ResultShownOnce == \A t \in AiTask : ~aiTask[t].labelled => aiTask[t].shown <= 1

(* complete and cancel: a task on record as failed or still waiting never has  *)
(* its result in the artifact, unless a request crossed the worker's report.   *)
ShownOnlyWhenDone ==
  \A t \in AiTask :
    aiTask[t].shown > 0 /\ ~aiTask[t].labelled /\ ~aiTask[t].crossed
      => StatusOf(t) \in {"DONE", "REJECTED", "DELETED"}
===============================================================================
