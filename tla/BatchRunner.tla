----------------------------- MODULE BatchRunner -----------------------------
(* runJob and the nightly billing job.  Cron and administrators trigger the    *)
(* job; a RUNNING row stands for the exclusion between them, looked for in one *)
(* statement and created in another, and a row that stays RUNNING past the     *)
(* stale timeout is marked FAILED and taken over.  The items are the lost      *)
(* PENDING attempts (charges and refunds) of the members, which block every    *)
(* other payment of theirs until the job closes them.                          *)
(*                                                                             *)
(* A finished row is history no later step reads: its slot is used again.      *)
EXTENDS Naturals, FiniteSets

CONSTANTS
  Runner,         \* executions of runJob that may be alive at once
  JobRow,         \* slots for rows of tb_cm_batch_job
  Payer,          \* members, with at most one PENDING attempt each
  StaleJob,       \* ticks after which a RUNNING row counts as a zombie (30 minutes)
  StalePending,   \* ticks after which a PENDING attempt is looked up (10 minutes)
  MaxBatchFaults  \* bound on crashes, overlong runs, failed updates and lookups

ASSUME BatchAssumption ==
  /\ StaleJob \in Nat \ {0} /\ StalePending \in Nat \ {0} /\ MaxBatchFaults \in Nat
  /\ JobRow # {}

VARIABLES
  job,         \* rows: RUNNING and its age, or closed
  runner,      \* per execution: where runJob stands
  attempt,     \* per member: the PENDING attempt
  raced,       \* history: pairs of executions that looked before either created
  batchFaults

batchVars == <<job, runner, attempt, raced, batchFaults>>

JobInfo == [status: {"CLOSED", "RUNNING", "FAILED"}, age: 0..StaleJob]
RunnerState == [at: {"idle", "look", "mark", "create", "load", "items", "close"},
                row: JobRow, todo: SUBSET Payer]
Attempt == [status: {"NONE", "PENDING"}, age: 0..StalePending, alive: BOOLEAN]

BatchTypeOK ==
  /\ job \in [JobRow -> JobInfo]
  /\ runner \in [Runner -> RunnerState]
  /\ attempt \in [Payer -> Attempt]
  /\ raced \subseteq SUBSET Runner
  /\ batchFaults \in 0..MaxBatchFaults

NoJob == [status |-> "CLOSED", age |-> 0]
NoAttempt == [status |-> "NONE", age |-> 0, alive |-> FALSE]

Starting(p) == runner[p].at \in {"mark", "create"}
Executing(p) == runner[p].at \in {"load", "items", "close"}
FreshJob(p) == Executing(p) /\ job[runner[p].row].age < StaleJob
Running == {j \in JobRow : job[j].status = "RUNNING"}
Latest == {j \in Running : \A k \in Running : job[j].age <= job[k].age}
SlotFree(j) == job[j].status # "RUNNING" /\ \A p \in Runner : Executing(p) => runner[p].row # j
BatchFault == batchFaults < MaxBatchFaults /\ batchFaults' = batchFaults + 1
RunnerGoto(p, step) == runner' = [runner EXCEPT ![p].at = step]
Forgotten(p) == raced' = {pair \in raced : p \notin pair}

BatchInit ==
  /\ job = [j \in JobRow |-> NoJob]
  /\ runner = [p \in Runner |-> [at |-> "idle", row |-> CHOOSE j \in JobRow : TRUE, todo |-> {}]]
  /\ attempt = [m \in Payer |-> NoAttempt]
  /\ raced = {} /\ batchFaults = 0

(* --------------------------- The exclusion ------------------------------- *)
Trigger(p) ==
  /\ runner[p].at = "idle"
  /\ RunnerGoto(p, "look")
  /\ UNCHANGED <<job, attempt, raced, batchFaults>>

(* The RUNNING row that started last decides: none, a fresh one, or a zombie.  *)
LookForRunningSlip(p) ==
  /\ runner[p].at = "look"
  /\ IF Running = {} THEN RunnerGoto(p, "create")
     ELSE \E j \in Running :
            /\ \A k \in Running : job[k].age <= job[j].age
            /\ runner' = [runner EXCEPT ![p].at = IF job[j].age < StaleJob THEN "idle" ELSE "mark",
                                        ![p].row = j]
  /\ raced' = raced \cup {{p, q} : q \in {q \in Runner : Starting(q)}}
  /\ UNCHANGED <<job, attempt, batchFaults>>
LookForRunningNoTakeover(p) ==
  /\ runner[p].at = "look"
  /\ RunnerGoto(p, IF Running = {} THEN "create" ELSE "idle")
  /\ raced' = raced \cup {{p, q} : q \in {q \in Runner : Starting(q)}}
  /\ UNCHANGED <<job, attempt, batchFaults>>
LookForRunning(p) ==
  /\ runner[p].at = "look"
  /\ \/ Running = {} /\ RunnerGoto(p, "create")
     \/ \E j \in Latest : job[j].age < StaleJob /\ RunnerGoto(p, "idle")
     \/ \E j \in Latest :
          /\ job[j].age = StaleJob
          /\ runner' = [runner EXCEPT ![p].at = "mark", ![p].row = j]
  /\ raced' = IF runner'[p].at = "idle" THEN raced
              ELSE raced \cup {{p, q} : q \in {q \in Runner : Starting(q)}}
  /\ UNCHANGED <<job, attempt, batchFaults>>

(* The update has no condition on the status.                                  *)
MarkZombieFailed(p) ==
  /\ runner[p].at = "mark"
  /\ job' = [job EXCEPT ![runner[p].row].status = "FAILED"]
  /\ RunnerGoto(p, "create")
  /\ UNCHANGED <<attempt, raced, batchFaults>>

CreateRunning(p) ==
  /\ runner[p].at = "create"
  /\ \E j \in JobRow :
       /\ SlotFree(j) /\ \A q \in Runner : runner[q].at = "mark" => runner[q].row # j
       /\ job' = [job EXCEPT ![j] = [status |-> "RUNNING", age |-> 0]]
       /\ runner' = [runner EXCEPT ![p] = [at |-> "load", row |-> j, todo |-> {}]]
  /\ UNCHANGED <<attempt, raced, batchFaults>>

(* --------------------------- The job's items ----------------------------- *)
Overdue(m) == attempt[m].status = "PENDING" /\ attempt[m].age = StalePending

LoadTargets(p) ==
  /\ runner[p].at = "load"
  /\ runner' = [runner EXCEPT ![p].at = "items", ![p].todo = {m \in Payer : Overdue(m)}]
  /\ UNCHANGED <<job, attempt, raced, batchFaults>>

(* resolvePendingPayments: reads again, and closes what is still overdue; an   *)
(* unanswered lookup leaves it.                                                *)
ProcessItem(p, m) ==
  /\ runner[p].at = "items" /\ m \in runner[p].todo
  /\ runner' = [runner EXCEPT ![p].todo = @ \ {m}]
  /\ \/ /\ attempt' = [attempt EXCEPT ![m] = IF Overdue(m) THEN NoAttempt ELSE @]
        /\ UNCHANGED batchFaults
     \/ BatchFault /\ UNCHANGED attempt
  /\ UNCHANGED <<job, raced>>

ItemsDone(p) ==
  /\ runner[p].at = "items" /\ runner[p].todo = {}
  /\ RunnerGoto(p, "close")
  /\ UNCHANGED <<job, attempt, raced, batchFaults>>

(* The final update is unconditional too: it may overwrite a FAILED mark.  If  *)
(* it fails the row stays RUNNING.                                             *)
CloseJob(p) ==
  /\ runner[p].at = "close"
  /\ \/ job' = [job EXCEPT ![runner[p].row] = NoJob] /\ UNCHANGED batchFaults
     \/ BatchFault /\ UNCHANGED job
  /\ RunnerGoto(p, "idle")
  /\ Forgotten(p)
  /\ UNCHANGED attempt

RunnerDies(p) ==
  /\ runner[p].at # "idle" /\ BatchFault
  /\ runner' = [runner EXCEPT ![p].at = "idle", ![p].todo = {}]
  /\ Forgotten(p)
  /\ UNCHANGED <<job, attempt>>

(* --------------------- The members' own requests ------------------------- *)
OpenAttempt(m) ==
  /\ attempt[m].status = "NONE"
  /\ attempt' = [attempt EXCEPT ![m] = [status |-> "PENDING", age |-> 0, alive |-> TRUE]]
  /\ UNCHANGED <<job, runner, raced, batchFaults>>

CloseAttempt(m) ==
  /\ attempt[m].alive
  /\ attempt' = [attempt EXCEPT ![m] = NoAttempt]
  /\ UNCHANGED <<job, runner, raced, batchFaults>>

LoseAttempt(m) ==
  /\ attempt[m].alive
  /\ attempt' = [attempt EXCEPT ![m].alive = FALSE]
  /\ UNCHANGED <<job, runner, raced, batchFaults>>

(* A request is answered or given up before its attempt is overdue.  An        *)
(* execution that works on past the stale timeout counts as a fault.           *)
Outlived == \E p \in Runner : Executing(p) /\ job[runner[p].row].age = StaleJob - 1
BatchTick ==
  /\ \A m \in Payer : attempt[m].alive => attempt[m].age + 1 < StalePending
  /\ IF Outlived THEN BatchFault ELSE UNCHANGED batchFaults
  /\ job' = [j \in JobRow |-> IF job[j].status = "RUNNING" /\ job[j].age < StaleJob
                                THEN [job[j] EXCEPT !.age = @ + 1] ELSE job[j]]
  /\ attempt' = [m \in Payer |-> IF attempt[m].status = "PENDING" /\ attempt[m].age < StalePending
                                   THEN [attempt[m] EXCEPT !.age = @ + 1] ELSE attempt[m]]
  /\ UNCHANGED <<runner, raced>>

(* --------------------------- The specification --------------------------- *)
RunnerStep(p) ==
  \/ LookForRunning(p) \/ MarkZombieFailed(p) \/ CreateRunning(p) \/ LoadTargets(p)
  \/ (\E m \in Payer : ProcessItem(p, m)) \/ ItemsDone(p) \/ CloseJob(p)

BatchNext ==
  \/ \E p \in Runner : Trigger(p) \/ RunnerStep(p) \/ RunnerDies(p)
  \/ \E m \in Payer : OpenAttempt(m) \/ CloseAttempt(m) \/ LoseAttempt(m)
  \/ BatchTick

(* Cron triggers the job again and again, an execution that lives makes        *)
(* progress, and time passes (no member can hold it up for ever).             *)
BatchFairness ==
  /\ \A p \in Runner : WF_batchVars(Trigger(p)) /\ WF_batchVars(RunnerStep(p))
  /\ \A m \in Payer : WF_batchVars(CloseAttempt(m) \/ LoseAttempt(m))
  /\ SF_batchVars(BatchTick)

BatchSafety == BatchInit /\ [][BatchNext]_batchVars
BatchSpec == BatchSafety /\ BatchFairness

(* ------------------------------ Properties ------------------------------- *)
(* runJob, step 1: two executions work at once only if one has outlived the    *)
(* stale timeout, or both had looked before either created its row.            *)
AloneUnlessRaced ==
  \A p, q \in Runner : p # q /\ FreshJob(p) /\ FreshJob(q) => {p, q} \in raced

(* loadStalePendingMembers and resolvePendingPayments, with the takeover of    *)
(* runJob: an attempt whose request is gone does not block its member for      *)
(* ever, although executions die with their row RUNNING.                       *)
PendingSettles == \A m \in Payer : attempt[m].status = "PENDING" ~> attempt[m].status = "NONE"
==============================================================================
