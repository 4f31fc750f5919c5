------------------------------- MODULE SpecSync --------------------------------
(* Spec synchronisation: an agent starts a run on a snapshot of the design     *)
(* texts, analyses the sources on its own machine and submits its findings;    *)
(* reviewers then apply, reject or defer each finding while users go on        *)
(* editing the same texts.  Submissions and decisions of several people are    *)
(* transactions of several statements; what they keep apart is row locks on    *)
(* the run and on the text a finding is about.                                 *)
EXTENDS Naturals, FiniteSets

CONSTANTS
  SyncRun,      \* runs that may be started
  Slot,         \* findings a run may report
  Target,       \* design texts of the unit work
  Text,         \* values of a text
  NoText,       \* no value: a finding without a proposal
  SyncKey,      \* client submission keys
  Agent,        \* agent requests that may be open at the same time
  Reviewer,     \* decision requests that may be open at the same time
  MaxFinding    \* bound on the findings of all runs together

ASSUME SyncAssumption ==
  /\ NoText \notin Text /\ MaxFinding \in Nat
  /\ SyncRun # {} /\ Slot # {} /\ Target # {} /\ SyncKey # {}

VARIABLES
  design,       \* per text: its value, and whether it is still in the unit work
  syncRun,      \* the run rows
  item,         \* the finding rows
  agent,        \* per agent request: what it does and what it has read
  reviewer      \* per decision: the transaction it is in

syncVars == <<design, syncRun, item, agent, reviewer>>

OpenStatus == {"RUNNING", "NEEDS_INPUT"}
ItemStatus == {"PENDING", "APPLIED", "REJECTED", "DEFERRED", "DESIGN_CHANGED"}
Decision == {"APPLY", "REJECT", "DEFER"}
Snapshot == [Target -> Text \cup {NoText}]

Design == [text: Text, inside: BOOLEAN]
RunRow == [status: {"NONE", "NEEDS_REVIEW", "COMPLETED", "FAILED", "CANCELLED"} \cup OpenStatus,
           key: SyncKey, snapshot: Snapshot]
ItemRow == [status: {"NONE"} \cup ItemStatus, target: Target,
            before: Text \cup {NoText}, proposed: Text \cup {NoText}]
AgentRow == [at: {"idle", "create", "store"}, key: SyncKey, run: SyncRun, snapshot: Snapshot]
ReviewRow == [at: {"idle", "lock", "count", "commit"}, run: SyncRun, slot: Slot,
              to: ItemStatus, result: {"COMPLETED", "NEEDS_REVIEW"}]

SyncTypeOK ==
  /\ design \in [Target -> Design]
  /\ syncRun \in [SyncRun -> RunRow]
  /\ item \in [SyncRun -> [Slot -> ItemRow]]
  /\ agent \in [Agent -> AgentRow]
  /\ reviewer \in [Reviewer -> ReviewRow]

(* ------------------------------ Helpers ---------------------------------- *)
SomeOf(S) == CHOOSE x \in S : TRUE
NoSnapshot == [t \in Target |-> NoText]
NoRun == [status |-> "NONE", key |-> SomeOf(SyncKey), snapshot |-> NoSnapshot]
NoItem == [status |-> "NONE", target |-> SomeOf(Target), before |-> NoText, proposed |-> NoText]
IdleAgent == [at |-> "idle", key |-> SomeOf(SyncKey), run |-> SomeOf(SyncRun),
              snapshot |-> NoSnapshot]
IdleReviewer == [at |-> "idle", run |-> SomeOf(SyncRun), slot |-> SomeOf(Slot),
                 to |-> "PENDING", result |-> "COMPLETED"]

IsOpen(r) == syncRun[r].status \in OpenStatus
PendingSlots(r) == {s \in Slot : item[r][s].status = "PENDING"}

(* Row locks last as long as the transaction that took them.                   *)
RunFree(r) == \A v \in Reviewer : reviewer[v].at # "idle" => reviewer[v].run # r
ReviewedTarget(v) == item[reviewer[v].run][reviewer[v].slot].target
HasTarget(v) == reviewer[v].to \in {"APPLIED", "DESIGN_CHANGED"}
TargetFree(t) == \A v \in Reviewer : HasTarget(v) => ReviewedTarget(v) # t

AgentDone(a) == agent' = [agent EXCEPT ![a] = IdleAgent]
ReviewDone(v) == reviewer' = [reviewer EXCEPT ![v] = IdleReviewer]

SyncInit ==
  /\ design \in [Target -> [text: Text, inside: {TRUE}]]
  /\ syncRun = [r \in SyncRun |-> NoRun]
  /\ item = [r \in SyncRun |-> [s \in Slot |-> NoItem]]
  /\ agent = [a \in Agent |-> IdleAgent]
  /\ reviewer = [v \in Reviewer |-> IdleReviewer]

(* ------------------------- Starting a run -------------------------------- *)
KeyTaken(k) == \E r \in SyncRun : syncRun[r].status # "NONE" /\ syncRun[r].key = k

(* A key seen before answers with the run it made; else the texts of the unit  *)
(* work are read and the run is created with them in a later statement.        *)
StartSyncRun(a, k) ==
  /\ agent[a].at = "idle" /\ ~KeyTaken(k)
  /\ agent' = [agent EXCEPT ![a].at = "create", ![a].key = k,
                            ![a].snapshot = [t \in Target |-> design[t].text]]
  /\ UNCHANGED <<design, syncRun, item, reviewer>>

CreatedRun(a, r) ==
  syncRun' = [syncRun EXCEPT ![r] = [status |-> "RUNNING", key |-> agent[a].key,
                                     snapshot |-> agent[a].snapshot]]

(* The unique index on the key refuses the second of two creations; that one   *)
(* answers with the run of the first.                                          *)
CreateRunSlip(a) ==
  /\ agent[a].at = "create"
  /\ \E r \in SyncRun : syncRun[r].status = "NONE" /\ CreatedRun(a, r)
  /\ AgentDone(a)
  /\ UNCHANGED <<design, item, reviewer>>
CreateRun(a) ==
  /\ agent[a].at = "create"
  /\ \/ \E r \in SyncRun : ~KeyTaken(agent[a].key) /\ syncRun[r].status = "NONE" /\ CreatedRun(a, r)
     \/ KeyTaken(agent[a].key) /\ UNCHANGED syncRun
  /\ AgentDone(a)
  /\ UNCHANGED <<design, item, reviewer>>

(* ------------------ Results of the analysis, and giving up --------------- *)
SubmitSyncResult(a, r) ==
  /\ agent[a].at = "idle" /\ IsOpen(r)
  /\ agent' = [agent EXCEPT ![a].at = "store", ![a].run = r]
  /\ UNCHANGED <<design, syncRun, item, reviewer>>

(* updateOpenRun and cancelSyncRun: one statement, conditional on the status.  *)
UpdateOpenRun(r, status) ==
  /\ IsOpen(r) /\ RunFree(r)
  /\ syncRun' = [syncRun EXCEPT ![r].status = status]

SubmitWithoutAnalysis(a) ==
  LET r == agent[a].run IN
  /\ agent[a].at = "store"
  /\ \/ \E status \in {"FAILED", "NEEDS_INPUT"} : UpdateOpenRun(r, status)
     \/ ~IsOpen(r) /\ UNCHANGED syncRun
  /\ AgentDone(a)
  /\ UNCHANGED <<design, item, reviewer>>

CancelSyncRun(r) == UpdateOpenRun(r, "CANCELLED") /\ UNCHANGED <<design, item, agent, reviewer>>

(* A proposal is derived from the run's snapshot and must differ from it.      *)
Found(r, t) ==
  {[status |-> "PENDING", target |-> t, before |-> syncRun[r].snapshot[t], proposed |-> x] :
     x \in {NoText} \cup (Text \ {syncRun[r].snapshot[t]})}
Stored == {p \in SyncRun \X Slot : item[p[1]][p[2]].status # "NONE"}
Findings(r) ==
  UNION {[S -> UNION {Found(r, t) : t \in Target}] :
           S \in {S \in SUBSET Slot : Cardinality(S) + Cardinality(Stored) <= MaxFinding}}

StoredResult(r, found) ==
  /\ item' = [item EXCEPT ![r] = [s \in Slot |-> IF s \in DOMAIN found THEN found[s] ELSE @[s]]]
  /\ syncRun' = [syncRun EXCEPT ![r].status = IF DOMAIN found = {} THEN "COMPLETED"
                                              ELSE "NEEDS_REVIEW"]

(* The transaction locks the run and looks at its status again: the run may    *)
(* have been cancelled, or another result stored, since the request began.     *)
StoreResultSlip(a) ==
  LET r == agent[a].run IN
  /\ agent[a].at = "store" /\ RunFree(r)
  /\ \E found \in Findings(r) : StoredResult(r, found)
  /\ AgentDone(a)
  /\ UNCHANGED <<design, reviewer>>
StoreResult(a) ==
  LET r == agent[a].run IN
  /\ agent[a].at = "store" /\ RunFree(r) /\ IsOpen(r)
  /\ \A s \in Slot : item[r][s].status = "NONE"
  /\ \E found \in Findings(r) : StoredResult(r, found)
  /\ AgentDone(a)
  /\ UNCHANGED <<design, reviewer>>

(* ---------------------- Deciding on one finding -------------------------- *)
(* assertDecisionEligible, under the locks of the run and of the finding.      *)
Eligible(r, s, d) ==
  /\ item[r][s].status = "PENDING"
  /\ d = "APPLY" => item[r][s].proposed # NoText

BeginReview(v, r, s, d) ==
  /\ reviewer[v].at = "idle" /\ Eligible(r, s, d)
  /\ reviewer' = [reviewer EXCEPT ![v] =
        [@ EXCEPT !.at = IF d = "APPLY" THEN "lock" ELSE "count", !.run = r, !.slot = s,
                  !.to = CASE d = "REJECT" -> "REJECTED" [] d = "DEFER" -> "DEFERRED"
                           [] OTHER -> "PENDING"]]
  /\ UNCHANGED <<design, syncRun, item, agent>>
DecideSyncItemSlip(v, r, s, d) == BeginReview(v, r, s, d)
DecideSyncItem(v, r, s, d) == RunFree(r) /\ BeginReview(v, r, s, d)

(* The text is locked, then compared with the one that was analysed.           *)
CompareWithAnalysis(v) ==
  LET i == item[reviewer[v].run][reviewer[v].slot]
      same == design[i.target].text = i.before
  IN reviewer' = [reviewer EXCEPT ![v].at = "count",
                                  ![v].to = IF same THEN "APPLIED" ELSE "DESIGN_CHANGED"]
LockTarget(v) ==
  LET t == ReviewedTarget(v) IN
  /\ reviewer[v].at = "lock" /\ TargetFree(t)
  /\ IF design[t].inside THEN CompareWithAnalysis(v) ELSE ReviewDone(v)
  /\ UNCHANGED <<design, syncRun, item, agent>>

(* completeRunIfResolved counts what is left with its own finding decided.     *)
CountPending(v) ==
  /\ reviewer[v].at = "count"
  /\ reviewer' = [reviewer EXCEPT ![v].at = "commit",
        ![v].result = IF PendingSlots(reviewer[v].run) \ {reviewer[v].slot} = {}
                        THEN "COMPLETED" ELSE "NEEDS_REVIEW"]
  /\ UNCHANGED <<design, syncRun, item, agent>>

CommitReview(v) ==
  LET r == reviewer[v].run
      i == item[r][reviewer[v].slot]
  IN /\ reviewer[v].at = "commit"
     /\ item' = [item EXCEPT ![r][reviewer[v].slot].status = reviewer[v].to]
     /\ syncRun' = [syncRun EXCEPT ![r].status = reviewer[v].result]
     /\ design' = IF reviewer[v].to = "APPLIED"
                    THEN [design EXCEPT ![i.target].text = i.proposed]
                    ELSE design
     /\ ReviewDone(v) /\ UNCHANGED agent

(* ------------------------- Users, and crashes ---------------------------- *)
EditTargetSlip(t) ==
  /\ \E x \in Text : design' = [design EXCEPT ![t].text = x]
  /\ UNCHANGED <<syncRun, item, agent, reviewer>>
EditTarget(t) ==
  /\ TargetFree(t)
  /\ \E x \in Text : design' = [design EXCEPT ![t].text = x]
  /\ UNCHANGED <<syncRun, item, agent, reviewer>>

(* Deleted, or moved to another unit work and perhaps back.                    *)
MoveTarget(t) ==
  /\ TargetFree(t)
  /\ design' = [design EXCEPT ![t].inside = ~@]
  /\ UNCHANGED <<syncRun, item, agent, reviewer>>

(* A request dies: its transaction rolls back and its locks are gone.          *)
ReviewDies(v) ==
  /\ reviewer[v].at # "idle" /\ ReviewDone(v)
  /\ UNCHANGED <<design, syncRun, item, agent>>
AgentDies(a) ==
  /\ agent[a].at # "idle" /\ AgentDone(a)
  /\ UNCHANGED <<design, syncRun, item, reviewer>>

(* --------------------------- The specification --------------------------- *)
AgentNext(a) ==
  \/ \E k \in SyncKey : StartSyncRun(a, k)
  \/ CreateRun(a)
  \/ \E r \in SyncRun : SubmitSyncResult(a, r)
  \/ SubmitWithoutAnalysis(a) \/ StoreResult(a) \/ AgentDies(a)
ReviewerNext(v) ==
  \/ \E r \in SyncRun, s \in Slot, d \in Decision : DecideSyncItem(v, r, s, d)
  \/ LockTarget(v) \/ CountPending(v) \/ CommitReview(v) \/ ReviewDies(v)

SyncNext ==
  \/ \E a \in Agent : AgentNext(a)
  \/ \E v \in Reviewer : ReviewerNext(v)
  \/ \E r \in SyncRun : CancelSyncRun(r)
  \/ \E t \in Target : EditTarget(t) \/ MoveTarget(t)

SyncSpec == SyncInit /\ [][SyncNext]_syncVars

(* ------------------------------ Properties ------------------------------- *)
(* What a review promises (GuardedEdit): the run's finding is the proposal,    *)
(* the analysed text its basis.                                                *)
VerdictOf(status) ==
  CASE status = "NONE" -> "NONE"
    [] status = "PENDING" -> "OPEN"
    [] status = "APPLIED" -> "APPLIED"
    [] status = "DESIGN_CHANGED" -> "OUTDATED"
    [] OTHER -> "DECLINED"

Review == INSTANCE GuardedEdit WITH
  Subject <- Target, Wording <- Text, Proposal <- SyncRun \X Slot,
  wording <- [t \in Target |-> design[t].text],
  proposal <- [p \in SyncRun \X Slot |->
                 [about |-> item[p[1]][p[2]].target, basis |-> item[p[1]][p[2]].before,
                  text |-> item[p[1]][p[2]].proposed,
                  verdict |-> VerdictOf(item[p[1]][p[2]].status)]]

(* decideSyncItem: a finding is written over exactly the text it was derived   *)
(* from; a text edited since then makes it DESIGN_CHANGED, also when the edit  *)
(* and the decision race.                                                      *)
AppliedOverAnalysed == Review!GuardedSpec

(* startSyncRun, submitSyncResult: a run that failed, was cancelled or is      *)
(* completed keeps its status, and no result that was on its way enters it.    *)
ClosedStaysClosed ==
  [][\A r \in SyncRun : syncRun[r].status \in {"FAILED", "CANCELLED", "COMPLETED"} =>
        syncRun'[r] = syncRun[r] /\ item'[r] = item[r]]_syncVars

(* completeRunIfResolved: a run is COMPLETED once its last finding is decided  *)
(* and NEEDS_REVIEW as long as one is open, whichever decisions race.          *)
ReviewStatusTrue ==
  \A r \in SyncRun :
    /\ syncRun[r].status = "COMPLETED" => PendingSlots(r) = {}
    /\ syncRun[r].status = "NEEDS_REVIEW" => PendingSlots(r) # {}

(* startSyncRun: an agent that sends its start request again, at once or       *)
(* later, gets the run it already has.                                         *)
OneRunPerKey ==
  \A r, q \in SyncRun :
    syncRun[r].status # "NONE" /\ syncRun[q].status # "NONE" /\ syncRun[r].key = syncRun[q].key
      => r = q
================================================================================
