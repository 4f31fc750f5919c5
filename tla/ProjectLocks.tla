---------------------------- MODULE ProjectLocks -----------------------------
(* Which projects of one owner are open.  On the free plan one may be: the     *)
(* others are locked, and the owner chooses.  Changes of the plan and the      *)
(* exchange of the open project take the row of the owner's membership first   *)
(* and so come one after the other; activating, creating and restoring a       *)
(* project check the limit and write later, without it.                        *)
EXTENDS Naturals, FiniteSets

CONSTANTS
  Prj,          \* the projects the owner may have
  Shared,       \* those that others may be invited to
  Opener        \* requests of the owner that may be open at the same time

ASSUME LocksAssumption == IsFiniteSet(Prj) /\ Shared \subseteq Prj

VARIABLES
  prj,          \* the project rows
  crowded,      \* projects with editors besides the owner
  ownerPlan,    \* the owner's plan
  opener,       \* per request: what was decided and is still to be written
  memberRow,    \* who holds the row of the owner's membership
  plain         \* history: a write without the row landed beside another decision

lockVars == <<prj, crowded, ownerPlan, opener, memberRow, plain>>

(* LAPSED: a plan granted by hand is past its date and counts as free, but the *)
(* nightly run has not locked anything yet.                                    *)
Plan == {"PAID", "LAPSED", "FREE"}
OpenerRow == [kind: {"NONE", "UNLOCK", "CREATE", "RESTORE", "SWAP"}, of: SUBSET Prj,
              closes: SUBSET Prj, opens: BOOLEAN]

LocksTypeOK ==
  /\ prj \in [Prj -> {"NONE", "OPEN", "LOCKED", "DELETED"}]
  /\ crowded \in SUBSET Prj
  /\ ownerPlan \in Plan
  /\ opener \in [Opener -> OpenerRow]
  /\ memberRow \in [by: {"nobody", "plan", "swap"}, single: SUBSET Prj]
  /\ plain \in BOOLEAN

(* ------------------------------ Helpers ---------------------------------- *)
Live == {p \in Prj : prj[p] \in {"OPEN", "LOCKED"}}
OpenPrj == {p \in Prj : prj[p] = "OPEN"}
IdleOpener == [kind |-> "NONE", of |-> {}, closes |-> {}, opens |-> FALSE]
RowFree == [by |-> "nobody", single |-> {}]

(* isProjectOverPlanLimit: on the free plan, other editors, or another open    *)
(* project; on a subscription, the seats, of which nothing is kept here.       *)
OverLimit(p, closes) ==
  IF ownerPlan = "PAID" THEN BOOLEAN
  ELSE {(p \in crowded) \/ (OpenPrj \ (closes \cup {p}) # {})}
(* checkOwnedProjectLimit counts the projects, open or not.                    *)
MayCreate == ownerPlan = "PAID" \/ Live = {}

LocksInit ==
  /\ prj = [p \in Prj |-> "NONE"] /\ crowded = {} /\ ownerPlan = "FREE"
  /\ opener = [r \in Opener |-> IdleOpener] /\ memberRow = RowFree /\ plain = FALSE

(* ------------------------ Without the owner's row ------------------------ *)
DecideWith(r, row) ==
  /\ opener[r].kind = "NONE" /\ opener' = [opener EXCEPT ![r] = row]
  /\ UNCHANGED <<prj, crowded, ownerPlan, memberRow, plain>>
DecideUnlock(r, p) ==
  /\ prj[p] = "LOCKED" /\ FALSE \in OverLimit(p, {})
  /\ DecideWith(r, [kind |-> "UNLOCK", of |-> {p}, closes |-> {}, opens |-> TRUE])
DecideCreate(r, p) ==
  /\ prj[p] = "NONE" /\ MayCreate
  /\ DecideWith(r, [kind |-> "CREATE", of |-> {p}, closes |-> {}, opens |-> TRUE])
DecideRestore(r, p) ==
  /\ prj[p] = "DELETED"
  /\ \E over \in OverLimit(p, {}) :
       DecideWith(r, [kind |-> "RESTORE", of |-> {p}, closes |-> {}, opens |-> ~over])

(* Would the same be decided now, and is nobody deciding who holds the row?    *)
StillRight(r, p) ==
  /\ memberRow.by = "nobody"
  /\ CASE opener[r].kind = "CREATE" -> MayCreate
       [] OTHER -> ~opener[r].opens \/ FALSE \in OverLimit(p, {})

(* Activating a project that was deleted meanwhile leaves it deleted.          *)
WritePlain(r) ==
  \E p \in opener[r].of :
    /\ opener[r].kind \in {"UNLOCK", "CREATE", "RESTORE"}
    /\ opener[r].kind = "CREATE" => prj[p] = "NONE"
    /\ prj' = [prj EXCEPT ![p] =
          IF opener[r].kind = "UNLOCK" /\ @ = "DELETED" THEN @
          ELSE IF opener[r].opens THEN "OPEN" ELSE "LOCKED"]
    /\ plain' = (plain \/ (opener[r].opens /\ ~StillRight(r, p)))
    /\ opener' = [opener EXCEPT ![r] = IdleOpener]
    /\ UNCHANGED <<crowded, ownerPlan, memberRow>>

(* A request dies, or its transaction fails and is rolled back.                *)
GiveUp(r) ==
  /\ opener[r].kind # "NONE" /\ opener' = [opener EXCEPT ![r] = IdleOpener]
  /\ memberRow' = IF opener[r].kind = "SWAP" THEN RowFree ELSE memberRow
  /\ UNCHANGED <<prj, crowded, ownerPlan, plain>>

(* -------------------------- The open project ----------------------------- *)
(* Closing, the decision and opening are one transaction: over the limit, all  *)
(* of it is rolled back.                                                       *)
RowTaken == memberRow.by = "nobody"
SwapDecide(r, p, closes) ==
  /\ opener[r].kind = "NONE" /\ RowTaken
  /\ prj[p] = "LOCKED" /\ p \notin closes /\ closes # {} /\ closes \subseteq Live
  /\ \E over \in OverLimit(p, closes) :
       opener' = [opener EXCEPT ![r] =
                    [kind |-> "SWAP", of |-> {p}, closes |-> closes, opens |-> ~over]]
  /\ memberRow' = [by |-> "swap", single |-> {}]
  /\ UNCHANGED <<prj, crowded, ownerPlan, plain>>
Swapped(r) ==
  [p \in Prj |-> IF prj[p] \notin {"OPEN", "LOCKED"} THEN prj[p]
                 ELSE IF p \in opener[r].of THEN "OPEN"
                 ELSE IF p \in opener[r].closes THEN "LOCKED" ELSE prj[p]]
SwapCommitSlip(r) ==
  /\ opener[r].kind = "SWAP"
  /\ prj' = [p \in Prj |-> IF p \in opener[r].of /\ ~opener[r].opens THEN prj[p] ELSE Swapped(r)[p]]
  /\ opener' = [opener EXCEPT ![r] = IdleOpener] /\ memberRow' = RowFree
  /\ UNCHANGED <<crowded, ownerPlan, plain>>
SwapCommit(r) ==
  /\ opener[r].kind = "SWAP"
  /\ prj' = IF opener[r].opens THEN Swapped(r) ELSE prj
  /\ opener' = [opener EXCEPT ![r] = IdleOpener] /\ memberRow' = RowFree
  /\ UNCHANGED <<crowded, ownerPlan, plain>>

(* ------------------------------ The plan --------------------------------- *)
(* A subscription or a plan granted by hand opens everything.                  *)
Upgrade ==
  /\ ownerPlan # "PAID" /\ memberRow.by = "nobody" /\ ownerPlan' = "PAID"
  /\ prj' = [p \in Prj |-> IF prj[p] = "LOCKED" THEN "OPEN" ELSE prj[p]]
  /\ UNCHANGED <<crowded, opener, memberRow, plain>>
PlanLapses ==
  /\ ownerPlan = "PAID" /\ memberRow.by = "nobody" /\ ownerPlan' = "LAPSED"
  /\ UNCHANGED <<prj, crowded, opener, memberRow, plain>>

(* The end of a subscription or of a granted plan: everything is locked, and   *)
(* the only project of an owner is opened again when nobody else edits it.     *)
DowngradeDecideSlip ==
  /\ ownerPlan # "FREE" /\ memberRow.by = "nobody"
  /\ memberRow' = [by |-> "plan", single |-> Live \ crowded]
  /\ prj' = [p \in Prj |-> IF prj[p] = "OPEN" THEN "LOCKED" ELSE prj[p]]
  /\ UNCHANGED <<crowded, ownerPlan, opener, plain>>
DowngradeDecide ==
  /\ ownerPlan # "FREE" /\ memberRow.by = "nobody"
  /\ memberRow' = [by |-> "plan",
                   single |-> IF Cardinality(Live) = 1 THEN Live \ crowded ELSE {}]
  /\ prj' = [p \in Prj |-> IF prj[p] = "OPEN" THEN "LOCKED" ELSE prj[p]]
  /\ UNCHANGED <<crowded, ownerPlan, opener, plain>>
DowngradeCommit ==
  /\ memberRow.by = "plan" /\ ownerPlan' = "FREE"
  /\ prj' = [p \in Prj |-> IF p \in memberRow.single /\ prj[p] = "LOCKED" THEN "OPEN" ELSE prj[p]]
  /\ memberRow' = RowFree /\ UNCHANGED <<crowded, opener, plain>>

(* --------------------------- Owner and editors --------------------------- *)
DeletePrj(p) ==
  /\ p \in Live /\ prj' = [prj EXCEPT ![p] = "DELETED"]
  /\ UNCHANGED <<crowded, ownerPlan, opener, memberRow, plain>>
EditorsChange(p) ==
  /\ p \in Live
  /\ \/ p \in Shared \ crowded /\ ownerPlan = "PAID" /\ crowded' = crowded \cup {p}
     \/ p \in crowded /\ crowded' = crowded \ {p}
  /\ UNCHANGED <<prj, ownerPlan, opener, memberRow, plain>>

(* --------------------------- The specification --------------------------- *)
LocksNext ==
  \/ \E r \in Opener :
       \/ \E p \in Prj :
            \/ DecideUnlock(r, p) \/ DecideCreate(r, p) \/ DecideRestore(r, p)
            \/ \E closes \in SUBSET Prj : SwapDecide(r, p, closes)
       \/ WritePlain(r) \/ GiveUp(r) \/ SwapCommit(r)
  \/ Upgrade \/ PlanLapses \/ DowngradeDecide \/ DowngradeCommit
  \/ \E p \in Prj : DeletePrj(p) \/ EditorsChange(p)

LocksSpec == LocksInit /\ [][LocksNext]_lockVars

(* ------------------------------ Properties ------------------------------- *)
(* swapOpenProject, the changes of the plan and the limits: on the free plan   *)
(* at most one project is open, unless activating, creating or restoring one   *)
(* landed beside another decision.                                             *)
OneOpenUnlessPlain == ownerPlan = "FREE" /\ ~plain => Cardinality(OpenPrj) <= 1

(* swapOpenProject: an exchange closes a project only together with opening    *)
(* one, so that the owner is never left with none; unless the one to open was  *)
(* deleted meanwhile.                                                          *)
ClosedForAnother ==
  [][memberRow.by = "swap" /\ memberRow'.by = "nobody"
        /\ (\E p \in Prj : prj[p] = "OPEN" /\ prj'[p] = "LOCKED") =>
       \E q \in Prj : (prj[q] \in {"LOCKED", "OPEN"} /\ prj'[q] = "OPEN") \/ prj[q] = "DELETED"]_lockVars
===============================================================================
