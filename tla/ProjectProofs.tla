---------------------------- MODULE ProjectProofs -----------------------------
(* What is proved of a project for any number of people, projects and          *)
(* concurrent requests: its locks under the owner's plan, and its members and  *)
(* their owner through roles, removal, deletion and restoration.               *)
EXTENDS ProjectLocks, ProjectMembers, FiniteSetTheorems, TLAPS

(* ------------------------------ The locks --------------------------------- *)
AtMostOne(S) == \A p, q \in S : p = q

(* Who exchanges the open project holds the row alone.                         *)
SwapsAlone ==
  /\ \A r \in Opener : opener[r].kind = "SWAP" => memberRow.by = "swap"
  /\ \A r, s \in Opener : opener[r].kind = "SWAP" /\ opener[s].kind = "SWAP" => r = s

SwapsKnown ==
  \A r \in Opener : opener[r].kind = "SWAP" => \E p \in Prj : opener[r].of = {p} /\ prj[p] # "NONE"

(* What a swap has decided is still so when it commits.                        *)
SwapsFit ==
  \A r \in Opener : opener[r].kind = "SWAP" /\ opener[r].opens /\ ownerPlan # "PAID" /\ ~plain =>
    OpenPrj \subseteq opener[r].closes \cup opener[r].of

(* The end of a plan has locked everything and opens at most one again.        *)
PlanFits == memberRow.by = "plan" => AtMostOne(memberRow.single) /\ (~plain => OpenPrj = {})

LocksInv ==
  /\ LocksTypeOK /\ SwapsAlone /\ SwapsKnown /\ SwapsFit /\ PlanFits
  /\ ownerPlan = "FREE" /\ ~plain => AtMostOne(OpenPrj)

LEMMA OneCounts == ASSUME NEW S, AtMostOne(S) PROVE Cardinality(S) <= 1
<1>1. CASE S = {}
  BY <1>1, FS_EmptySet
<1>2. CASE S # {}
  <2>1. PICK x : S = {x}
    BY <1>2 DEF AtMostOne
  <2>2. Cardinality(S) = 1
    BY <2>1, FS_Singleton
  <2> QED BY <2>2
<1> QED BY <1>1, <1>2

LEMMA CountsOne == ASSUME NEW S, IsFiniteSet(S), Cardinality(S) = 1 PROVE AtMostOne(S)
BY FS_Singleton DEF AtMostOne

LEMMA LocksInitInv == LocksInit => LocksInv
<1> SUFFICES ASSUME LocksInit PROVE LocksInv
  OBVIOUS
<1>1. LocksTypeOK
  BY LocksAssumption DEF LocksInit, LocksTypeOK, IdleOpener, OpenerRow, RowFree, Plan
<1>2. OpenPrj = {}
  BY DEF LocksInit, OpenPrj
<1>3. \A r \in Opener : opener[r].kind = "NONE"
  BY DEF LocksInit, IdleOpener
<1>4. memberRow.by = "nobody"
  BY DEF LocksInit, RowFree
<1> QED BY <1>1, <1>2, <1>3, <1>4 DEF LocksInv, SwapsAlone, SwapsKnown, SwapsFit, PlanFits, AtMostOne

(* A step that opens nothing, or nothing while somebody decides.               *)
LEMMA OpensNothing ==
  ASSUME LocksInv, LocksTypeOK', UNCHANGED <<ownerPlan, memberRow>>,
         \A r \in Opener : opener'[r].kind = "SWAP" => opener'[r] = opener[r],
         \A p \in Prj : prj'[p] = "NONE" => prj[p] = "NONE",
         plain => plain',
         ~plain' => OpenPrj' \subseteq OpenPrj
  PROVE  LocksInv'
<1>1. SwapsAlone'
  BY DEF LocksInv, SwapsAlone
<1>2. SwapsKnown'
  BY DEF LocksInv, SwapsKnown
<1>3. SwapsFit'
  BY DEF LocksInv, SwapsFit
<1>4. PlanFits'
  BY DEF LocksInv, PlanFits, AtMostOne
<1>5. ownerPlan' = "FREE" /\ ~plain' => AtMostOne(OpenPrj')
  BY DEF LocksInv, AtMostOne
<1> QED BY <1>1, <1>2, <1>3, <1>4, <1>5 DEF LocksInv

LEMMA IdleTyped == IdleOpener \in OpenerRow /\ IdleOpener.kind = "NONE"
                   /\ RowFree \in [by: {"nobody", "plan", "swap"}, single: SUBSET Prj]
                   /\ RowFree.by = "nobody"
BY DEF IdleOpener, OpenerRow, RowFree

LEMMA Decides ==
  ASSUME LocksInv, NEW r \in Opener, NEW row \in OpenerRow, row.kind # "SWAP", DecideWith(r, row)
  PROVE  LocksInv'
<1>1. LocksTypeOK'
  BY DEF LocksInv, LocksTypeOK, DecideWith
<1>2. \A s \in Opener : opener'[s].kind = "SWAP" => opener'[s] = opener[s]
  BY DEF LocksInv, LocksTypeOK, DecideWith
<1>3. OpenPrj' = OpenPrj
  BY DEF DecideWith, OpenPrj
<1> QED BY <1>1, <1>2, <1>3, OpensNothing DEF DecideWith

LEMMA PlainDecides ==
  ASSUME LocksInv, NEW r \in Opener, NEW p \in Prj,
         DecideUnlock(r, p) \/ DecideCreate(r, p) \/ DecideRestore(r, p)
  PROVE  LocksInv'
<1>1. PICK k \in {"UNLOCK", "CREATE", "RESTORE"}, o \in BOOLEAN :
        DecideWith(r, [kind |-> k, of |-> {p}, closes |-> {}, opens |-> o])
  <2>1. CASE DecideRestore(r, p)
    <3>1. PICK over \in OverLimit(p, {}) :
            DecideWith(r, [kind |-> "RESTORE", of |-> {p}, closes |-> {}, opens |-> ~over])
      BY <2>1 DEF DecideRestore
    <3>2. (~over) \in BOOLEAN
      OBVIOUS
    <3> QED BY <3>1, <3>2
  <2> QED BY <2>1 DEF DecideUnlock, DecideCreate
<1>2. [kind |-> k, of |-> {p}, closes |-> {}, opens |-> o] \in OpenerRow
  BY DEF OpenerRow
<1> QED BY <1>1, <1>2, Decides

(* Over the limit or not, on another plan than the paid one.                   *)
LEMMA Limit ==
  ASSUME ownerPlan # "PAID", NEW p, NEW S, FALSE \in OverLimit(p, S)
  PROVE  OpenPrj \subseteq S \cup {p}
BY DEF OverLimit

LEMMA PlainWrites ==
  ASSUME LocksInv, NEW r \in Opener, WritePlain(r)
  PROVE  LocksInv'
<1>1. PICK p \in opener[r].of :
        /\ opener[r].kind \in {"UNLOCK", "CREATE", "RESTORE"}
        /\ opener[r].kind = "CREATE" => prj[p] = "NONE"
        /\ prj' = [prj EXCEPT ![p] =
              IF opener[r].kind = "UNLOCK" /\ prj[p] = "DELETED" THEN prj[p]
              ELSE IF opener[r].opens THEN "OPEN" ELSE "LOCKED"]
        /\ plain' = (plain \/ (opener[r].opens /\ ~StillRight(r, p)))
        /\ opener' = [opener EXCEPT ![r] = IdleOpener]
        /\ UNCHANGED <<crowded, ownerPlan, memberRow>>
  BY DEF WritePlain
<1>2. opener \in [Opener -> OpenerRow] /\ prj \in [Prj -> {"NONE", "OPEN", "LOCKED", "DELETED"}]
      /\ plain \in BOOLEAN /\ p \in Prj
  BY <1>1 DEF LocksInv, LocksTypeOK, OpenerRow
<1>3. plain' \in BOOLEAN /\ (plain => plain')
  BY <1>1, <1>2
<1>4. LocksTypeOK'
  BY <1>1, <1>2, <1>3, IdleTyped DEF LocksInv, LocksTypeOK
<1>5. /\ \A s \in Opener : opener'[s].kind = "SWAP" => opener'[s] = opener[s]
      /\ \A q \in Prj : prj'[q] = "NONE" => prj[q] = "NONE"
  BY <1>1, <1>2, IdleTyped
<1>6. CASE OpenPrj' \subseteq OpenPrj
  BY <1>1, <1>3, <1>4, <1>5, <1>6, OpensNothing
<1>7. CASE plain'
  BY <1>1, <1>3, <1>4, <1>5, <1>7, OpensNothing
<1>8. CASE ~(OpenPrj' \subseteq OpenPrj) /\ ~plain'
  <2>1. opener[r].opens /\ ~plain
    BY <1>1, <1>2, <1>8 DEF OpenPrj
  <2>2. StillRight(r, p)
    BY <1>1, <1>8, <2>1
  <2>3. memberRow.by = "nobody"
    BY <2>2 DEF StillRight
  <2>4. OpenPrj' \subseteq OpenPrj \cup {p}
    BY <1>1, <1>2 DEF OpenPrj
  <2>5. ownerPlan # "PAID" => OpenPrj \subseteq {p}
    <3>1. CASE opener[r].kind = "CREATE"
      BY <2>2, <3>1 DEF StillRight, MayCreate, Live, OpenPrj
    <3>2. CASE opener[r].kind # "CREATE"
      <4>1. FALSE \in OverLimit(p, {})
        BY <2>1, <2>2, <3>2 DEF StillRight
      <4>2. ownerPlan # "PAID" => OpenPrj \subseteq {} \cup {p}
        BY <4>1, Limit
      <4> QED BY <4>2
    <3> QED BY <3>1, <3>2
  <2>6. SwapsAlone' /\ SwapsKnown'
    BY <1>1, <1>5 DEF LocksInv, SwapsAlone, SwapsKnown
  <2>7. SwapsFit' /\ PlanFits'
    BY <1>1, <1>5, <2>3 DEF LocksInv, SwapsAlone, SwapsFit, PlanFits
  <2>8. ownerPlan' = "FREE" => AtMostOne(OpenPrj')
    BY <1>1, <2>4, <2>5 DEF AtMostOne
  <2> QED BY <1>4, <2>6, <2>7, <2>8 DEF LocksInv
<1> QED BY <1>6, <1>7, <1>8

LEMMA GivesUp ==
  ASSUME LocksInv, NEW r \in Opener, GiveUp(r)
  PROVE  LocksInv'
<1>1. opener \in [Opener -> OpenerRow]
  BY DEF LocksInv, LocksTypeOK
<1>2. LocksTypeOK'
  BY IdleTyped DEF LocksInv, LocksTypeOK, GiveUp
<1>3. \A s \in Opener : opener'[s].kind = "SWAP" => s # r /\ opener'[s] = opener[s]
  BY <1>1, IdleTyped DEF GiveUp
<1>4. OpenPrj' = OpenPrj /\ UNCHANGED <<prj, crowded, ownerPlan, plain>>
  BY DEF GiveUp, OpenPrj
<1>5. CASE opener[r].kind = "SWAP"
  <2>1. memberRow'.by = "nobody" /\ \A s \in Opener : opener'[s].kind # "SWAP"
    BY <1>3, <1>5, IdleTyped DEF LocksInv, SwapsAlone, GiveUp
  <2> QED BY <1>2, <1>4, <2>1 DEF LocksInv, SwapsAlone, SwapsKnown, SwapsFit, PlanFits
<1>6. CASE opener[r].kind # "SWAP"
  <2>1. UNCHANGED memberRow
    BY <1>6 DEF GiveUp
  <2> QED BY <1>2, <1>3, <1>4, <2>1, OpensNothing
<1> QED BY <1>5, <1>6

LEMMA SwapDecides ==
  ASSUME LocksInv, NEW r \in Opener, NEW p \in Prj, NEW closes \in SUBSET Prj,
         SwapDecide(r, p, closes)
  PROVE  LocksInv'
<1>1. PICK over \in OverLimit(p, closes) :
        opener' = [opener EXCEPT ![r] =
                     [kind |-> "SWAP", of |-> {p}, closes |-> closes, opens |-> ~over]]
  BY DEF SwapDecide
<1> DEFINE row == [kind |-> "SWAP", of |-> {p}, closes |-> closes, opens |-> ~over]
<1>2. row \in OpenerRow /\ row.kind = "SWAP" /\ row.of = {p} /\ row.closes = closes
      /\ (row.opens <=> ~over)
  <2>1. (~over) \in BOOLEAN
    OBVIOUS
  <2> QED BY <2>1 DEF OpenerRow
<1> HIDE DEF row
<1>3. opener \in [Opener -> OpenerRow] /\ opener' = [opener EXCEPT ![r] = row]
  BY <1>1 DEF LocksInv, LocksTypeOK, row
<1>4. memberRow.by = "nobody" /\ memberRow'.by = "swap" /\ prj[p] = "LOCKED"
      /\ memberRow' \in [by: {"nobody", "plan", "swap"}, single: SUBSET Prj]
      /\ UNCHANGED <<prj, crowded, ownerPlan, plain>>
  BY DEF SwapDecide, RowTaken
<1>5. LocksTypeOK'
  BY <1>2, <1>3, <1>4 DEF LocksInv, LocksTypeOK
<1>6. \A s \in Opener : opener'[s].kind = "SWAP" => s = r /\ opener'[s] = row
  BY <1>2, <1>3, <1>4 DEF LocksInv, SwapsAlone
<1>7. OpenPrj' = OpenPrj
  BY <1>4 DEF OpenPrj
<1>8. SwapsAlone' /\ SwapsKnown' /\ PlanFits'
  BY <1>2, <1>4, <1>6 DEF SwapsAlone, SwapsKnown, PlanFits
<1>9. ownerPlan # "PAID" /\ ~over => OpenPrj \subseteq closes \cup {p}
  BY Limit DEF OverLimit
<1>10. SwapsFit'
  BY <1>2, <1>4, <1>6, <1>7, <1>9 DEF SwapsFit
<1> QED BY <1>4, <1>5, <1>7, <1>8, <1>10 DEF LocksInv

LEMMA SwapCommits ==
  ASSUME LocksInv, NEW r \in Opener, SwapCommit(r)
  PROVE  LocksInv'
<1>1. opener \in [Opener -> OpenerRow] /\ prj \in [Prj -> {"NONE", "OPEN", "LOCKED", "DELETED"}]
      /\ opener[r].kind = "SWAP" /\ memberRow'.by = "nobody" /\ UNCHANGED <<crowded, ownerPlan, plain>>
  BY IdleTyped DEF LocksInv, LocksTypeOK, SwapCommit
<1>2. Swapped(r) \in [Prj -> {"NONE", "OPEN", "LOCKED", "DELETED"}]
  BY <1>1 DEF Swapped
<1>3. LocksTypeOK'
  BY <1>1, <1>2, IdleTyped DEF LocksInv, LocksTypeOK, SwapCommit
<1>4. \A s \in Opener : opener'[s].kind # "SWAP"
  BY <1>1, IdleTyped DEF LocksInv, SwapsAlone, SwapCommit
<1>5. ownerPlan' = "FREE" /\ ~plain' => AtMostOne(OpenPrj')
  <2>1. CASE opener[r].opens
    <3>1. PICK p \in Prj : opener[r].of = {p}
      BY <1>1 DEF LocksInv, SwapsKnown
    <3>2. ASSUME ownerPlan = "FREE", ~plain PROVE OpenPrj' \subseteq {p}
      <4>1. OpenPrj \subseteq opener[r].closes \cup {p}
        BY <1>1, <2>1, <3>1, <3>2 DEF LocksInv, SwapsFit
      <4>2. prj' = Swapped(r)
        BY <2>1 DEF SwapCommit
      <4> QED BY <3>1, <4>1, <4>2 DEF Swapped, OpenPrj
    <3> QED BY <1>1, <3>2 DEF AtMostOne
  <2>2. CASE ~opener[r].opens
    BY <1>1, <2>2 DEF SwapCommit, LocksInv, OpenPrj
  <2> QED BY <2>1, <2>2
<1> QED BY <1>1, <1>3, <1>4, <1>5 DEF LocksInv, SwapsAlone, SwapsKnown, SwapsFit, PlanFits

(* ------------------------------- The plan --------------------------------- *)
LEMMA PlanChanges ==
  ASSUME LocksInv, Upgrade \/ PlanLapses
  PROVE  LocksInv'
<1>1. memberRow.by = "nobody" /\ UNCHANGED <<crowded, opener, memberRow, plain>>
      /\ ownerPlan' \in {"PAID", "LAPSED"}
  BY DEF Upgrade, PlanLapses
<1>2. LocksTypeOK'
  BY DEF LocksInv, LocksTypeOK, Upgrade, PlanLapses, Plan
<1>3. \A r \in Opener : opener[r].kind # "SWAP"
  BY <1>1 DEF LocksInv, SwapsAlone
<1> QED BY <1>1, <1>2, <1>3 DEF LocksInv, SwapsAlone, SwapsKnown, SwapsFit, PlanFits

LEMMA DowngradeDecides ==
  ASSUME LocksInv, DowngradeDecide
  PROVE  LocksInv'
<1>1. memberRow.by = "nobody" /\ memberRow'.by = "plan" /\ UNCHANGED <<crowded, ownerPlan, opener, plain>>
      /\ ownerPlan' # "FREE"
      /\ memberRow'.single = (IF Cardinality(Live) = 1 THEN Live \ crowded ELSE {})
      /\ prj' = [p \in Prj |-> IF prj[p] = "OPEN" THEN "LOCKED" ELSE prj[p]]
  BY DEF DowngradeDecide
<1>2. Live \ crowded \in SUBSET Prj
  BY DEF Live
<1>3. memberRow' \in [by: {"nobody", "plan", "swap"}, single: SUBSET Prj]
  BY <1>2 DEF DowngradeDecide
<1>4. LocksTypeOK'
  BY <1>1, <1>3 DEF LocksInv, LocksTypeOK
<1>5. \A r \in Opener : opener'[r].kind # "SWAP"
  BY <1>1 DEF LocksInv, SwapsAlone
<1>6. OpenPrj' = {}
  BY <1>1 DEF OpenPrj
<1>7. AtMostOne(memberRow'.single)
  <2>1. CASE Cardinality(Live) = 1
    <3>1. IsFiniteSet(Live)
      BY LocksAssumption, FS_Subset DEF Live
    <3>2. AtMostOne(Live)
      BY <2>1, <3>1, CountsOne
    <3> QED BY <1>1, <2>1, <3>2 DEF AtMostOne
  <2>2. CASE Cardinality(Live) # 1
    BY <1>1, <2>2 DEF AtMostOne
  <2> QED BY <2>1, <2>2
<1> QED BY <1>1, <1>4, <1>5, <1>6, <1>7 DEF LocksInv, SwapsAlone, SwapsKnown, SwapsFit, PlanFits

LEMMA DowngradeCommits ==
  ASSUME LocksInv, DowngradeCommit
  PROVE  LocksInv'
<1>1. memberRow.by = "plan" /\ ownerPlan' = "FREE" /\ memberRow'.by = "nobody"
      /\ UNCHANGED <<crowded, opener, plain>>
  BY IdleTyped DEF DowngradeCommit
<1>2. LocksTypeOK'
  BY IdleTyped DEF LocksInv, LocksTypeOK, DowngradeCommit, Plan
<1>3. \A r \in Opener : opener'[r].kind # "SWAP"
  BY <1>1 DEF LocksInv, SwapsAlone
<1>4. ~plain' => OpenPrj' \subseteq memberRow.single
  <2> SUFFICES ASSUME ~plain PROVE OpenPrj' \subseteq memberRow.single
    BY <1>1
  <2>1. OpenPrj = {}
    BY <1>1 DEF LocksInv, PlanFits
  <2> QED BY <2>1 DEF DowngradeCommit, OpenPrj
<1>5. AtMostOne(memberRow.single)
  BY <1>1 DEF LocksInv, PlanFits
<1>6. ~plain' => AtMostOne(OpenPrj')
  BY <1>4, <1>5 DEF AtMostOne
<1> QED BY <1>1, <1>2, <1>3, <1>6 DEF LocksInv, SwapsAlone, SwapsKnown, SwapsFit, PlanFits

LEMMA OwnersAndEditors ==
  ASSUME LocksInv, NEW p \in Prj, DeletePrj(p) \/ EditorsChange(p)
  PROVE  LocksInv'
<1>1. LocksTypeOK'
  BY DEF LocksInv, LocksTypeOK, DeletePrj, EditorsChange
<1>2. UNCHANGED <<ownerPlan, memberRow, opener, plain>>
  BY DEF DeletePrj, EditorsChange
<1>3. prj \in [Prj -> {"NONE", "OPEN", "LOCKED", "DELETED"}]
  BY DEF LocksInv, LocksTypeOK
<1>4. OpenPrj' \subseteq OpenPrj /\ \A q \in Prj : prj'[q] = "NONE" => prj[q] = "NONE"
  BY <1>3 DEF OpenPrj, DeletePrj, EditorsChange
<1> QED BY <1>1, <1>2, <1>4, OpensNothing

LEMMA LocksStep == LocksInv /\ [LocksNext]_lockVars => LocksInv'
<1> SUFFICES ASSUME LocksInv, [LocksNext]_lockVars PROVE LocksInv'
  OBVIOUS
<1>1. CASE UNCHANGED lockVars
  BY <1>1 DEF lockVars, LocksInv, LocksTypeOK, SwapsAlone, SwapsKnown, SwapsFit, PlanFits, OpenPrj
<1>2. ASSUME NEW r \in Opener, NEW p \in Prj,
             \/ DecideUnlock(r, p) \/ DecideCreate(r, p) \/ DecideRestore(r, p)
             \/ \E closes \in SUBSET Prj : SwapDecide(r, p, closes)
      PROVE  LocksInv'
  BY <1>2, PlainDecides, SwapDecides
<1>3. ASSUME NEW r \in Opener, WritePlain(r) \/ GiveUp(r) \/ SwapCommit(r) PROVE LocksInv'
  BY <1>3, PlainWrites, GivesUp, SwapCommits
<1>4. CASE Upgrade \/ PlanLapses \/ DowngradeDecide \/ DowngradeCommit
  BY <1>4, PlanChanges, DowngradeDecides, DowngradeCommits
<1>5. ASSUME NEW p \in Prj, DeletePrj(p) \/ EditorsChange(p) PROVE LocksInv'
  BY <1>5, OwnersAndEditors
<1> QED BY <1>1, <1>2, <1>3, <1>4, <1>5 DEF LocksNext

(* lock.ts: for any number of projects and requests, the owner of a free plan  *)
(* has at most one open project, unless a write without the owner's row landed *)
(* beside another decision.                                                    *)
THEOREM OneOpen == LocksSpec => []OneOpenUnlessPlain
<1>1. LocksInv => OneOpenUnlessPlain
  BY OneCounts DEF LocksInv, OneOpenUnlessPlain
<1> QED BY <1>1, LocksInitInv, LocksStep, PTL DEF LocksSpec

(* swapOpenProject: no exchange only closes.                                   *)
THEOREM SwapsOpen == LocksSpec => ClosedForAnother
<1> DEFINE Closes == \E p \in Prj : prj[p] = "OPEN" /\ prj'[p] = "LOCKED"
           Opens == \E q \in Prj : (prj[q] \in {"LOCKED", "OPEN"} /\ prj'[q] = "OPEN") \/ prj[q] = "DELETED"
<1>1. ASSUME LocksInv, LocksNext, memberRow.by = "swap", memberRow'.by = "nobody", Closes
      PROVE  Opens
  <2>1. PICK r \in Opener : GiveUp(r) \/ SwapCommit(r)
    BY <1>1 DEF LocksNext, DecideUnlock, DecideCreate, DecideRestore, DecideWith, SwapDecide, RowTaken,
                WritePlain, Upgrade, PlanLapses, DowngradeDecide, DowngradeCommit, DeletePrj,
                EditorsChange
  <2>2. SwapCommit(r) /\ opener[r].opens
    BY <1>1, <2>1 DEF GiveUp, SwapCommit
  <2>3. PICK q \in Prj : opener[r].of = {q} /\ prj[q] # "NONE"
    BY <1>1, <2>2 DEF LocksInv, SwapsKnown, SwapCommit
  <2>4. prj[q] \in {"OPEN", "LOCKED", "DELETED"}
    BY <1>1, <2>3 DEF LocksInv, LocksTypeOK
  <2>5. prj[q] \in {"OPEN", "LOCKED"} => prj'[q] = "OPEN"
    BY <2>2, <2>3 DEF SwapCommit, Swapped
  <2> QED BY <2>4, <2>5
<1>2. LocksInv /\ [LocksNext]_lockVars =>
        [memberRow.by = "swap" /\ memberRow'.by = "nobody" /\ Closes => Opens]_lockVars
  BY <1>1
<1> QED BY <1>2, LocksInitInv, LocksStep, PTL DEF LocksSpec, ClosedForAnother

(* ----------------------------- The members -------------------------------- *)
OwnerRow(row) == row.is = "ACTIVE" /\ row.role = "OWNER"
LostOwner(row) == row.is = "REMOVED" /\ row.role = "OWNER"

(* A deletion may take the owner out; then nobody is left to restore him.      *)
OwnersFit ==
  /\ \A m \in Person : OwnerRow(member[m]) => m = project.owner
  /\ (\A m \in Person : ~OwnerRow(member[m])) \/ (\A m \in Person : ~LostOwner(member[m]))
  /\ project.life = "ACTIVE" => OwnerRow(member[project.owner])

(* The date of a row tells who the deletion took out from who was out before.  *)
DatesFit ==
  \A m \in Person :
    /\ m \in project.before => /\ member[m].is # "ACTIVE"
                               /\ member[m].is = "REMOVED" => ~member[m].since
    /\ project.life = "DELETED" /\ m \in project.taken /\ member[m].is = "REMOVED" => member[m].since

(* No question asks for the role of the owner, or to hand it to its owner.     *)
GivesRole(q) == /\ q.kind \in {"ACCEPT", "ROLE"} => q.to # "OWNER"
                /\ q.kind \in {"TRANSFER", "HANDOVER"} => q.of # q.by

MembersInv ==
  /\ MembersTypeOK
  /\ \A a \in Asker : GivesRole(asked[a])
  /\ project.life = "DELETED" => project.once
  /\ ~project.overtaken /\ project.life # "PURGED" => OwnersFit /\ DatesFit

LEMMA NobodyTyped == NobodyAsks \in Asked /\ GivesRole(NobodyAsks)
BY FounderAssumption DEF NobodyAsks, Asked, Kind, Role, GivesRole

LEMMA QuestionTyped == \A q \in Question : q \in Asked /\ (Permitted(q) => GivesRole(q))
<1> SUFFICES ASSUME NEW q \in Questions PROVE q \in Asked /\ (Permitted(q) => GivesRole(q))
  BY DEF Question
<1>1. CASE \E k \in {"ACCEPT", "ROLE"}, m \in Person, n \in Person, t \in OtherRole :
             q = [kind |-> k, by |-> m, of |-> n, to |-> t]
  BY <1>1, FounderAssumption DEF Asked, Kind, Role, GivesRole
<1>2. CASE \E k \in Kind \ {"NONE", "ACCEPT", "ROLE"}, m \in Person, n \in Person :
             q = [kind |-> k, by |-> m, of |-> n, to |-> "MEMBER"]
  BY <1>2, FounderAssumption DEF Asked, Kind, Role, GivesRole, Permitted
<1> QED BY <1>1, <1>2 DEF Questions

LEMMA MembersInitInv == MembersInit => MembersInv
<1> SUFFICES ASSUME MembersInit PROVE MembersInv
  OBVIOUS
<1>1. \A m \in Person :
        /\ member[m] \in MemberRow
        /\ OwnerRow(member[m]) <=> m = Founder
        /\ member[m].is # "REMOVED"
  BY DEF MembersInit, Outsider, MemberRow, OwnerRow, Membership, Role, Invitation
<1>2. project \in Project /\ project.life = "ACTIVE" /\ project.owner = Founder /\ project.before = {}
      /\ project.taken = {}
  BY FounderAssumption DEF MembersInit, Project
<1>3. MembersTypeOK
  BY <1>1, <1>2, NobodyTyped DEF MembersInit, MembersTypeOK
<1>4. \A a \in Asker : GivesRole(asked[a])
  BY NobodyTyped DEF MembersInit
<1> QED BY <1>1, <1>2, <1>3, <1>4, FounderAssumption DEF MembersInv, OwnersFit, DatesFit, LostOwner

(* -------------------- Writes that leave the owner alone ------------------- *)
RowStep(m) ==
  /\ OwnerRow(member'[m]) <=> OwnerRow(member[m])
  /\ LostOwner(member'[m]) => LostOwner(member[m])
  /\ m \in project'.before => m \in project.before
  /\ m \in project'.before /\ member'[m].is = "ACTIVE" => member[m].is = "ACTIVE"
  /\ m \in project'.before /\ member'[m].is = "REMOVED" /\ member'[m].since =>
       member[m].is = "REMOVED" /\ member[m].since
  /\ project.once /\ member'[m].is = "REMOVED" /\ ~member'[m].since =>
       member[m].is = "REMOVED" /\ ~member[m].since

LEMMA OwnerStays ==
  ASSUME MembersInv, MembersTypeOK', \A a \in Asker : GivesRole(asked'[a]),
         project'.life = project.life, project'.owner = project.owner,
         project'.once = project.once, project'.taken = project.taken,
         ~project'.overtaken /\ project.life # "PURGED" =>
           ~project.overtaken /\ \A m \in Person : RowStep(m)
  PROVE  MembersInv'
<1>1. project.owner \in Person
  BY DEF MembersInv, MembersTypeOK, Project
<1>2. ASSUME ~project'.overtaken, project'.life # "PURGED" PROVE OwnersFit' /\ DatesFit'
  <2>1. OwnersFit /\ DatesFit /\ \A m \in Person : RowStep(m)
    BY <1>2 DEF MembersInv
  <2>2. OwnersFit'
    BY <1>1, <2>1 DEF OwnersFit, RowStep
  <2>3. DatesFit'
    BY <2>1 DEF DatesFit, RowStep, MembersInv
  <2> QED BY <2>2, <2>3
<1> QED BY <1>2 DEF MembersInv

LEMMA SameRow == ASSUME NEW m \in Person, member'[m] = member[m], project'.before \subseteq project.before
                 PROVE  RowStep(m)
BY DEF RowStep

(* What is typed, and what an answered request leaves behind.                  *)
LEMMA Typed ==
  ASSUME MembersInv
  PROVE  /\ project \in Project /\ member \in [Person -> MemberRow] /\ asked \in [Asker -> Asked]
         /\ \A m \in Person : member[m] \in MemberRow
         /\ \A a \in Asker : asked[a] \in Asked /\ asked[a].by \in Person /\ asked[a].of \in Person
                             /\ GivesRole(asked[a])
                             /\ (Answered(a) => /\ asked' \in [Asker -> Asked] /\ purger' \in {"idle", "loaded"}
                                                /\ \A b \in Asker : GivesRole(asked'[b]))
BY NobodyTyped DEF MembersInv, MembersTypeOK, Asked, Answered

LEMMA NotedTyped ==
  ASSUME MembersInv, NEW a \in Asker, NEW p \in Project, Noted(a, p)
  PROVE  /\ project' \in Project /\ project'.life = p.life /\ project'.owner = p.owner
         /\ project'.once = p.once /\ project'.taken = p.taken /\ project'.before = p.before
         /\ project'.expired = p.expired
         /\ ~project'.overtaken => ~p.overtaken /\ Permitted(asked[a])
<1>1. (p.overtaken \/ ~Permitted(asked[a])) \in BOOLEAN
  OBVIOUS
<1> QED BY <1>1 DEF Noted, Project

LEMMA DatedTyped ==
  ASSUME NEW row \in MemberRow
  PROVE  /\ Dated(row) \in MemberRow /\ Dated(row).is = row.is /\ Dated(row).role = row.role
         /\ Dated(row).since <=> ((Deleting \/ project.once) /\ row.is = "REMOVED")
<1>1. ((Deleting \/ project.once) /\ row.is = "REMOVED") \in BOOLEAN
  OBVIOUS
<1> QED BY <1>1 DEF Dated, MemberRow

(* One row changes.                                                            *)
LEMMA OneRow ==
  ASSUME MembersInv, NEW a \in Asker, NEW n \in Person, NEW row \in MemberRow,
         member' = [member EXCEPT ![n] = row], Answered(a),
         NEW p \in Project, Noted(a, p), p.life = project.life, p.owner = project.owner,
         p.once = project.once, p.taken = project.taken, p.before \subseteq project.before,
         p.overtaken = project.overtaken,
         Permitted(asked[a]) =>
           /\ OwnerRow(row) <=> OwnerRow(member[n])
           /\ LostOwner(row) => LostOwner(member[n])
           /\ n \in p.before => row.is # "ACTIVE" \/ member[n].is = "ACTIVE"
           /\ n \in p.before /\ row.is = "REMOVED" /\ row.since =>
                member[n].is = "REMOVED" /\ member[n].since
           /\ project.once /\ row.is = "REMOVED" /\ ~row.since =>
                member[n].is = "REMOVED" /\ ~member[n].since
  PROVE  MembersInv'
<1>1. /\ project' \in Project /\ project'.life = project.life /\ project'.owner = project.owner
      /\ project'.once = project.once /\ project'.taken = project.taken /\ project'.before = p.before
      /\ ~project'.overtaken => ~project.overtaken /\ Permitted(asked[a])
  BY NotedTyped
<1>2. /\ asked' \in [Asker -> Asked] /\ purger' \in {"idle", "loaded"}
      /\ \A b \in Asker : GivesRole(asked'[b])
      /\ member \in [Person -> MemberRow]
  BY Typed
<1>3. MembersTypeOK'
  BY <1>1, <1>2 DEF MembersTypeOK
<1>4. ASSUME Permitted(asked[a]), NEW m \in Person PROVE RowStep(m)
  <2>1. CASE m = n
    BY <1>1, <1>2, <1>4, <2>1 DEF RowStep
  <2>2. CASE m # n
    BY <1>1, <1>2, <2>2, SameRow
  <2> QED BY <2>1, <2>2
<1> QED BY <1>1, <1>2, <1>3, <1>4, OwnerStays

LEMMA Accepts ==
  ASSUME MembersInv, NEW a \in Asker, AcceptInvitation(a)
  PROVE  MembersInv'
<1> DEFINE n == asked[a].by
           row == [member[n] EXCEPT !.is = "ACTIVE", !.role = asked[a].to, !.invite = "NONE"]
           p == [project EXCEPT !.before = project.before \ {n}]
<1>1. n \in Person /\ project \in Project /\ member[n] \in MemberRow /\ asked[a] \in Asked
      /\ asked[a].kind = "ACCEPT" /\ asked[a].to # "OWNER"
  BY Typed DEF AcceptInvitation, Writes, GivesRole
<1>2. row \in MemberRow /\ row.is = "ACTIVE" /\ row.role # "OWNER"
  BY <1>1 DEF MemberRow, Membership, Invitation, Asked
<1>3. p \in Project /\ p.life = project.life /\ p.owner = project.owner /\ p.once = project.once
      /\ p.taken = project.taken /\ p.before \subseteq project.before /\ n \notin p.before
      /\ p.overtaken = project.overtaken
  BY <1>1 DEF Project
<1>4. member' = [member EXCEPT ![n] = row] /\ Noted(a, p) /\ Answered(a)
  BY DEF AcceptInvitation
<1>5. Permitted(asked[a]) => member[n].is # "ACTIVE"
  BY <1>1 DEF Permitted, ActiveMember
<1> HIDE DEF n, row, p
<1> QED BY <1>1, <1>2, <1>3, <1>4, <1>5, OneRow DEF OwnerRow, LostOwner

LEMMA KeepsProject ==
  ASSUME MembersInv
  PROVE  /\ project \in Project /\ project.before \subseteq project.before
BY Typed

LEMMA ChangesRole ==
  ASSUME MembersInv, NEW a \in Asker, ChangeRole(a)
  PROVE  MembersInv'
<1> DEFINE n == asked[a].of
           row == [member[n] EXCEPT !.role = asked[a].to]
<1>1. n \in Person /\ project \in Project /\ member[n] \in MemberRow /\ asked[a] \in Asked
      /\ asked[a].kind = "ROLE" /\ asked[a].to # "OWNER"
  BY Typed DEF ChangeRole, Writes, GivesRole
<1>2. row \in MemberRow /\ row.is = member[n].is /\ row.role # "OWNER"
  BY <1>1 DEF MemberRow, Asked
<1>3. member' = [member EXCEPT ![n] = Dated(row)] /\ Noted(a, project) /\ Answered(a)
  BY DEF ChangeRole
<1>4. Permitted(asked[a]) => member[n].is = "ACTIVE" /\ member[n].role # "OWNER"
  BY <1>1 DEF Permitted, ActiveMember
<1> HIDE DEF n, row
<1>5. Dated(row) \in MemberRow /\ Dated(row).is = row.is /\ Dated(row).role = row.role
  BY <1>2, DatedTyped
<1> QED BY <1>1, <1>2, <1>3, <1>4, <1>5, OneRow DEF OwnerRow, LostOwner

LEMMA RemovedStep ==
  ASSUME MembersInv, NEW a \in Asker, RemoveMember(a)
  PROVE  MembersInv'
<1> DEFINE n == asked[a].of
           row == [member[n] EXCEPT !.is = "REMOVED"]
<1>1. n \in Person /\ project \in Project /\ member[n] \in MemberRow /\ asked[a].kind = "REMOVE"
  BY Typed DEF RemoveMember, Writes
<1>2. row \in MemberRow /\ row.is = "REMOVED" /\ row.role = member[n].role
  BY <1>1 DEF MemberRow, Membership
<1>3. member' = [member EXCEPT ![n] = Dated(row)] /\ Noted(a, project) /\ Answered(a)
      /\ ~project.overtaken /\ project.life # "PURGED"
  BY DEF RemoveMember, Writes, Exists, Followed
<1>4. Permitted(asked[a]) => member[n].is = "ACTIVE" /\ member[n].role # "OWNER"
  BY <1>1 DEF Permitted, ActiveMember
<1>5. member[n].is = "ACTIVE" => n \notin project.before
  BY <1>1, <1>3 DEF MembersInv, DatesFit
<1> HIDE DEF n, row
<1>6. Dated(row) \in MemberRow /\ Dated(row).is = row.is /\ Dated(row).role = row.role
      /\ (project.once => Dated(row).since)
  BY <1>2, DatedTyped
<1> QED BY <1>1, <1>2, <1>3, <1>4, <1>5, <1>6, OneRow DEF OwnerRow, LostOwner

LEMMA Leaves ==
  ASSUME MembersInv, NEW a \in Asker, Leave(a)
  PROVE  MembersInv'
<1> DEFINE n == asked[a].by
           row == [member[n] EXCEPT !.is = "LEFT"]
<1>1. n \in Person /\ project \in Project /\ member[n] \in MemberRow /\ asked[a].kind = "LEAVE"
  BY Typed DEF Leave, Writes
<1>2. row \in MemberRow /\ row.is = "LEFT" /\ row.role = member[n].role
  BY <1>1 DEF MemberRow, Membership
<1>3. member' = [member EXCEPT ![n] = Dated(row)] /\ Noted(a, project) /\ Answered(a)
  BY DEF Leave
<1>4. Permitted(asked[a]) => member[n].role # "OWNER"
  BY <1>1 DEF Permitted
<1> HIDE DEF n, row
<1>5. Dated(row) \in MemberRow /\ Dated(row).is = row.is /\ Dated(row).role = row.role
  BY <1>2, DatedTyped
<1> QED BY <1>1, <1>2, <1>3, <1>4, <1>5, OneRow DEF OwnerRow, LostOwner

(* --------------------- Writes that change the owner ----------------------- *)
(* Two rows change: n becomes the owner, k is it no longer.                    *)
LEMMA NewOwner ==
  ASSUME MembersInv, NEW a \in Asker, NEW n \in Person, NEW k \in Person,
         NEW r1 \in MemberRow, NEW r2 \in MemberRow,
         member' = [member EXCEPT ![n] = r1, ![k] = r2], Answered(a),
         NEW p \in Project, Noted(a, p), p.life = project.life, p.owner = n,
         p.once = project.once, p.taken = project.taken, p.before = project.before,
         p.overtaken = project.overtaken, p.life # "PURGED",
         Permitted(asked[a]) =>
           /\ n # k /\ OwnerRow(member[k]) /\ member[n].is = "ACTIVE"
           /\ OwnerRow(r1) /\ ~OwnerRow(r2) /\ r2.is # "REMOVED"
  PROVE  MembersInv'
<1>1. /\ project' \in Project /\ project'.life = project.life /\ project'.owner = n
      /\ project'.once = project.once /\ project'.taken = project.taken
      /\ project'.before = project.before
      /\ ~project'.overtaken => ~project.overtaken /\ Permitted(asked[a])
  BY NotedTyped
<1>2. /\ asked' \in [Asker -> Asked] /\ purger' \in {"idle", "loaded"}
      /\ \A b \in Asker : GivesRole(asked'[b])
      /\ member \in [Person -> MemberRow]
  BY Typed
<1>3. MembersTypeOK'
  BY <1>1, <1>2 DEF MembersTypeOK
<1>4. ASSUME ~project'.overtaken PROVE OwnersFit' /\ DatesFit'
  <2>1. OwnersFit /\ DatesFit /\ n # k /\ OwnerRow(member[k]) /\ member[n].is = "ACTIVE"
        /\ OwnerRow(r1) /\ ~OwnerRow(r2) /\ r2.is # "REMOVED"
    BY <1>1, <1>4 DEF MembersInv
  <2>2. member'[n] = r1 /\ member'[k] = r2 /\ \A m \in Person \ {n, k} : member'[m] = member[m]
    BY <1>2, <2>1
  <2>3. \A m \in Person \ {n, k} : ~OwnerRow(member[m]) /\ ~LostOwner(member[m])
    BY <2>1 DEF OwnersFit
  <2>4. \A m \in Person \ {n, k} : ~OwnerRow(member'[m]) /\ ~LostOwner(member'[m])
    BY <2>2, <2>3
  <2>5. ~LostOwner(r1) /\ ~LostOwner(r2) /\ r1.is = "ACTIVE"
    BY <2>1 DEF LostOwner, OwnerRow
  <2>6. OwnersFit'
    <3>1. \A m \in Person : OwnerRow(member'[m]) => m = n
      BY <2>1, <2>2, <2>4
    <3>2. \A m \in Person : ~LostOwner(member'[m])
      BY <2>2, <2>4, <2>5
    <3>3. OwnerRow(member'[n])
      BY <2>1, <2>2
    <3> QED BY <1>1, <3>1, <3>2, <3>3 DEF OwnersFit
  <2>7. n \notin project.before /\ k \notin project.before
    BY <2>1 DEF DatesFit, OwnerRow
  <2>8. DatesFit'
    <3> SUFFICES ASSUME NEW m \in Person
                 PROVE  /\ m \in project'.before => /\ member'[m].is # "ACTIVE"
                                                    /\ member'[m].is = "REMOVED" => ~member'[m].since
                        /\ project'.life = "DELETED" /\ m \in project'.taken /\ member'[m].is = "REMOVED" =>
                             member'[m].since
      BY DEF DatesFit
    <3>1. CASE m \in {n, k}
      BY <1>1, <2>1, <2>2, <2>5, <2>7, <3>1
    <3>2. CASE m \notin {n, k}
      <4>1. member'[m] = member[m]
        BY <2>2, <3>2
      <4> QED BY <1>1, <2>1, <4>1 DEF DatesFit
    <3> QED BY <3>1, <3>2
  <2> QED BY <2>6, <2>8
<1> QED BY <1>1, <1>2, <1>3, <1>4 DEF MembersInv

LEMMA Transfers ==
  ASSUME MembersInv, NEW a \in Asker, TransferOwnership(a)
  PROVE  MembersInv'
<1> DEFINE n == asked[a].of
           k == asked[a].by
           s1 == [member[n] EXCEPT !.role = "OWNER"]
           s2 == [member[k] EXCEPT !.role = "ADMIN"]
           p == [project EXCEPT !.owner = n]
<1>1. n \in Person /\ k \in Person /\ project \in Project /\ member \in [Person -> MemberRow]
      /\ member[n] \in MemberRow /\ member[k] \in MemberRow
      /\ asked[a].kind = "TRANSFER" /\ project.life # "PURGED"
  BY Typed DEF TransferOwnership, Writes, Exists
<1>2. s1 \in MemberRow /\ s1.is = member[n].is /\ s1.role = "OWNER"
      /\ s2 \in MemberRow /\ s2.is = member[k].is /\ s2.role = "ADMIN"
  BY <1>1 DEF MemberRow, Role
<1>3. p \in Project /\ p.life = project.life /\ p.owner = n /\ p.once = project.once
      /\ p.taken = project.taken /\ p.before = project.before /\ p.overtaken = project.overtaken
  BY <1>1 DEF Project
<1>4. Permitted(asked[a]) => /\ member[n].is = "ACTIVE" /\ member[n].role # "OWNER"
                             /\ member[k].is = "ACTIVE" /\ member[k].role = "OWNER"
  BY <1>1 DEF Permitted, ActiveMember
<1>5. Noted(a, p) /\ Answered(a)
  BY DEF TransferOwnership
<1>6. n # k
  BY <1>1, Typed DEF GivesRole
<1>7. member' = [member EXCEPT ![n] = Dated(s1), ![k] = Dated(s2)]
  BY <1>1, <1>6 DEF TransferOwnership
<1> HIDE DEF n, k, s1, s2, p
<1>8. /\ Dated(s1) \in MemberRow /\ Dated(s1).is = s1.is /\ Dated(s1).role = s1.role
      /\ Dated(s2) \in MemberRow /\ Dated(s2).is = s2.is /\ Dated(s2).role = s2.role
  BY <1>2, DatedTyped
<1>9. Permitted(asked[a]) =>
        /\ n # k /\ OwnerRow(member[k]) /\ member[n].is = "ACTIVE"
        /\ OwnerRow(Dated(s1)) /\ ~OwnerRow(Dated(s2)) /\ Dated(s2).is # "REMOVED"
  BY <1>2, <1>4, <1>6, <1>8 DEF OwnerRow
<1> QED BY <1>1, <1>3, <1>5, <1>7, <1>8, <1>9, NewOwner

LEMMA HandsOver ==
  ASSUME MembersInv, NEW a \in Asker, TransferAndLeave(a)
  PROVE  MembersInv'
<1> DEFINE n == asked[a].of
           k == asked[a].by
           s1 == [member[n] EXCEPT !.role = "OWNER"]
           s2 == [member[k] EXCEPT !.is = "LEFT"]
           p == [project EXCEPT !.owner = n]
<1>1. n \in Person /\ k \in Person /\ project \in Project /\ member \in [Person -> MemberRow]
      /\ member[n] \in MemberRow /\ member[k] \in MemberRow
      /\ asked[a].kind = "HANDOVER" /\ project.life # "PURGED"
  BY Typed DEF TransferAndLeave, Writes, Exists
<1>2. s1 \in MemberRow /\ s1.is = member[n].is /\ s1.role = "OWNER"
      /\ s2 \in MemberRow /\ s2.is = "LEFT"
  BY <1>1 DEF MemberRow, Role, Membership
<1>3. p \in Project /\ p.life = project.life /\ p.owner = n /\ p.once = project.once
      /\ p.taken = project.taken /\ p.before = project.before /\ p.overtaken = project.overtaken
  BY <1>1 DEF Project
<1>4. Permitted(asked[a]) => /\ member[n].is = "ACTIVE"
                             /\ member[k].is = "ACTIVE" /\ member[k].role = "OWNER"
  BY <1>1 DEF Permitted, ActiveMember
<1>5. Noted(a, p) /\ Answered(a)
  BY DEF TransferAndLeave
<1>6. n # k
  BY <1>1, Typed DEF GivesRole
<1>7. member' = [member EXCEPT ![n] = Dated(s1), ![k] = Dated(s2)]
  BY <1>1, <1>6 DEF TransferAndLeave
<1> HIDE DEF n, k, s1, s2, p
<1>8. /\ Dated(s1) \in MemberRow /\ Dated(s1).is = s1.is /\ Dated(s1).role = s1.role
      /\ Dated(s2) \in MemberRow /\ Dated(s2).is = s2.is /\ Dated(s2).role = s2.role
  BY <1>2, DatedTyped
<1>9. Permitted(asked[a]) =>
        /\ n # k /\ OwnerRow(member[k]) /\ member[n].is = "ACTIVE"
        /\ OwnerRow(Dated(s1)) /\ ~OwnerRow(Dated(s2)) /\ Dated(s2).is # "REMOVED"
  BY <1>2, <1>4, <1>6, <1>8 DEF OwnerRow
<1> QED BY <1>1, <1>3, <1>5, <1>7, <1>8, <1>9, NewOwner

(* ---------------- Questions, and writes without a check ------------------- *)
LEMMA AskedStep ==
  ASSUME MembersInv, NEW a \in Asker, NEW q \in Question, Ask(a, q)
  PROVE  MembersInv'
<1>1. q \in Asked /\ GivesRole(q) /\ asked' = [asked EXCEPT ![a] = q] /\ purger' = purger
  BY QuestionTyped DEF Ask
<1>2. asked' \in [Asker -> Asked] /\ \A b \in Asker : GivesRole(asked'[b])
  BY <1>1, Typed DEF MembersInv, MembersTypeOK
<1>3. CASE UNCHANGED <<project, member>>
  <2>1. MembersTypeOK'
    BY <1>1, <1>2, <1>3 DEF MembersInv, MembersTypeOK
  <2> QED BY <1>2, <1>3, <2>1, Typed, OwnerStays, SameRow
<1>4. CASE /\ q.kind = "DELETE"
           /\ project' = [project EXCEPT !.before = Removed]
           /\ member' = [m \in Person |-> [member[m] EXCEPT !.since = FALSE]]
  <2>1. project.life = "ACTIVE"
    BY <1>4 DEF Ask, Permitted
  <2>2. /\ project' \in Project /\ project'.life = "ACTIVE" /\ project'.owner = project.owner
        /\ project'.overtaken = project.overtaken /\ project'.before = Removed
    BY <1>4, <2>1, Typed DEF Project, Removed
  <2>3. \A m \in Person : /\ member'[m] \in MemberRow /\ member'[m].is = member[m].is
                           /\ member'[m].role = member[m].role /\ member'[m].since = FALSE
    <3>1. SUFFICES ASSUME NEW m \in Person
                   PROVE  /\ member'[m] \in MemberRow /\ member'[m].is = member[m].is
                          /\ member'[m].role = member[m].role /\ member'[m].since = FALSE
      OBVIOUS
    <3>2. member'[m] = [member[m] EXCEPT !.since = FALSE] /\ member[m] \in MemberRow
      BY <1>4, Typed
    <3> QED BY <3>2 DEF MemberRow
  <2>4. member' \in [Person -> MemberRow]
    BY <1>4, <2>3
  <2>5. MembersTypeOK'
    BY <1>1, <1>2, <2>2, <2>4 DEF MembersInv, MembersTypeOK
  <2>6. project.owner \in Person
    BY Typed DEF Project
  <2>7. ASSUME OwnersFit PROVE OwnersFit'
    BY <2>1, <2>2, <2>3, <2>6, <2>7 DEF OwnersFit, OwnerRow, LostOwner
  <2>8. DatesFit'
    BY <2>2, <2>3 DEF DatesFit, Removed
  <2> QED BY <1>2, <2>1, <2>2, <2>5, <2>7, <2>8 DEF MembersInv
<1> QED BY <1>3, <1>4 DEF Ask

(* Only what the other parts of the invariant do not read.                     *)
LEMMA ProjectStays ==
  ASSUME MembersInv, UNCHANGED <<asked, purger>>, project' \in Project, member' \in [Person -> MemberRow],
         project'.life = project.life, project'.owner = project.owner,
         project'.once = project.once, project'.taken = project.taken,
         project'.overtaken = project.overtaken, project'.before = project.before,
         ~project.overtaken /\ project.life # "PURGED" => \A m \in Person : RowStep(m)
  PROVE  MembersInv'
<1>1. MembersTypeOK' /\ \A a \in Asker : GivesRole(asked'[a])
  BY DEF MembersInv, MembersTypeOK
<1> QED BY <1>1, OwnerStays

LEMMA Invites ==
  ASSUME MembersInv, NEW m \in Person, NEW to \in Invitation, SetInvitation(m, to)
  PROVE  MembersInv'
<1> DEFINE row == [member[m] EXCEPT !.invite = to]
<1>1. project \in Project /\ member \in [Person -> MemberRow] /\ member[m] \in MemberRow
      /\ project.before \subseteq project.before
  BY Typed
<1>2. row \in MemberRow /\ row.is = member[m].is /\ row.role = member[m].role /\ row.since = member[m].since
  BY <1>1 DEF MemberRow
<1>3. member' = [member EXCEPT ![m] = row] /\ UNCHANGED <<project, asked, purger>>
  BY DEF SetInvitation
<1> HIDE DEF row
<1>4. \A n \in Person : RowStep(n)
  <2> TAKE n \in Person
  <2>1. CASE n = m
    BY <1>1, <1>2, <1>3, <2>1 DEF RowStep, OwnerRow, LostOwner
  <2>2. CASE n # m
    BY <1>1, <1>3, <2>2, SameRow
  <2> QED BY <2>1, <2>2
<1>5. member' \in [Person -> MemberRow]
  BY <1>1, <1>2, <1>3
<1> QED BY <1>1, <1>3, <1>4, <1>5, ProjectStays

(* ------------------------ Deletion and restoration ------------------------ *)
LEMMA Deletes ==
  ASSUME MembersInv, NEW a \in Asker, DeleteProject(a)
  PROVE  MembersInv'
<1> DEFINE by == asked[a].by
           gone == {m \in Person : ActiveMember(m)} \ {by}
<1>1. PICK later \in BOOLEAN : SoftDeleted(gone, later)
  BY DEF DeleteProject
<1>2. project \in Project /\ by \in Person /\ Answered(a) /\ ~project.overtaken /\ project.life # "PURGED"
  BY Typed DEF DeleteProject, Writes, Exists, Followed
<1>3. \A m \in Person : m \in gone <=> member[m].is = "ACTIVE" /\ m # by
  BY DEF ActiveMember
<1>4. gone \subseteq Person
  OBVIOUS
<1> HIDE DEF gone, by
<1>5. (project.overtaken \/ project.life # "ACTIVE") \in BOOLEAN
  OBVIOUS
<1>6. /\ project' \in Project /\ project'.life = "DELETED" /\ project'.owner = project.owner
      /\ project'.once = TRUE /\ project'.taken = gone /\ project'.before = project.before
      /\ project'.overtaken <=> project.life # "ACTIVE"
  BY <1>1, <1>2, <1>4, <1>5 DEF SoftDeleted, Project
<1>7. \A m \in Person :
        /\ member'[m] \in MemberRow /\ member'[m].role = member[m].role
        /\ m \in gone => member'[m].is = "REMOVED" /\ member'[m].since
        /\ m \notin gone => member'[m].is = member[m].is /\ (member'[m].since => member[m].since)
  <2> TAKE m \in Person
  <2>1. CASE m \in gone
    <3>1. member'[m] = [member[m] EXCEPT !.is = "REMOVED", !.since = TRUE] /\ member[m] \in MemberRow
      BY <1>1, <2>1, Typed DEF SoftDeleted
    <3> QED BY <2>1, <3>1 DEF MemberRow, Membership
  <2>2. CASE m \notin gone
    <3>1. member'[m] = [member[m] EXCEPT !.since = @ /\ ~later] /\ member[m] \in MemberRow
      BY <1>1, <2>2, Typed DEF SoftDeleted
    <3>2. (member[m].since /\ ~later) \in BOOLEAN
      OBVIOUS
    <3> QED BY <2>2, <3>1, <3>2 DEF MemberRow
  <2> QED BY <2>1, <2>2
<1>8. member' \in [Person -> MemberRow]
  BY <1>1, <1>7 DEF SoftDeleted
<1>9. /\ asked' \in [Asker -> Asked] /\ purger' \in {"idle", "loaded"}
      /\ \A b \in Asker : GivesRole(asked'[b])
  BY <1>2, Typed
<1>10. ASSUME ~project'.overtaken PROVE OwnersFit' /\ DatesFit'
  <2>1. OwnersFit /\ DatesFit /\ OwnerRow(member[project.owner]) /\ project.owner \in Person
    BY <1>2, <1>6, <1>10 DEF MembersInv, OwnersFit, Project
  <2>2. \A m \in Person : OwnerRow(member'[m]) => OwnerRow(member[m]) /\ m = by
    BY <1>3, <1>7 DEF OwnerRow
  <2>3. \A m \in Person : LostOwner(member'[m]) => m = project.owner /\ m # by
    <3> TAKE m \in Person
    <3>1. ~LostOwner(member[m])
      BY <2>1 DEF OwnersFit
    <3> QED BY <1>3, <1>7, <2>1, <3>1 DEF OwnersFit, OwnerRow, LostOwner
  <2>4. OwnersFit'
    <3>1. \A m \in Person : OwnerRow(member'[m]) => m = project.owner
      BY <2>1, <2>2 DEF OwnersFit
    <3> QED BY <1>6, <2>2, <2>3, <3>1 DEF OwnersFit
  <2>5. DatesFit'
    BY <1>3, <1>6, <1>7, <2>1 DEF DatesFit
  <2> QED BY <2>4, <2>5
<1> QED BY <1>6, <1>8, <1>9, <1>10 DEF MembersInv, MembersTypeOK

LEMMA RestoresRow ==
  ASSUME MembersInv, NEW a \in Asker, RestoreProject(a), NEW m \in Person
  PROVE  /\ member'[m] \in MemberRow /\ member'[m].role = member[m].role
         /\ Restored(m) => member'[m].is = "ACTIVE"
         /\ ~Restored(m) => member'[m].is = member[m].is
<1>1. member'[m] = [member[m] EXCEPT !.is = IF Restored(m) THEN "ACTIVE" ELSE @, !.since = TRUE]
      /\ member[m] \in MemberRow
  BY Typed DEF RestoreProject
<1> QED BY <1>1 DEF MemberRow, Membership

LEMMA Restores ==
  ASSUME MembersInv, NEW a \in Asker, RestoreProject(a)
  PROVE  MembersInv'
<1> DEFINE p == [project EXCEPT !.life = "ACTIVE", !.expired = FALSE, !.taken = {}, !.before = {}]
<1>1. project \in Project /\ Answered(a) /\ Noted(a, p) /\ project.life # "PURGED" /\ ~project.overtaken
      /\ asked[a].kind = "RESTORE" /\ asked[a].by \in Person
  BY Typed DEF RestoreProject, Writes, Exists, Followed
<1>2. p \in Project /\ p.life = "ACTIVE" /\ p.owner = project.owner /\ p.taken = {} /\ p.before = {}
  BY <1>1 DEF Project
<1> HIDE DEF p
<1>3. /\ project' \in Project /\ project'.life = "ACTIVE" /\ project'.owner = project.owner
      /\ project'.taken = {} /\ project'.before = {}
      /\ ~project'.overtaken => Permitted(asked[a])
  BY <1>1, <1>2, NotedTyped
<1>4. member' \in [Person -> MemberRow]
  <2>1. member' = [m \in Person |-> member'[m]]
    BY DEF RestoreProject
  <2> QED BY <2>1, RestoresRow
<1>5. /\ asked' \in [Asker -> Asked] /\ purger' \in {"idle", "loaded"}
      /\ \A b \in Asker : GivesRole(asked'[b])
  BY <1>1, Typed
<1>6. ASSUME ~project'.overtaken PROVE OwnersFit' /\ DatesFit'
  <2>1. OwnersFit /\ OwnerRow(member[asked[a].by])
    BY <1>1, <1>3, <1>6 DEF MembersInv, Permitted, ActiveMember, OwnerRow
  <2>2. asked[a].by = project.owner
    BY <1>1, <2>1 DEF OwnersFit
  <2>3. \A m \in Person : ~LostOwner(member[m])
    BY <1>1, <2>1 DEF OwnersFit
  <2>4. \A m \in Person : (OwnerRow(member'[m]) <=> OwnerRow(member[m])) /\ ~LostOwner(member'[m])
    BY <2>3, RestoresRow DEF OwnerRow, LostOwner, Restored
  <2>5. OwnersFit'
    BY <1>1, <1>3, <2>1, <2>2, <2>4 DEF OwnersFit
  <2>6. DatesFit'
    BY <1>3 DEF DatesFit
  <2> QED BY <2>5, <2>6
<1> QED BY <1>3, <1>4, <1>5, <1>6 DEF MembersInv, MembersTypeOK

(* A member who is not the owner leaves the service.                           *)
LEMMA WithdrawsMember ==
  ASSUME MembersInv, NEW m \in Person, NEW row \in MemberRow,
         member' = [member EXCEPT ![m] = row], UNCHANGED <<project, asked, purger>>,
         row.role = member[m].role,
         \/ row.is = "LEFT" /\ project.owner # m
         \/ row.is = member[m].is /\ row.since = member[m].since
  PROVE  MembersInv'
<1>1. project \in Project /\ member \in [Person -> MemberRow] /\ member[m] \in MemberRow
      /\ project.before \subseteq project.before
  BY Typed
<1>2. ASSUME ~project.overtaken, project.life # "PURGED" PROVE \A n \in Person : RowStep(n)
  <2> TAKE n \in Person
  <2>1. OwnerRow(member[n]) => n = project.owner
    BY <1>2 DEF MembersInv, OwnersFit
  <2>2. CASE n = m
    <3>1. OwnerRow(row) <=> OwnerRow(member[m])
      BY <2>1, <2>2 DEF OwnerRow
    <3>2. LostOwner(row) => LostOwner(member[m])
      BY DEF LostOwner
    <3> QED BY <1>1, <2>2, <3>1, <3>2 DEF RowStep
  <2>3. CASE n # m
    BY <1>1, <2>3, SameRow
  <2> QED BY <2>2, <2>3
<1> QED BY <1>1, <1>2, ProjectStays

LEMMA Withdraws ==
  ASSUME MembersInv, NEW m \in Person, WithdrawMember(m)
  PROVE  MembersInv'
<1> DEFINE gone == {n \in Person : ActiveMember(n)}
<1>1. project \in Project /\ member \in [Person -> MemberRow] /\ member[m] \in MemberRow
      /\ ~project.overtaken /\ UNCHANGED <<asked, purger>>
  BY Typed DEF WithdrawMember, Exists, Followed
<1>2. CASE /\ member' = [n \in Person |->
                [member[n] EXCEPT !.is = IF n \in gone THEN "REMOVED" ELSE @, !.since = n \in gone,
                                  !.withdrawn = @ \/ n = m]]
           /\ project' = [project EXCEPT !.life = "DELETED", !.expired = FALSE, !.taken = gone,
                                         !.before = Removed, !.once = TRUE]
  <2>1. \A n \in Person :
          /\ member'[n] \in MemberRow
          /\ n \in gone => member'[n].is = "REMOVED" /\ member'[n].since
          /\ n \notin gone => member'[n].is = member[n].is /\ ~member'[n].since
          /\ member'[n].is # "ACTIVE"
    <3> TAKE n \in Person
    <3>1. member[n] \in MemberRow /\ (n \in gone <=> member[n].is = "ACTIVE")
          /\ (member[n].withdrawn \/ n = m) \in BOOLEAN
      BY Typed DEF ActiveMember
    <3>2. member'[n] = [member[n] EXCEPT !.is = IF n \in gone THEN "REMOVED" ELSE @, !.since = n \in gone,
                                  !.withdrawn = @ \/ n = m]
      BY <1>2
    <3> HIDE DEF gone
    <3>3. CASE n \in gone
      <4>1. member'[n] = [member[n] EXCEPT !.is = "REMOVED", !.since = TRUE, !.withdrawn = @ \/ n = m]
        BY <3>2, <3>3
      <4> QED BY <3>1, <3>3, <4>1 DEF MemberRow, Membership
    <3>4. CASE n \notin gone
      <4>1. (n \in gone) = FALSE
        BY <3>4
      <4>2. member'[n] = [member[n] EXCEPT !.is = IF FALSE THEN "REMOVED" ELSE member[n].is, !.since = FALSE,
                                           !.withdrawn = member[n].withdrawn \/ n = m]
        BY <3>2, <4>1
      <4> QED BY <3>1, <3>4, <4>2 DEF MemberRow, Membership
    <3> QED BY <3>3, <3>4
  <2>2. member' \in [Person -> MemberRow]
    BY <1>2, <2>1
  <2>3. /\ project' \in Project /\ project'.life = "DELETED" /\ project'.once
        /\ project'.taken = gone /\ project'.before = Removed
    BY <1>1, <1>2 DEF Project, Removed
  <2>4. MembersTypeOK' /\ \A a \in Asker : GivesRole(asked'[a])
    BY <1>1, <2>2, <2>3 DEF MembersInv, MembersTypeOK
  <2>5. OwnersFit'
    BY <2>1, <2>3 DEF OwnersFit, OwnerRow
  <2>6. \A n \in Removed : n \in Person /\ n \notin gone
    BY DEF Removed, ActiveMember
  <2> HIDE DEF gone
  <2>7. DatesFit'
    BY <2>1, <2>3, <2>6 DEF DatesFit
  <2> QED BY <2>3, <2>4, <2>5, <2>7 DEF MembersInv
<1>3. CASE member' = [member EXCEPT ![m].withdrawn = TRUE] /\ UNCHANGED project
  <2> DEFINE row == [member[m] EXCEPT !.withdrawn = TRUE]
  <2>1. row \in MemberRow /\ row.is = member[m].is /\ row.role = member[m].role /\ row.since = member[m].since
    BY <1>1 DEF MemberRow
  <2>2. member' = [member EXCEPT ![m] = row]
    BY <1>3
  <2> HIDE DEF row
  <2> QED BY <1>1, <1>3, <2>1, <2>2, WithdrawsMember
<1>4. CASE /\ project.owner # m
           /\ \E elsewhere \in BOOLEAN :
                member' = [member EXCEPT ![m] =
                  IF @.is # "NONE" /\ (ActiveMember(m) \/ elsewhere)
                    THEN Dated([@ EXCEPT !.is = "LEFT", !.withdrawn = TRUE])
                    ELSE [@ EXCEPT !.withdrawn = TRUE]]
           /\ UNCHANGED project
  <2> DEFINE left == [member[m] EXCEPT !.is = "LEFT", !.withdrawn = TRUE]
             row == [member[m] EXCEPT !.withdrawn = TRUE]
  <2>1. row \in MemberRow /\ row.is = member[m].is /\ row.role = member[m].role /\ row.since = member[m].since
    BY <1>1 DEF MemberRow
  <2>2. left \in MemberRow /\ left.is = "LEFT" /\ left.role = member[m].role
    BY <1>1 DEF MemberRow, Membership
  <2>3. member' = [member EXCEPT ![m] = Dated(left)] \/ member' = [member EXCEPT ![m] = row]
    BY <1>4
  <2> HIDE DEF row, left
  <2> DEFINE dated == Dated(left)
  <2>4. dated \in MemberRow /\ dated.is = "LEFT" /\ dated.role = member[m].role
    BY <2>2, DatedTyped
  <2>5. UNCHANGED <<project, asked, purger>> /\ project.owner # m
    BY <1>1, <1>4
  <2> HIDE DEF dated
  <2>6. CASE member' = [member EXCEPT ![m] = dated]
    BY <2>4, <2>5, <2>6, WithdrawsMember
  <2>7. CASE member' = [member EXCEPT ![m] = row]
    BY <2>1, <2>5, <2>7, WithdrawsMember
  <2> QED BY <2>3, <2>6, <2>7 DEF dated
<1> QED BY <1>2, <1>3, <1>4 DEF WithdrawMember

(* --------------------------- Deletion for good ---------------------------- *)
LEMMA RetentionStep == ASSUME MembersInv, RetentionEnds PROVE MembersInv'
<1>1. /\ project' \in Project /\ project'.life = project.life /\ project'.owner = project.owner
      /\ project'.once = project.once /\ project'.taken = project.taken
      /\ project'.overtaken = project.overtaken /\ project'.before = project.before
      /\ member' = member /\ asked' = asked /\ purger' = purger
  BY Typed DEF RetentionEnds, Project
<1>2. MembersTypeOK' /\ \A a \in Asker : GivesRole(asked'[a])
  BY <1>1 DEF MembersInv, MembersTypeOK
<1> QED BY <1>1, <1>2, OwnerStays, SameRow

LEMMA LoadStep == ASSUME MembersInv, PurgeLoad PROVE MembersInv'
BY DEF PurgeLoad, MembersInv, MembersTypeOK, OwnersFit, DatesFit

LEMMA HardDeleteStep == ASSUME MembersInv, HardDeleteProject PROVE MembersInv'
<1>1. (project.lost \/ project.life = "ACTIVE") \in BOOLEAN /\ project \in Project
  BY Typed
<1>2. project' \in Project /\ project'.life = "PURGED"
  BY <1>1 DEF HardDeleteProject, Project
<1>3. member' \in [Person -> MemberRow]
  <2>1. \A m \in Person : [Outsider EXCEPT !.withdrawn = member[m].withdrawn] \in MemberRow
    BY Typed DEF Outsider, MemberRow, Membership, Role, Invitation
  <2> QED BY <2>1 DEF HardDeleteProject
<1> QED BY <1>2, <1>3 DEF HardDeleteProject, MembersInv, MembersTypeOK

LEMMA MembersStep == MembersInv /\ [MembersNext]_memberVars => MembersInv'
<1> SUFFICES ASSUME MembersInv, [MembersNext]_memberVars PROVE MembersInv'
  OBVIOUS
<1>1. ASSUME NEW a \in Asker, \E q \in Question : Ask(a, q) PROVE MembersInv'
  BY <1>1, AskedStep
<1>2. ASSUME NEW a \in Asker,
             \/ AcceptInvitation(a) \/ ChangeRole(a) \/ RemoveMember(a) \/ Leave(a)
             \/ TransferOwnership(a) \/ TransferAndLeave(a)
      PROVE  MembersInv'
  BY <1>2, Accepts, ChangesRole, RemovedStep, Leaves, Transfers, HandsOver
<1>3. ASSUME NEW a \in Asker, DeleteProject(a) \/ RestoreProject(a) PROVE MembersInv'
  BY <1>3, Deletes, Restores
<1>4. ASSUME NEW m \in Person, Invite(m) \/ ResendInvitation(m) \/ CancelInvitation(m)
      PROVE  MembersInv'
  BY <1>4, Invites DEF Invite, ResendInvitation, CancelInvitation, Invitation
<1>5. ASSUME NEW m \in Person, WithdrawMember(m) PROVE MembersInv'
  BY <1>5, Withdraws
<1>6. CASE RetentionEnds \/ PurgeLoad \/ HardDeleteProject
  BY <1>6, RetentionStep, LoadStep, HardDeleteStep
<1>7. CASE UNCHANGED memberVars
  BY <1>7 DEF memberVars, MembersInv, MembersTypeOK, OwnersFit, DatesFit
<1> QED BY <1>1, <1>2, <1>3, <1>4, <1>5, <1>6, <1>7 DEF MembersNext

(* Only the restoration makes a deleted project active again.                  *)
LEMMA StaysDeleted ==
  ASSUME MembersInv, [MembersNext]_memberVars, project.life = "DELETED", project'.life = "ACTIVE"
  PROVE  \E a \in Asker : RestoreProject(a)
<1>1. project \in Project
  BY Typed
<1>2. ASSUME NEW a \in Asker, NEW p \in Project, Noted(a, p), p.life = project.life PROVE FALSE
  BY <1>2, NotedTyped
<1>3. ASSUME NEW a \in Asker, \E q \in Question : Ask(a, q) PROVE FALSE
  BY <1>1, <1>3 DEF Ask, Project
<1>4. ASSUME NEW a \in Asker, AcceptInvitation(a) PROVE FALSE
  <2>1. [project EXCEPT !.before = @ \ {asked[a].by}] \in Project
    BY <1>1 DEF Project
  <2> QED BY <1>1, <1>2, <1>4, <2>1 DEF AcceptInvitation, Project
<1>5. ASSUME NEW a \in Asker, ChangeRole(a) \/ RemoveMember(a) \/ Leave(a) PROVE FALSE
  BY <1>1, <1>2, <1>5 DEF ChangeRole, RemoveMember, Leave
<1>6. ASSUME NEW a \in Asker, TransferOwnership(a) \/ TransferAndLeave(a) PROVE FALSE
  <2>1. [project EXCEPT !.owner = asked[a].of] \in Project
    BY <1>1, Typed DEF Project
  <2> QED BY <1>1, <1>2, <1>6, <2>1 DEF TransferOwnership, TransferAndLeave, Project
<1>7. ASSUME NEW a \in Asker, DeleteProject(a) PROVE FALSE
  BY <1>1, <1>7 DEF DeleteProject, SoftDeleted, Project
<1>8. ASSUME NEW m \in Person, Invite(m) \/ ResendInvitation(m) \/ CancelInvitation(m) PROVE FALSE
  BY <1>8 DEF Invite, ResendInvitation, CancelInvitation, SetInvitation
<1>9. ASSUME NEW m \in Person, WithdrawMember(m) PROVE FALSE
  BY <1>1, <1>9 DEF WithdrawMember, Project
<1>10. CASE RetentionEnds \/ PurgeLoad \/ HardDeleteProject
  BY <1>1, <1>10 DEF RetentionEnds, PurgeLoad, HardDeleteProject, Project
<1> QED BY <1>3, <1>4, <1>5, <1>6, <1>7, <1>8, <1>9, <1>10 DEF MembersNext, memberVars

(* Invitations, roles, transfers, removals, deletion and restoration: an       *)
(* active project has exactly one owner, the one its row names, as long as no  *)
(* request is overtaken between its check and its write.                       *)
THEOREM OneOwner == MembersSpec => []OneOwnerUnlessOvertaken
<1>1. MembersInv => OneOwnerUnlessOvertaken
  <2> SUFFICES ASSUME MembersInv, project.life = "ACTIVE", ~project.overtaken
               PROVE  Owners = {project.owner}
    BY DEF OneOwnerUnlessOvertaken
  <2>1. OwnersFit /\ project.owner \in Person
    BY Typed DEF MembersInv, Project
  <2> QED BY <2>1 DEF OwnersFit, OwnerRow, Owners, ActiveMember
<1> QED BY <1>1, MembersInitInv, MembersStep, PTL DEF MembersSpec

(* restore brings back everyone the deletion took out and nobody who had been  *)
(* removed before it was asked for, as long as no request was overtaken.       *)
THEOREM RestoresThoseTaken == MembersSpec => RestoreIsExact
<1> DEFINE Exact == project.life = "DELETED" /\ project'.life = "ACTIVE" /\ ~project.overtaken =>
       \A m \in Person : member[m].is = "REMOVED" =>
         /\ m \in project.taken => member'[m].is = "ACTIVE"
         /\ m \in project.before \ project.taken => member'[m].is = "REMOVED"
<1>1. MembersInv /\ [MembersNext]_memberVars => Exact
  <2> SUFFICES ASSUME MembersInv, [MembersNext]_memberVars, project.life = "DELETED",
                      project'.life = "ACTIVE", ~project.overtaken
               PROVE  \A m \in Person : member[m].is = "REMOVED" =>
                        /\ m \in project.taken => member'[m].is = "ACTIVE"
                        /\ m \in project.before \ project.taken => member'[m].is = "REMOVED"
    OBVIOUS
  <2>1. DatesFit
    BY DEF MembersInv
  <2>2. ASSUME NEW a \in Asker, RestoreProject(a), NEW m \in Person, member[m].is = "REMOVED"
        PROVE  /\ m \in project.taken => member'[m].is = "ACTIVE"
               /\ m \in project.before \ project.taken => member'[m].is = "REMOVED"
    BY <2>1, <2>2, RestoresRow DEF DatesFit, Restored
  <2>3. \E a \in Asker : RestoreProject(a)
    BY StaysDeleted
  <2> QED BY <2>2, <2>3
<1>2. MembersInv /\ [MembersNext]_memberVars => [Exact]_memberVars
  BY <1>1
<1> QED BY <1>2, MembersInitInv, MembersStep, PTL DEF MembersSpec, RestoreIsExact
===============================================================================
