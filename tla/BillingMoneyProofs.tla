------------------------ MODULE BillingMoneyProofs ------------------------
(* BillingCharge for every value of its constants: its state is typed, no    *)
(* approved order is lost, and the payments implement the ledger.            *)
EXTENDS BillingCharge, TLAPS

Running(r) == req[r].pc # "idle"

ClockTyped == clock \in Time /\ lastStart \in Time \cup {None} /\ lastStart <= clock

RowsTyped ==
  /\ sub \in Subscription /\ mem \in Member
  /\ pays \in [Time -> Payment]
  /\ pg \subseteq Time /\ mailed \subseteq Int

(* Where a request works on an order that it looks up.                       *)
Naming == {"lookup", "recover", "existing", "reapply"}

ReqTyped ==
  /\ req \in [Slot -> Request]
  /\ \A r \in Slot : Running(r) => req[r].now \in Time
  /\ \A r \in Slot : req[r].pc \in Naming => req[r].tgt \in Time

Typed == ClockTyped /\ RowsTyped /\ ReqTyped

------------------------------------------------------------------------------
(* Types.                                                                    *)

(* A step that gives its own request another value keeps the types.          *)
LEMMA RequestTyped ==
  ASSUME ReqTyped, NEW r \in Slot, Running(r), NEW q \in Request, req' = [req EXCEPT ![r] = q],
         q.now = req[r].now, q.pc \in Naming => q.tgt \in Time
  PROVE  ReqTyped'
BY DEF ReqTyped, Running

(* The ways a step changes the request that takes it.                        *)
LEMMA GotoTyped ==
  ASSUME ReqTyped, NEW r \in Slot, Running(r), NEW p \in Control, Goto(r, p),
         p \notin Naming \/ req[r].tgt \in Time
  PROVE  ReqTyped'
BY DEF ReqTyped, Running, Goto, Request

LEMMA FinishTyped ==
  ASSUME ReqTyped, NEW r \in Slot, Finish(r)
  PROVE  ReqTyped'
<1>1. Idle \in Request
  BY DEF Idle, Request, Control, None, NoSub, Subscription, Status
<1> QED
  BY <1>1 DEF ReqTyped, Running, Finish, Idle, Naming

LEMMA RowTyped ==
  ASSUME ReqTyped, NEW r \in Slot, Running(r), NEW p \in Control \ Naming,
         NEW row \in Subscription, req' = [req EXCEPT ![r].pc = p, ![r].row = row]
  PROVE  ReqTyped'
<1> DEFINE q == [req[r] EXCEPT !.pc = p, !.row = row]
<1>1. req' = [req EXCEPT ![r] = q] /\ req[r] \in Request
  BY DEF ReqTyped
<1>2. q \in Request /\ q.now = req[r].now /\ q.pc = p
  BY <1>1 DEF Request
<1> HIDE DEF q
<1> QED BY <1>1, <1>2, RequestTyped

LEMMA TgtTyped ==
  ASSUME ReqTyped, NEW r \in Slot, Running(r), NEW p \in Control, NEW t \in Int,
         p \notin Naming \/ t \in Time,
         req' = [req EXCEPT ![r].pc = p, ![r].tgt = t]
  PROVE  ReqTyped'
<1> DEFINE q == [req[r] EXCEPT !.pc = p, !.tgt = t]
<1>1. req' = [req EXCEPT ![r] = q] /\ req[r] \in Request
  BY DEF ReqTyped
<1>2. q \in Request /\ q.now = req[r].now /\ q.pc = p /\ q.tgt = t
  BY <1>1 DEF Request
<1> HIDE DEF q
<1> QED BY <1>1, <1>2, RequestTyped

LEMMA BaseTyped ==
  ASSUME ReqTyped, NEW r \in Slot, Running(r), NEW p \in Control \ Naming, NEW v \in Nat,
         req' = [req EXCEPT ![r].pc = p, ![r].base = v]
  PROVE  ReqTyped'
<1> DEFINE q == [req[r] EXCEPT !.pc = p, !.base = v]
<1>1. req' = [req EXCEPT ![r] = q] /\ req[r] \in Request
  BY DEF ReqTyped
<1>2. q \in Request /\ q.now = req[r].now /\ q.pc = p
  BY <1>1 DEF Request
<1> HIDE DEF q
<1> QED BY <1>1, <1>2, RequestTyped

LEMMA ResolvedTyped ==
  ASSUME ReqTyped, NEW r \in Slot, Running(r), Resolved(r)
  PROVE  ReqTyped'
<1>1. CASE AfterResolve(r) = "idle"
  BY <1>1, FinishTyped DEF Resolved
<1>2. CASE AfterResolve(r) # "idle"
  <2>1. /\ AfterResolve(r) \in Control /\ None \in Int
        /\ AfterResolve(r) \notin Naming
    BY DEF AfterResolve, Control, Naming, None
  <2> QED BY <1>2, <2>1, TgtTyped DEF Resolved
<1> QED BY <1>1, <1>2

(* What the transactions write has the type of a row.                        *)
LEMMA StampNat ==
  ASSUME NEW now \in Nat PROVE Stamp(now) \in Nat
BY DEF Stamp

LEMMA SubscriptionTyped ==
  ASSUME NEW now \in Nat, NEW row \in Subscription, NEW p \in Payment
  PROVE  /\ \A st \in Status : Terminated(row, st, now) \in Subscription
         /\ Activated(p, now) \in Subscription
         /\ Renewed(row, p, now) \in Subscription
         /\ SeatsAdded(row, p, now) \in Subscription
<1>0. Stamp(now) \in Nat
  BY StampNat
<1>1. /\ p.seats \in Nat /\ p.end \in Int /\ None \in Int /\ 0 \in Nat
      /\ "ACTIVE" \in Status
  BY DEF Payment, None, Status, LiveStatus
<1>2. ASSUME NEW st \in Status PROVE Terminated(row, st, now) \in Subscription
  BY <1>0, <1>1 DEF Terminated, Subscription
<1>3. Activated(p, now) \in Subscription
  BY <1>0, <1>1 DEF Activated, Subscription
<1>4. Renewed(row, p, now) \in Subscription
  BY <1>0, <1>1 DEF Renewed, Subscription
<1>5. SeatsAdded(row, p, now) \in Subscription
  BY <1>0, <1>1 DEF SeatsAdded, Subscription
<1> QED BY <1>2, <1>3, <1>4, <1>5

LEMMA MemberTyped ==
  ASSUME NEW now \in Nat, NEW m \in Member
  PROVE  Upgraded(m, now) \in Member /\ Downgraded(m, now) \in Member
<1>1. Stamp(now) \in Nat /\ None \in Int
  BY StampNat DEF None
<1>2. Mirror(m, "BASIC", now) \in Member /\ Mirror(m, "FREE", now) \in Member
  BY <1>1 DEF Mirror, Member
<1> QED BY <1>2 DEF Upgraded, Downgraded, Member

LEMMA SettledTyped ==
  ASSUME pays \in [Time -> Payment], NEW t, NEW st \in {"PAID", "FAILED"}
  PROVE  Settled(t, st) \in [Time -> Payment]
BY DEF Settled, Payment

LEMMA AttemptTyped ==
  ASSUME ReqTyped, NEW r \in Slot, Running(r)
  PROVE  /\ Attempt(r) \in Payment
         /\ Attempt(r).st = "PENDING"
         /\ [Attempt(r) EXCEPT !.st = "FAILED"] \in Payment
<1>1. /\ req[r].now \in Int /\ req[r].goal \in Nat /\ req[r].row \in Subscription
      /\ Period \in Int
  BY BoundsAssumption DEF ReqTyped, Request, Time, Running
<1>2. /\ NextPeriod(req[r].row, req[r].now)[1] \in Int
      /\ NextPeriod(req[r].row, req[r].now)[2] \in Int
  BY <1>1 DEF NextPeriod, Subscription
<1> DEFINE row == req[r].row
           seats == IF row.pend # 0 THEN row.pend ELSE row.seats
           per == NextPeriod(row, req[r].now)
<1>3. row.end \in Int /\ seats \in Nat
  BY <1>1 DEF Subscription
<1>4. \/ Attempt(r) = [st |-> "PENDING", type |-> "INITIAL", seats |-> req[r].goal,
                       from |-> req[r].now, end |-> req[r].now + Period]
      \/ Attempt(r) = [st |-> "PENDING", type |-> "SEAT_ADD", seats |-> req[r].goal,
                       from |-> req[r].now, end |-> row.end]
      \/ Attempt(r) = [st |-> "PENDING", type |-> "RECURRING", seats |-> seats,
                       from |-> per[1], end |-> per[2]]
  BY DEF Attempt
<1> HIDE DEF row, seats
<1>5. Attempt(r) \in Payment /\ Attempt(r).st = "PENDING"
  BY <1>1, <1>2, <1>3, <1>4 DEF row, Payment
<1> QED BY <1>5 DEF Payment

(* What Change sets in the row.                                              *)
LEMMA ChangeTyped ==
  ASSUME RowsTyped, ReqTyped, NEW r \in Slot, Running(r)
  PROVE  Change(r) \in Subscription
<1>1. /\ sub \in Subscription /\ req[r].row \in Subscription /\ req[r].goal \in Nat
      /\ req[r].now \in Nat
  BY DEF RowsTyped, ReqTyped, Running, Request, Time
<1>2. Stamp(req[r].now) \in Nat /\ Defer \in Nat
  BY <1>1, StampNat, BoundsAssumption
<1>3. [sub EXCEPT !.ver = Stamp(req[r].now)] \in Subscription
  BY <1>1, <1>2 DEF Subscription
<1> DEFINE new == [sub EXCEPT !.ver = Stamp(req[r].now)]
<1> HIDE DEF new
<1>4. new \in Subscription
  BY <1>3 DEF new
<1>5. /\ [new EXCEPT !.key = TRUE] \in Subscription
      /\ \A n \in Nat : [new EXCEPT !.pend = n] \in Subscription
  BY <1>4 DEF Subscription
<1>6. \A st \in {"CANCEL_SCHEDULED", "ACTIVE"} : [new EXCEPT !.st = st] \in Subscription
  BY <1>4 DEF Subscription, Status, LiveStatus
<1>7. \A e, b \in Int : [new EXCEPT !.end = e, !.bill = b, !.notice = FALSE] \in Subscription
  BY <1>4 DEF Subscription
<1>8. req[r].row.end + Defer \in Int /\ req[r].row.bill + Defer \in Int
  BY <1>1, <1>2 DEF Subscription
<1>9. (IF req[r].goal < req[r].row.seats THEN req[r].goal ELSE 0) \in Nat
  BY <1>1
<1> QED
  BY <1>4, <1>5, <1>6, <1>7, <1>8, <1>9
     DEF Change, new, CardReplaced, ReductionBooked, CancelScheduled, Uncanceled, Deferred

------------------------------------------------------------------------------
(* Type correctness: every initial state, then every action.                 *)

LEMMA TypedInit == Init => Typed
<1> SUFFICES ASSUME Init PROVE Typed
  OBVIOUS
<1>1. NoRow \in Payment /\ Idle \in Request /\ 0 \in Time
  BY BoundsAssumption DEF NoRow, Payment, Idle, Request, Control, None, NoSub, Subscription,
     Status, Time
<1>2. ClockTyped
  BY <1>1 DEF Init, ClockTyped, Time, None
<1>3. PICK st \in Origins, n \in Seats, f \in 1 .. MaxRetry, plan \in {"FREE", "MANUAL"} :
        sub = InitialSub(st, n, f) /\ mem = InitialMember(st, plan)
  BY DEF Init
<1>4. st \in Status /\ n \in Nat /\ f \in Nat
  BY OriginsAssumption, SeatsAssumption, BoundsAssumption
<1>5. sub \in Subscription
  <2>1. NoSub \in Subscription /\ None \in Int
    BY DEF NoSub, Subscription, Status, None
  <2>2. ASSUME NEW e \in Int, NEW g \in Nat, NEW l \in Int
        PROVE  [NoSub EXCEPT !.st = st, !.seats = n, !.key = TRUE, !.end = e, !.bill = e,
                             !.fails = g, !.last = l] \in Subscription
    <3> HIDE DEF NoSub
    <3> QED BY <1>4, <2>1, <2>2 DEF Subscription
  <2>3. [NoSub EXCEPT !.st = st, !.seats = n, !.end = 0] \in Subscription
    <3> HIDE DEF NoSub
    <3>1. ASSUME NEW e \in Int
          PROVE  [NoSub EXCEPT !.st = st, !.seats = n, !.end = e] \in Subscription
      BY <1>4, <2>1, <3>1 DEF Subscription
    <3>2. 0 \in Int
      OBVIOUS
    <3> QED BY <3>1, <3>2
  <2>4. CASE st = "NONE"
    BY <1>3, <2>1, <2>4 DEF InitialSub, EndedStatus
  <2>5. CASE st # "NONE" /\ st \in EndedStatus
    BY <1>3, <2>3, <2>5 DEF InitialSub
  <2>6. CASE st # "NONE" /\ st \notin EndedStatus
    <3> DEFINE due == IF st = "PAST_DUE" THEN 0 ELSE 1
               fails == IF st = "PAST_DUE" THEN f ELSE 0
               last == IF st = "PAST_DUE" THEN 0 ELSE None
    <3>1. due \in Int /\ fails \in Nat /\ last \in Int
      BY <1>4, <2>1
    <3>2. sub = [NoSub EXCEPT !.st = st, !.seats = n, !.key = TRUE, !.end = due,
                              !.bill = due, !.fails = fails, !.last = last]
      BY <1>3, <2>6 DEF InitialSub
    <3> QED BY <2>2, <3>1, <3>2
  <2> QED BY <2>4, <2>5, <2>6
<1>6. mem \in Member
  BY <1>3, <1>4 DEF InitialMember, Member, None
<1>7. RowsTyped
  BY <1>1, <1>5, <1>6 DEF Init, RowsTyped
<1>8. ReqTyped
  BY <1>1 DEF Init, ReqTyped, Running, Idle, Naming
<1> QED BY <1>2, <1>7, <1>8 DEF Typed

LEMMA KeptTyped ==
  /\ RowsTyped /\ KeepRows => RowsTyped'
  /\ ClockTyped /\ KeepTime => ClockTyped'
BY DEF RowsTyped, KeepRows, ClockTyped, KeepTime

(* What is known of the request that takes a step.                           *)
LEMMA RunningTyped ==
  ASSUME RowsTyped, ReqTyped, NEW r \in Slot, Running(r)
  PROVE  /\ req[r].now \in Time /\ req[r].now \in Nat
         /\ req[r].row \in Subscription /\ sub \in Subscription
         /\ req[r].base \in Nat /\ req[r].tgt \in Int /\ mem \in Member
         /\ Stamp(req[r].now) \in Nat
         /\ \A v \in Nat : Bump(req[r].now, v) \in Nat
<1>1. req[r].now \in Time /\ req[r].now \in Nat
  BY DEF ReqTyped, Running, Time
<1> QED BY <1>1, StampNat DEF RowsTyped, ReqTyped, Request, Bump

(* The steps that only read rows.                                            *)
LEMMA ReadersTyped ==
  ASSUME Typed, NEW r \in Slot,
         \/ FindPending(r) \/ LookupCharge(r) \/ LookupUnknown(r)
         \/ FindSubscription(r) \/ RequireActiveForSeatAdd(r) \/ ReadMemberVersion(r)
         \/ ChargeNotMade(r) \/ AssertNoPendingCharge(r) \/ RereadUpdated(r) \/ Refetch(r)
  PROVE  Typed'
<1>0. RowsTyped /\ ReqTyped /\ ClockTyped
  BY DEF Typed
<1>1. /\ {"lookup", "recover"} \subseteq Control
      /\ {"notCharged", "resolve", "claim", "declined", "update", "notice", "idle", "check",
          "claimRead", "refind", "process"} \subseteq Control \ Naming
  BY DEF Control, Naming
<1>2. KeepRows /\ KeepTime
  BY DEF FindPending, LookupCharge, LookupUnknown, FindSubscription, RequireActiveForSeatAdd,
         ReadMemberVersion, ChargeNotMade, AssertNoPendingCharge, RereadUpdated, Refetch
<1>3. Running(r)
  BY DEF FindPending, LookupCharge, LookupUnknown, FindSubscription, RequireActiveForSeatAdd,
         ReadMemberVersion, ChargeNotMade, AssertNoPendingCharge, RereadUpdated, Refetch,
         At, Running
<1>4. /\ req[r].row \in Subscription /\ sub \in Subscription /\ mem.ver \in Nat
  BY <1>0, <1>3, RunningTyped DEF Member
<1>5. ReqTyped'
  <2>1. CASE FindPending(r)
    <3>1. CASE Resolved(r)
      BY <1>0, <1>3, <3>1, ResolvedTyped
    <3>2. CASE Finish(r)
      BY <1>0, <3>2, FinishTyped
    <3>3. ASSUME NEW t \in Pending, req' = [req EXCEPT ![r].pc = "lookup", ![r].tgt = t]
          PROVE  ReqTyped'
      <4>1. t \in Int /\ t \in Time
        BY DEF Pending, Time
      <4> QED BY <1>0, <1>1, <1>3, <3>3, <4>1, TgtTyped
    <3> QED BY <2>1, <3>1, <3>2, <3>3 DEF FindPending
  <2>2. CASE LookupCharge(r)
    <3>1. req[r].tgt \in Time
      BY <1>0, <2>2 DEF LookupCharge, At, ReqTyped, Naming
    <3> QED BY <1>0, <1>1, <1>3, <2>2, <3>1, GotoTyped DEF LookupCharge
  <2>3. CASE LookupUnknown(r)
    BY <1>0, <2>3, FinishTyped DEF LookupUnknown
  <2>4. CASE FindSubscription(r)
    <3>1. AfterFind(r) \in Control \ Naming
      BY <1>1 DEF AfterFind, SeatTurn, DailyTurn
    <3>2. CASE AfterFind(r) = "idle"
      BY <1>0, <2>4, <3>2, FinishTyped DEF FindSubscription
    <3>3. CASE AfterFind(r) # "idle"
      <4>1. req' = [req EXCEPT ![r].pc = AfterFind(r), ![r].row = sub]
        BY <2>4, <3>3 DEF FindSubscription
      <4> QED BY <1>0, <1>3, <1>4, <3>1, <4>1, RowTyped
    <3> QED BY <3>2, <3>3
  <2>5. CASE RequireActiveForSeatAdd(r)
    BY <1>0, <1>1, <1>3, <1>4, <2>5, FinishTyped, RowTyped DEF RequireActiveForSeatAdd
  <2>6. CASE ReadMemberVersion(r)
    BY <1>0, <1>1, <1>3, <1>4, <2>6, BaseTyped DEF ReadMemberVersion
  <2>7. CASE ChargeNotMade(r)
    BY <1>0, <1>1, <1>3, <2>7, FinishTyped, GotoTyped DEF ChargeNotMade
  <2>8. CASE AssertNoPendingCharge(r)
    <3>1. CASE Finish(r)
      BY <1>0, <3>1, FinishTyped
    <3>2. CASE ~Finish(r)
      <4>1. PICK row \in Subscription :
              req' = [req EXCEPT ![r].pc = "update", ![r].row = row]
        BY <1>4, <2>8, <3>2 DEF AssertNoPendingCharge
      <4> QED BY <1>0, <1>1, <1>3, <4>1, RowTyped
    <3> QED BY <3>1, <3>2
  <2>9. CASE RereadUpdated(r)
    BY <1>0, <1>1, <1>3, <1>4, <2>9, FinishTyped, RowTyped DEF RereadUpdated
  <2>10. CASE Refetch(r)
    BY <1>0, <1>1, <1>3, <1>4, <2>10, FinishTyped, RowTyped DEF Refetch
  <2> QED BY <2>1, <2>2, <2>3, <2>4, <2>5, <2>6, <2>7, <2>8, <2>9, <2>10
<1> QED BY <1>0, <1>2, <1>5, KeptTyped DEF Typed

(* The steps that write the subscription or the member, and no payment.      *)
LEMMA SubscriptionWritersTyped ==
  ASSUME Typed, NEW r \in Slot,
         \/ ClaimMember(r) \/ BeginBillingOperation(r) \/ ReleaseBillingOperation(r)
         \/ RecordRecurringFailure(r) \/ ExpireSubscription(r)
         \/ GuardedSubscriptionUpdate(r) \/ TerminateSubscription(r) \/ Withdraw(r)
         \/ ProcessExpiredManualPlan(r) \/ RecordNotice(r)
  PROVE  Typed'
<1>0. RowsTyped /\ ReqTyped /\ ClockTyped
  BY DEF Typed
<1>1. {"create", "expire", "reread"} \subseteq Control \ Naming
  BY DEF Control, Naming
<1>2. UNCHANGED <<pays, pg, mailed>> /\ KeepTime
  BY DEF ClaimMember, BeginBillingOperation, ReleaseBillingOperation, RecordRecurringFailure,
         ExpireSubscription, GuardedSubscriptionUpdate, TerminateSubscription, Withdraw,
         ProcessExpiredManualPlan, RecordNotice
<1>3. Running(r)
  BY DEF ClaimMember, BeginBillingOperation, ReleaseBillingOperation, RecordRecurringFailure,
         ExpireSubscription, GuardedSubscriptionUpdate, TerminateSubscription, Withdraw,
         ProcessExpiredManualPlan, RecordNotice, At, Running
<1>4. ReqTyped'
  <2>1. PICK p \in Control \ Naming : Goto(r, p) \/ Finish(r)
    BY <1>1 DEF ClaimMember, BeginBillingOperation, ReleaseBillingOperation,
         RecordRecurringFailure, ExpireSubscription, GuardedSubscriptionUpdate,
         TerminateSubscription, Withdraw, ProcessExpiredManualPlan, RecordNotice
  <2> QED BY <1>0, <1>3, <2>1, GotoTyped, FinishTyped
<1> DEFINE now == req[r].now
           row == req[r].row
<1>5. /\ now \in Nat /\ row \in Subscription /\ sub \in Subscription /\ mem \in Member
      /\ req[r].base \in Nat /\ Stamp(now) \in Nat /\ \A v \in Nat : Bump(now, v) \in Nat
      /\ now \in Int /\ None \in Int
  BY <1>0, <1>3, RunningTyped DEF None
<1>6. /\ \A st \in Status : Terminated(sub, st, now) \in Subscription
      /\ "CANCELED" \in Status /\ "EXPIRED" \in Status /\ "PAST_DUE" \in Status
      /\ Upgraded(mem, now) \in Member /\ Downgraded(mem, now) \in Member
  <2>1. NoRow \in Payment
    BY DEF NoRow, Payment
  <2> QED BY <1>5, <2>1, SubscriptionTyped, MemberTyped DEF Status, LiveStatus, EndedStatus
<1> HIDE DEF now, row
<1>7. sub' \in Subscription /\ mem' \in Member
  <2>1. CASE ClaimMember(r)
    <3>1. \A v \in Nat : [mem EXCEPT !.ver = v] \in Member
      BY <1>5 DEF Member
    <3> QED BY <1>5, <2>1, <3>1 DEF ClaimMember, now
  <2>2. CASE BeginBillingOperation(r)
    <3>1. \A v \in Nat : [sub EXCEPT !.op = now, !.ver = v] \in Subscription
      BY <1>5 DEF Subscription
    <3>2. row.ver \in Nat
      BY <1>5 DEF Subscription
    <3> QED BY <1>5, <2>2, <3>1, <3>2 DEF BeginBillingOperation, now, row
  <2>3. CASE ReleaseBillingOperation(r)
    <3>1. [sub EXCEPT !.op = None, !.ver = Stamp(now)] \in Subscription
      BY <1>5 DEF Subscription
    <3> QED BY <1>5, <2>3, <3>1 DEF ReleaseBillingOperation, now
  <2>4. CASE RecordRecurringFailure(r)
    <3> DEFINE failed == [sub EXCEPT !.fails = row.fails + 1, !.last = now, !.ver = Stamp(now)]
    <3>0. row.fails + 1 \in Nat
      BY <1>5 DEF Subscription
    <3>1. failed \in Subscription
      BY <1>5, <3>0 DEF Subscription
    <3>2. [failed EXCEPT !.st = "PAST_DUE", !.op = None] \in Subscription
      <4> HIDE DEF failed
      <4> QED BY <1>5, <1>6, <3>1 DEF Subscription
    <3> QED BY <1>5, <2>4, <3>1, <3>2 DEF RecordRecurringFailure, now, row
  <2>5. CASE ExpireSubscription(r)
    BY <1>5, <1>6, <2>5 DEF ExpireSubscription, now
  <2>6. CASE GuardedSubscriptionUpdate(r)
    BY <1>0, <1>3, <1>5, <2>6, ChangeTyped DEF GuardedSubscriptionUpdate
  <2>7. CASE TerminateSubscription(r)
    BY <1>5, <1>6, <2>7 DEF TerminateSubscription, now
  <2>8. CASE Withdraw(r)
    <3>1. [mem EXCEPT !.active = FALSE, !.ver = Stamp(now)] \in Member
      BY <1>5 DEF Member
    <3> QED BY <1>5, <1>6, <2>8, <3>1 DEF Withdraw, now
  <2>9. CASE ProcessExpiredManualPlan(r)
    BY <1>5, <1>6, <2>9 DEF ProcessExpiredManualPlan, now
  <2>10. CASE RecordNotice(r)
    <3>1. [sub EXCEPT !.notice = TRUE] \in Subscription
      BY <1>5 DEF Subscription
    <3> QED BY <1>5, <2>10, <3>1 DEF RecordNotice
  <2> QED BY <2>1, <2>2, <2>3, <2>4, <2>5, <2>6, <2>7, <2>8, <2>9, <2>10
<1> QED BY <1>0, <1>2, <1>4, <1>7, KeptTyped DEF Typed, RowsTyped

(* The steps that write a payment, the gateway's ledger or a notice.         *)
LEMMA PaymentWritersTyped ==
  ASSUME Typed, NEW r \in Slot,
         \/ SettleNotCharged(r) \/ FindMember(r) \/ FindExisting(r) \/ ApplyRecovered(r)
         \/ CreatePendingAttempt(r) \/ NoBillingKey(r) \/ ChargeApproved(r)
         \/ ApplyCharge(r) \/ SettleDeclined(r) \/ SendNotice(r)
  PROVE  Typed'
<1>0. RowsTyped /\ ReqTyped /\ ClockTyped
  BY DEF Typed
<1>1. /\ {"charge", "release", "failSub", "apply", "refetch", "process"} \subseteq Control \ Naming
      /\ {"existing", "reapply"} \subseteq Control
  BY DEF Control, Naming
<1>2. KeepTime
  BY DEF SettleNotCharged, FindMember, FindExisting, ApplyRecovered, CreatePendingAttempt,
         NoBillingKey, ChargeApproved, ApplyCharge, SettleDeclined, SendNotice
<1>3. Running(r)
  BY DEF SettleNotCharged, FindMember, FindExisting, ApplyRecovered, CreatePendingAttempt,
         NoBillingKey, ChargeApproved, ApplyCharge, SettleDeclined, SendNotice, At, Running
<1>4. ReqTyped'
  <2>1. CASE FindMember(r) \/ FindExisting(r)
    <3>1. \/ \E p \in {"existing", "reapply"} : Goto(r, p)
          \/ Resolved(r)
      BY <2>1 DEF FindMember, FindExisting, Unapplied
    <3>2. req[r].tgt \in Time
      BY <1>0, <2>1 DEF FindMember, FindExisting, At, ReqTyped, Naming
    <3> QED BY <1>0, <1>1, <1>3, <3>1, <3>2, GotoTyped, ResolvedTyped
  <2>2. CASE ~(FindMember(r) \/ FindExisting(r))
    <3>1. \/ \E p \in Control \ Naming : Goto(r, p)
          \/ Finish(r) \/ Resolved(r)
      BY <1>1, <2>2 DEF SettleNotCharged, ApplyRecovered, CreatePendingAttempt, NoBillingKey,
         ChargeApproved, ApplyCharge, SettleDeclined, SendNotice
    <3> QED BY <1>0, <1>3, <3>1, GotoTyped, FinishTyped, ResolvedTyped
  <2> QED BY <2>1, <2>2
<1> DEFINE now == req[r].now
           row == req[r].row
<1>5. /\ now \in Nat /\ now \in Time /\ row \in Subscription
      /\ sub \in Subscription /\ mem \in Member /\ pays \in [Time -> Payment]
      /\ pg \subseteq Time /\ mailed \subseteq Int
  BY <1>0, <1>3, RunningTyped DEF RowsTyped
<1>6. ASSUME NEW p \in Payment
      PROVE  /\ Activated(p, now) \in Subscription /\ Renewed(sub, p, now) \in Subscription
             /\ SeatsAdded(sub, p, now) \in Subscription /\ Upgraded(mem, now) \in Member
  BY <1>5, <1>6, SubscriptionTyped, MemberTyped
<1>7. RowsTyped'
  <2>1. CASE SettleNotCharged(r)
    BY <1>5, <2>1, SettledTyped DEF SettleNotCharged, RowsTyped
  <2>2. CASE ApplyRecovered(r)
    <3>1. pays[req[r].tgt] \in Payment
      BY <1>0, <1>5, <2>2 DEF ApplyRecovered, At, ReqTyped, Naming
    <3>2. sub' \in Subscription /\ mem' \in Member
      BY <1>5, <1>6, <2>2, <3>1 DEF ApplyRecovered
    <3> QED BY <1>5, <2>2, <3>2, SettledTyped DEF ApplyRecovered, RowsTyped
  <2>3. CASE CreatePendingAttempt(r)
    BY <1>0, <1>3, <1>5, <2>3, AttemptTyped DEF CreatePendingAttempt, RowsTyped
  <2>4. CASE NoBillingKey(r)
    BY <1>0, <1>3, <1>5, <2>4, AttemptTyped DEF NoBillingKey, RowsTyped
  <2>5. CASE ChargeApproved(r)
    BY <1>5, <2>5 DEF ChargeApproved, RowsTyped
  <2>6. CASE ApplyCharge(r)
    <3>1. pays[now] \in Payment
      BY <1>5
    <3>2. sub' \in Subscription /\ mem' \in Member
      BY <1>5, <1>6, <2>6, <3>1 DEF ApplyCharge
    <3> QED BY <1>5, <2>6, <3>2, SettledTyped DEF ApplyCharge, RowsTyped
  <2>7. CASE SettleDeclined(r)
    BY <1>5, <2>7, SettledTyped DEF SettleDeclined, RowsTyped
  <2>8. CASE SendNotice(r)
    <3>1. row.bill \in Int
      BY <1>5 DEF Subscription
    <3> QED BY <1>5, <2>8, <3>1 DEF SendNotice, RowsTyped
  <2>9. CASE FindMember(r) \/ FindExisting(r)
    BY <1>5, <2>9, SettledTyped DEF FindMember, FindExisting, Unapplied, RowsTyped
  <2> QED BY <2>1, <2>2, <2>3, <2>4, <2>5, <2>6, <2>7, <2>8, <2>9
<1> QED BY <1>0, <1>2, <1>4, <1>7, KeptTyped DEF Typed

(* A request arrives or dies, or time passes.                                *)
LEMMA StartTyped ==
  ASSUME Typed, NEW r \in Slot, NEW k \in Kinds, Start(r, k)
  PROVE  Typed'
<1>1. PICK g \in Nat :
        req' = [req EXCEPT ![r] = [Idle EXCEPT !.pc = FirstStep(k), !.kind = k,
                                               !.now = clock, !.goal = g]]
  BY SeatsAssumption DEF Start
<1>2. FirstStep(k) \in Control \ Naming /\ k \in AllKinds
  BY KindsAssumption DEF FirstStep, Control, Naming
<1>3. Idle \in Request /\ clock \in Int /\ clock \in Time
  BY DEF Idle, Request, Control, None, NoSub, Subscription, Status, Typed, ClockTyped, Time
<1>4. [Idle EXCEPT !.pc = FirstStep(k), !.kind = k, !.now = clock, !.goal = g] \in Request
  <2>1. DOMAIN Idle = {"pc", "kind", "now", "row", "base", "tgt", "goal"}
    BY DEF Idle
  <2> HIDE DEF Idle
  <2> QED BY <1>2, <1>3 DEF Request
<1>5. ReqTyped'
  <2>1. req[r].tgt = req[r].tgt /\ req \in [Slot -> Request]
    BY DEF Typed, ReqTyped
  <2>2. /\ req' \in [Slot -> Request] /\ req'[r].pc = FirstStep(k) /\ req'[r].now = clock
        /\ \A q \in Slot \ {r} : req'[q] = req[q]
    BY <1>1, <1>4, <2>1 DEF Idle
  <2> QED BY <1>2, <1>3, <2>2 DEF Typed, ReqTyped, Running
<1>6. RowsTyped'
  BY KeptTyped DEF Start, Typed
<1>7. ClockTyped'
  BY <1>3 DEF Start, Typed, ClockTyped, Time
<1> QED BY <1>5, <1>6, <1>7 DEF Typed

LEMMA TypedStep == Typed /\ [Next]_vars => Typed'
<1> SUFFICES ASSUME Typed, [Next]_vars PROVE Typed'
  OBVIOUS
<1>1. CASE Tick
  <2>1. RowsTyped'
    BY <1>1, KeptTyped DEF Tick, Typed
  <2>2. ClockTyped'
    BY <1>1, BoundsAssumption DEF Tick, Typed, ClockTyped, Time, None
  <2>3. ReqTyped'
    BY <1>1 DEF Tick, Typed, ReqTyped, Running
  <2> QED BY <2>1, <2>2, <2>3 DEF Typed
<1>2. ASSUME NEW r \in Slot, NEW k \in Kinds, Start(r, k) PROVE Typed'
  BY <1>2, StartTyped
<1>3. ASSUME NEW r \in Slot, Step(r) PROVE Typed'
  BY <1>3, ReadersTyped, SubscriptionWritersTyped, PaymentWritersTyped DEF Step
<1>4. ASSUME NEW r \in Slot, Crash(r) PROVE Typed'
  BY <1>4, KeptTyped, FinishTyped DEF Crash, Typed
<1>5. CASE EndOfTime \/ UNCHANGED vars
  BY <1>5 DEF EndOfTime, vars, Typed, ClockTyped, RowsTyped, ReqTyped, Running
<1> QED BY <1>1, <1>2, <1>3, <1>4, <1>5 DEF Next

(* Every reachable state is typed: whatever the rows were made of, they stay *)
(* rows, and a request always runs under the time it was started at.         *)
THEOREM TypeCorrect == Spec => []TypeOK
<1>1. Typed => TypeOK
  BY DEF Typed, ClockTyped, RowsTyped, ReqTyped, TypeOK
<1> QED BY <1>1, TypedInit, TypedStep, PTL DEF Spec

------------------------------------------------------------------------------
(* A request that runs was started at its own tick, and has not outlived     *)
(* Life.                                                                     *)
Clocked ==
  \A r \in Slot : Running(r) =>
    /\ req[r].now \in Time /\ req[r].now <= lastStart
    /\ clock <= req[r].now + Life
    /\ \A q \in Slot \ {r} : Running(q) => req[q].now # req[r].now

(* Where a request has not yet created its attempt.                          *)
Before == {"resolve", "lookup", "notCharged", "recover", "existing", "reapply", "find",
           "refind", "claimRead", "claim", "begin", "create", "check", "update", "reread"}

(* An order belongs to a request that has started; one that has not created  *)
(* its attempt yet has no row; at most one attempt is open.                  *)
Recorded ==
  /\ \A t \in Time : pays[t].st # "NOROW" => t <= lastStart
  /\ \A r \in Slot : req[r].pc \in Before => pays[req[r].now].st = "NOROW"
  /\ \A s, t \in Pending : s = t

(* What a request knows of its own order.                                    *)
Own ==
  \A r \in Slot :
    /\ At(r, "charge") => pays[req[r].now].st = "PENDING" /\ req[r].now \notin pg
    /\ At(r, "apply") => req[r].now \in pg
    /\ At(r, "declined") => req[r].now \notin pg

(* What a request knows of an attempt it looks up: it is too old to be that  *)
(* of a request still running.                                               *)
Recovery == {"recover", "existing", "reapply"}
Looking == {"lookup", "notCharged", "recover", "existing", "reapply"}

Looked ==
  \A r \in Slot :
    /\ req[r].pc \in Looking => req[r].tgt \in Time /\ req[r].tgt + Stale <= req[r].now
    /\ At(r, "notCharged") => req[r].tgt \notin pg
    /\ req[r].pc \in Recovery => req[r].tgt \in pg

(* A row is PAID only when the gateway has approved the order.               *)
PaidOnlyIfApproved == \A t \in Time : pays[t].st = "PAID" => t \in pg

MoneyInv == Clocked /\ Recorded /\ Own /\ Looked /\ ApprovedNeverLost /\ PaidOnlyIfApproved

------------------------------------------------------------------------------
(* What every step of a request has in common, and what a request may assume *)
(* of the others.                                                            *)

Touching == Looking \cup {"charge", "apply", "declined"}

Moves(r) ==
  /\ KeepTime /\ Running(r)
  /\ \A q \in Slot \ {r} : req'[q] = req[q]
  /\ req'[r].pc = "idle" \/ req'[r].now = req[r].now
  /\ req'[r].pc \in Before => req[r].pc \in Before

LEMMA MovesClocked ==
  ASSUME Clocked, NEW r \in Slot, Moves(r)
  PROVE  Clocked'
BY DEF Clocked, Moves, Running, KeepTime

(* An order that is looked up is older than that of any running request.     *)
LEMMA LookedIsOld ==
  ASSUME Typed, Clocked, Looked, NEW r \in Slot, req[r].pc \in Looking,
         NEW q \in Slot, Running(q)
  PROVE  req[r].tgt \in Time /\ req[r].tgt < req[q].now
<1>1. req[r].tgt \in Time /\ req[r].tgt + Stale <= req[r].now
  BY DEF Looked, Recovery, Looking
<1>2. Running(r)
  BY DEF Running, Looking
<1>3. req[r].now \in Time /\ req[r].now <= lastStart /\ clock <= req[q].now + Life
      /\ req[q].now \in Time
  BY <1>2 DEF Clocked
<1>4. lastStart <= clock /\ clock \in Int /\ lastStart \in Int
  BY DEF Typed, ClockTyped, Time, None
<1> QED BY <1>1, <1>3, <1>4, TimeoutAssumption DEF Time

(* The step leaves the payments alone.                                       *)
LEMMA QuietMoney ==
  ASSUME Typed, MoneyInv, NEW r \in Slot, Moves(r),
         UNCHANGED <<pays, pg>>, req'[r].pc \notin Touching
  PROVE  MoneyInv'
<1>1. Clocked'
  BY MovesClocked DEF MoneyInv
<1>2. Recorded'
  BY DEF MoneyInv, Recorded, Moves, KeepTime, Pending, Before
<1>3. Own' /\ Looked'
  BY DEF MoneyInv, Own, Looked, Recovery, Moves, Touching, Looking, At
<1> QED BY <1>1, <1>2, <1>3 DEF MoneyInv, ApprovedNeverLost, PaidOnlyIfApproved

(* The step looks up an attempt.                                             *)
LEMMA LookingMoney ==
  ASSUME Typed, MoneyInv, NEW r \in Slot, Moves(r),
         UNCHANGED <<pays, pg>>, req'[r].pc \in Looking,
         req'[r].tgt \in Time /\ req'[r].tgt + Stale <= req'[r].now,
         req'[r].pc = "notCharged" => req'[r].tgt \notin pg,
         req'[r].pc \in Recovery => req'[r].tgt \in pg
  PROVE  MoneyInv'
<1>1. Clocked'
  BY MovesClocked DEF MoneyInv
<1>2. Recorded'
  <2>1. req[r].pc \in Before
    BY DEF Moves, Looking, Before
  <2> QED BY <2>1 DEF MoneyInv, Recorded, Moves, KeepTime, Pending, Looking
<1>3. Own' /\ Looked'
  BY DEF MoneyInv, Own, Looked, Recovery, Moves, Looking, At
<1> QED BY <1>1, <1>2, <1>3 DEF MoneyInv, ApprovedNeverLost, PaidOnlyIfApproved

(* The step closes an open order, as what happened at the gateway, that no   *)
(* other running request is charging.                                        *)
LEMMA ClosingMoney ==
  ASSUME Typed, MoneyInv, NEW r \in Slot, Moves(r), NEW t \in Time,
         pays' = Settled(t, IF t \in pg THEN "PAID" ELSE "FAILED"), pg' = pg,
         \A q \in Slot \ {r} : Running(q) => req[q].now # t,
         req'[r].pc \notin Touching
  PROVE  MoneyInv'
<1>0. pays \in [Time -> Payment]
  BY DEF Typed, RowsTyped
<1>1. Clocked'
  BY MovesClocked DEF MoneyInv
<1>2. /\ \A s \in Time \ {t} : pays'[s] = pays[s]
      /\ pays[t].st # "PENDING" => pays' = pays
      /\ pays[t].st = "PENDING" => pays'[t].st = IF t \in pg THEN "PAID" ELSE "FAILED"
  BY <1>0 DEF Settled, Payment
<1>3. \A s \in Time : /\ pays'[s].st = "PENDING" => pays[s].st = "PENDING"
                      /\ pays'[s].st = "NOROW" <=> pays[s].st = "NOROW"
  BY <1>2
<1>4. \A q \in Slot : Running(q) => req[q].now \in Time
  BY DEF MoneyInv, Clocked
<1>5. Recorded'
  BY <1>3, <1>4 DEF MoneyInv, Recorded, Moves, KeepTime, Pending, Before, Running
<1>6. Own'
  BY <1>2, <1>4 DEF MoneyInv, Own, Moves, Touching, At, Running
<1>7. Looked'
  BY DEF MoneyInv, Looked, Recovery, Moves, Touching, Looking, At
<1>8. ApprovedNeverLost' /\ PaidOnlyIfApproved'
  BY <1>2 DEF MoneyInv, ApprovedNeverLost, PaidOnlyIfApproved, Typed, RowsTyped
<1> QED BY <1>1, <1>5, <1>6, <1>7, <1>8 DEF MoneyInv

(* The step writes a new attempt down, open only when no other is.           *)
LEMMA CreatingMoney ==
  ASSUME Typed, MoneyInv, NEW r \in Slot, Moves(r), req[r].pc \in Before,
         NEW p \in Payment, pays' = [pays EXCEPT ![req[r].now] = p], pg' = pg,
         \/ p.st = "PENDING" /\ Pending = {}
         \/ p.st = "FAILED" /\ req'[r].pc # "charge",
         req'[r].pc \notin Touching \ {"charge"}, req'[r].pc \notin Before
  PROVE  MoneyInv'
<1> DEFINE now == req[r].now
<1>0. pays \in [Time -> Payment]
  BY DEF Typed, RowsTyped
<1>1. Clocked'
  BY MovesClocked DEF MoneyInv
<1>2. /\ now \in Time /\ now <= lastStart /\ pays[now].st = "NOROW" /\ now \notin pg
      /\ \A q \in Slot \ {r} : Running(q) => req[q].now \in Time /\ req[q].now # now
  BY DEF MoneyInv, Clocked, Moves, Recorded, ApprovedNeverLost
<1>3. pays'[now] = p /\ \A t \in Time \ {now} : pays'[t] = pays[t]
  BY <1>0, <1>2
<1>4. Recorded'
  <2>1. \A t \in Time : pays'[t].st # "NOROW" => t <= lastStart'
    BY <1>2, <1>3 DEF MoneyInv, Recorded, Moves, KeepTime
  <2>2. \A q \in Slot : req'[q].pc \in Before => pays'[req'[q].now].st = "NOROW"
    BY <1>2, <1>3 DEF MoneyInv, Recorded, Moves, Running, Before
  <2>3. \A s, t \in Pending' : s = t
    BY <1>2, <1>3 DEF MoneyInv, Recorded, Pending
  <2> QED BY <2>1, <2>2, <2>3 DEF Recorded
<1>5. Own'
  BY <1>2, <1>3 DEF MoneyInv, Own, Moves, Touching, At, Running
<1>6. Looked'
  BY DEF MoneyInv, Looked, Recovery, Moves, Touching, Looking, At
<1>7. ApprovedNeverLost' /\ PaidOnlyIfApproved'
  BY <1>2, <1>3 DEF MoneyInv, ApprovedNeverLost, PaidOnlyIfApproved, Typed, RowsTyped
<1> QED BY <1>1, <1>4, <1>5, <1>6, <1>7 DEF MoneyInv

(* The gateway takes the money of the request's own open attempt.            *)
LEMMA ApprovingMoney ==
  ASSUME Typed, MoneyInv, NEW r \in Slot, Moves(r), At(r, "charge"),
         pg' = pg \cup {req[r].now}, pays' = pays,
         req'[r].pc \notin Touching \ {"apply"}
  PROVE  MoneyInv'
<1> DEFINE now == req[r].now
<1>1. Clocked'
  BY MovesClocked DEF MoneyInv
<1>2. /\ now \in Time /\ pays[now].st = "PENDING" /\ Running(r)
      /\ \A q \in Slot \ {r} : Running(q) => req[q].now # now
  BY DEF MoneyInv, Clocked, Moves, Own
<1>3. Recorded'
  BY DEF MoneyInv, Recorded, Moves, KeepTime, Pending, Before, At
<1>4. Own'
  BY <1>2 DEF MoneyInv, Own, Moves, Touching, At, Running
<1>5. Looked'
  <2>1. \A q \in Slot : req[q].pc \in Looking => req[q].tgt \in Time /\ req[q].tgt # now
    BY <1>2, LookedIsOld DEF MoneyInv, Time
  <2> QED BY <2>1 DEF MoneyInv, Looked, Recovery, Moves, Touching, Looking, At
<1>6. ApprovedNeverLost' /\ PaidOnlyIfApproved'
  BY <1>2 DEF MoneyInv, ApprovedNeverLost, PaidOnlyIfApproved
<1> QED BY <1>1, <1>3, <1>4, <1>5, <1>6 DEF MoneyInv

(* The gateway has not taken it, and says so.                                *)
LEMMA DecliningMoney ==
  ASSUME Typed, MoneyInv, NEW r \in Slot, Moves(r), At(r, "charge"),
         UNCHANGED <<pays, pg>>, req'[r].pc \notin Touching \ {"declined"}
  PROVE  MoneyInv'
<1>1. Clocked'
  BY MovesClocked DEF MoneyInv
<1>2. Recorded'
  BY DEF MoneyInv, Recorded, Moves, KeepTime, Pending, Before, At
<1>3. Own'
  BY DEF MoneyInv, Own, Moves, Touching, At
<1>4. Looked'
  BY DEF MoneyInv, Looked, Recovery, Moves, Touching, Looking, At
<1> QED BY <1>1, <1>2, <1>3, <1>4 DEF MoneyInv, ApprovedNeverLost, PaidOnlyIfApproved

------------------------------------------------------------------------------
(* Every action is one of these steps.                                       *)

Turns(r, p) ==
  \/ Goto(r, p)
  \/ \E row \in Subscription : req' = [req EXCEPT ![r].pc = p, ![r].row = row]
  \/ \E t \in Int : req' = [req EXCEPT ![r].pc = p, ![r].tgt = t]
  \/ \E v \in Nat : req' = [req EXCEPT ![r].pc = p, ![r].base = v]

LEMMA TurnsMoves ==
  ASSUME Typed, NEW r \in Slot, Running(r), KeepTime, NEW p \in Control,
         p \in Before => req[r].pc \in Before, Turns(r, p)
  PROVE  Moves(r) /\ req'[r].pc = p
<1>1. req \in [Slot -> Request]
  BY DEF Typed, ReqTyped
<1> QED BY <1>1 DEF Turns, Goto, Moves, Request

LEMMA FinishMoves ==
  ASSUME Typed, NEW r \in Slot, Running(r), KeepTime, Finish(r)
  PROVE  Moves(r) /\ req'[r].pc = "idle"
<1>1. req \in [Slot -> Request]
  BY DEF Typed, ReqTyped
<1> QED BY <1>1 DEF Finish, Idle, Moves, Before

LEMMA ResolvedMoves ==
  ASSUME Typed, NEW r \in Slot, KeepTime, Resolved(r), req[r].pc \in Before
  PROVE  Moves(r) /\ req'[r].pc \notin Touching
<1>1. AfterResolve(r) \in Control /\ AfterResolve(r) \notin Touching
  BY DEF AfterResolve, Control, Touching, Looking
<1>2. Running(r)
  BY DEF Running, Before
<1>3. CASE AfterResolve(r) = "idle"
  BY <1>2, <1>3, FinishMoves DEF Resolved, Touching, Looking
<1>4. CASE AfterResolve(r) # "idle"
  <2>1. Turns(r, AfterResolve(r))
    BY <1>4 DEF Resolved, Turns, None
  <2> QED BY <1>1, <1>2, <2>1, TurnsMoves
<1> QED BY <1>3, <1>4

LEMMA QuietSteps ==
  ASSUME Typed, MoneyInv, NEW r \in Slot,
         \/ LookupUnknown(r) \/ FindSubscription(r) \/ RequireActiveForSeatAdd(r)
         \/ ReadMemberVersion(r) \/ ClaimMember(r) \/ BeginBillingOperation(r)
         \/ ReleaseBillingOperation(r) \/ RecordRecurringFailure(r) \/ ExpireSubscription(r)
         \/ AssertNoPendingCharge(r) \/ GuardedSubscriptionUpdate(r) \/ RereadUpdated(r)
         \/ TerminateSubscription(r) \/ Withdraw(r) \/ ProcessExpiredManualPlan(r)
         \/ Refetch(r) \/ SendNotice(r) \/ RecordNotice(r)
  PROVE  MoneyInv'
<1>1. UNCHANGED <<pays, pg>> /\ KeepTime
  BY DEF LookupUnknown, FindSubscription, RequireActiveForSeatAdd, ReadMemberVersion,
     ClaimMember, BeginBillingOperation, ReleaseBillingOperation, RecordRecurringFailure,
     ExpireSubscription, AssertNoPendingCharge, GuardedSubscriptionUpdate, RereadUpdated,
     TerminateSubscription, Withdraw, ProcessExpiredManualPlan, Refetch, SendNotice,
     RecordNotice, KeepRows
<1>2. Running(r)
  BY DEF LookupUnknown, FindSubscription, RequireActiveForSeatAdd, ReadMemberVersion,
     ClaimMember, BeginBillingOperation, ReleaseBillingOperation, RecordRecurringFailure,
     ExpireSubscription, AssertNoPendingCharge, GuardedSubscriptionUpdate, RereadUpdated,
     TerminateSubscription, Withdraw, ProcessExpiredManualPlan, Refetch, SendNotice,
     RecordNotice, At, Running
<1>3. sub \in Subscription /\ mem.ver \in Nat /\ req[r].row \in Subscription
  BY <1>2, RunningTyped DEF Typed, Member
<1> DEFINE Onward(p) == p \in Control \ Touching /\ (p \in Before => req[r].pc \in Before)
<1>4. Finish(r) \/ \E p : Onward(p) /\ Turns(r, p)
  <2>1. CASE FindSubscription(r)
    <3>1. Onward(AfterFind(r))
      BY <2>1 DEF FindSubscription, AfterFind, SeatTurn, DailyTurn, Control, Touching, Looking, Before, At
    <3>2. Finish(r) \/ Turns(r, AfterFind(r))
      BY <1>3, <2>1 DEF FindSubscription, Turns
    <3> QED BY <3>1, <3>2
  <2>2. CASE AssertNoPendingCharge(r)
    <3>1. Onward("update")
      BY <2>2 DEF AssertNoPendingCharge, Control, Touching, Looking, Before, At
    <3>2. Finish(r) \/ Turns(r, "update")
      BY <1>3, <2>2 DEF AssertNoPendingCharge, Turns
    <3> QED BY <3>1, <3>2
  <2>3. CASE RequireActiveForSeatAdd(r) \/ RereadUpdated(r)
    <3>1. Onward("resolve")
      BY <2>3 DEF RequireActiveForSeatAdd, RereadUpdated, Control, Touching, Looking, Before, At
    <3>2. Finish(r) \/ Turns(r, "resolve")
      BY <1>3, <2>3 DEF RequireActiveForSeatAdd, RereadUpdated, Turns
    <3> QED BY <3>1, <3>2
  <2>4. CASE ReadMemberVersion(r)
    <3>1. Onward("claim")
      BY <2>4 DEF ReadMemberVersion, Control, Touching, Looking, Before, At
    <3>2. Turns(r, "claim")
      BY <1>3, <2>4 DEF ReadMemberVersion, Turns
    <3> QED BY <3>1, <3>2
  <2>5. CASE ClaimMember(r) \/ BeginBillingOperation(r)
    <3>1. Onward("create")
      BY <2>5 DEF ClaimMember, BeginBillingOperation, Control, Touching, Looking, Before, At
    <3>2. Finish(r) \/ Turns(r, "create")
      BY <2>5 DEF ClaimMember, BeginBillingOperation, Turns
    <3> QED BY <3>1, <3>2
  <2>6. CASE RecordRecurringFailure(r)
    <3>1. Onward("expire")
      BY DEF Control, Touching, Looking, Before
    <3>2. Finish(r) \/ Turns(r, "expire")
      BY <2>6 DEF RecordRecurringFailure, Turns
    <3> QED BY <3>1, <3>2
  <2>7. CASE GuardedSubscriptionUpdate(r)
    <3>1. Onward("reread")
      BY <2>7 DEF GuardedSubscriptionUpdate, Control, Touching, Looking, Before, At
    <3>2. Finish(r) \/ Turns(r, "reread")
      BY <2>7 DEF GuardedSubscriptionUpdate, Turns
    <3> QED BY <3>1, <3>2
  <2>8. CASE Refetch(r)
    <3>1. Onward("notice")
      BY DEF Control, Touching, Looking, Before
    <3>2. Finish(r) \/ Turns(r, "notice")
      BY <1>3, <2>8 DEF Refetch, Turns
    <3> QED BY <3>1, <3>2
  <2>9. CASE SendNotice(r)
    <3>1. Onward("process")
      BY DEF Control, Touching, Looking, Before
    <3>2. Finish(r) \/ Turns(r, "process")
      BY <2>9 DEF SendNotice, Turns
    <3> QED BY <3>1, <3>2
  <2>10. CASE \/ LookupUnknown(r) \/ ReleaseBillingOperation(r) \/ ExpireSubscription(r)
              \/ TerminateSubscription(r) \/ Withdraw(r) \/ ProcessExpiredManualPlan(r)
              \/ RecordNotice(r)
    BY <2>10 DEF LookupUnknown, ReleaseBillingOperation, ExpireSubscription,
       TerminateSubscription, Withdraw, ProcessExpiredManualPlan, RecordNotice
  <2> QED BY <2>1, <2>2, <2>3, <2>4, <2>5, <2>6, <2>7, <2>8, <2>9, <2>10
<1>5. CASE Finish(r)
  <2>1. Moves(r) /\ req'[r].pc \notin Touching
    BY <1>1, <1>2, <1>5, FinishMoves DEF Touching, Looking
  <2> QED BY <1>1, <2>1, QuietMoney
<1>6. ASSUME NEW p, Onward(p), Turns(r, p) PROVE MoneyInv'
  <2>1. Moves(r) /\ req'[r].pc \notin Touching
    BY <1>1, <1>2, <1>6, TurnsMoves
  <2> QED BY <1>1, <2>1, QuietMoney
<1> QED BY <1>4, <1>5, <1>6

(* A recovery that has found what it looked for goes on; else it settles the *)
(* attempt.                                                                  *)
ReadsOn(r) ==
  /\ FindMember(r) \/ FindExisting(r)
  /\ \E p \in {"existing", "reapply"} : Goto(r, p)
  /\ UNCHANGED pays

SettlesUnapplied(r) == (FindMember(r) \/ FindExisting(r)) /\ Unapplied(r)

LEMMA Finds ==
  ASSUME NEW r \in Slot, FindMember(r) \/ FindExisting(r)
  PROVE  ReadsOn(r) \/ SettlesUnapplied(r)
BY DEF FindMember, FindExisting, ReadsOn, SettlesUnapplied

LEMMA ReadsOnKeeps ==
  ASSUME NEW r \in Slot, ReadsOn(r)
  PROVE  KeepRows /\ KeepTime /\ Running(r) /\ req[r].pc \in Recovery
BY DEF ReadsOn, FindMember, FindExisting, KeepRows, KeepTime, Running, Recovery, At

LEMMA UnappliedKeeps ==
  ASSUME NEW r \in Slot, SettlesUnapplied(r)
  PROVE  /\ pays' = Settled(req[r].tgt, "PAID") /\ Resolved(r)
         /\ UNCHANGED <<sub, mem, pg, mailed>> /\ KeepTime
         /\ Running(r) /\ req[r].pc \in Recovery
BY DEF SettlesUnapplied, Unapplied, FindMember, FindExisting, KeepTime, Running, Recovery, At

(* Which order the closing actions close, and as what: the order is one *)
(* that only this request is concerned with.                                 *)
LEMMA Closes ==
  ASSUME Typed, MoneyInv, NEW r \in Slot,
         \/ SettleNotCharged(r) \/ SettlesUnapplied(r) \/ ApplyRecovered(r)
         \/ ApplyCharge(r) \/ SettleDeclined(r)
  PROVE  \E t \in Time :
           /\ pays' = Settled(t, IF t \in pg THEN "PAID" ELSE "FAILED") /\ pg' = pg
           /\ \A q \in Slot \ {r} : Running(q) => req[q].now # t
<1>1. CASE SettleNotCharged(r) \/ SettlesUnapplied(r) \/ ApplyRecovered(r)
  <2>1. req[r].pc \in Looking
    BY <1>1 DEF SettleNotCharged, SettlesUnapplied, FindMember, FindExisting, ApplyRecovered,
       At, Looking
  <2>2. req[r].tgt \in Time
    BY <2>1 DEF MoneyInv, Looked, Recovery, Looking
  <2>3. \A q \in Slot : Running(q) => req[q].now # req[r].tgt
    BY <2>1, LookedIsOld DEF MoneyInv, Time
  <2>4. /\ pays' = Settled(req[r].tgt, IF req[r].tgt \in pg THEN "PAID" ELSE "FAILED")
        /\ pg' = pg
    BY <1>1 DEF SettleNotCharged, SettlesUnapplied, Unapplied, FindMember, FindExisting,
       ApplyRecovered, At, MoneyInv, Looked, Recovery
  <2> QED BY <2>2, <2>3, <2>4
<1>2. CASE ApplyCharge(r) \/ SettleDeclined(r)
  <2>1. Running(r)
    BY <1>2 DEF ApplyCharge, SettleDeclined, At, Running
  <2>2. /\ req[r].now \in Time
        /\ \A q \in Slot \ {r} : Running(q) => req[q].now # req[r].now
    BY <2>1 DEF MoneyInv, Clocked
  <2>3. /\ pays' = Settled(req[r].now, IF req[r].now \in pg THEN "PAID" ELSE "FAILED")
        /\ pg' = pg
    BY <1>2 DEF ApplyCharge, SettleDeclined, MoneyInv, Own
  <2> QED BY <2>2, <2>3
<1> QED BY <1>1, <1>2

LEMMA ClosingSteps ==
  ASSUME Typed, MoneyInv, NEW r \in Slot,
         \/ SettleNotCharged(r) \/ SettlesUnapplied(r) \/ ApplyRecovered(r)
         \/ ApplyCharge(r) \/ SettleDeclined(r)
  PROVE  MoneyInv'
<1>1. KeepTime /\ Running(r)
  BY DEF SettleNotCharged, SettlesUnapplied, FindMember, FindExisting, ApplyRecovered,
     ApplyCharge, SettleDeclined, At, Running
<1>2. Moves(r) /\ req'[r].pc \notin Touching
  <2>1. CASE SettleNotCharged(r) \/ SettlesUnapplied(r) \/ ApplyRecovered(r)
    <3>1. Resolved(r) /\ req[r].pc \in Before
      BY <2>1 DEF SettleNotCharged, SettlesUnapplied, Unapplied, FindMember, FindExisting,
         ApplyRecovered, At, Before
    <3> QED BY <1>1, <3>1, ResolvedMoves
  <2>2. CASE ApplyCharge(r) \/ SettleDeclined(r)
    <3>1. Finish(r) \/ \E p \in {"refetch", "release", "failSub"} : Goto(r, p)
      BY <2>2 DEF ApplyCharge, SettleDeclined
    <3>2. {"refetch", "release", "failSub"} \subseteq (Control \ Touching) \ Before
      BY DEF Control, Touching, Looking, Before
    <3>3. CASE Finish(r)
      BY <1>1, <3>3, FinishMoves DEF Touching, Looking
    <3>4. ASSUME NEW p \in {"refetch", "release", "failSub"}, Goto(r, p)
          PROVE  Moves(r) /\ req'[r].pc \notin Touching
      BY <1>1, <3>2, <3>4, TurnsMoves DEF Turns
    <3> QED BY <3>1, <3>3, <3>4
  <2> QED BY <2>1, <2>2
<1> QED BY <1>2, Closes, ClosingMoney

(* The lookup of an earlier attempt, and the recovery that reads on.         *)
LEMMA LookupSteps ==
  ASSUME Typed, MoneyInv, NEW r \in Slot, FindPending(r) \/ LookupCharge(r) \/ ReadsOn(r)
  PROVE  MoneyInv'
<1>1. UNCHANGED <<pays, pg>> /\ KeepTime /\ Running(r) /\ req[r].pc \in Before
  BY DEF FindPending, LookupCharge, ReadsOn, FindMember, FindExisting, KeepRows, At, Running,
     Before
<1>2. req \in [Slot -> Request] /\ req[r].now \in Time
  BY <1>1 DEF Typed, ReqTyped
<1>3. CASE Resolved(r)
  BY <1>1, <1>3, ResolvedMoves, QuietMoney
<1>4. CASE Finish(r)
  <2>1. Moves(r) /\ req'[r].pc \notin Touching
    BY <1>1, <1>4, FinishMoves DEF Touching, Looking
  <2> QED BY <1>1, <2>1, QuietMoney
<1>5. ASSUME NEW t \in Pending, t <= req[r].now - Stale,
             req' = [req EXCEPT ![r].pc = "lookup", ![r].tgt = t]
      PROVE  MoneyInv'
  <2>1. t \in Time /\ t \in Int
    BY DEF Pending, Time
  <2>2. Moves(r) /\ req'[r].pc = "lookup"
    <3>1. Turns(r, "lookup") /\ "lookup" \in Control
      BY <1>5, <2>1 DEF Turns, Control
    <3> QED BY <1>1, <3>1, TurnsMoves
  <2>3. req'[r].tgt = t /\ req'[r].now = req[r].now /\ t + Stale <= req[r].now
    BY <1>2, <1>5, <2>1, TimeoutAssumption DEF Request, Time
  <2> QED BY <1>1, <2>1, <2>2, <2>3, LookingMoney DEF Looking, Recovery
<1>6. CASE LookupCharge(r)
  <2> DEFINE p == IF req[r].tgt \in pg THEN "recover" ELSE "notCharged"
  <2>1. Moves(r) /\ req'[r].pc = p
    <3>1. Turns(r, p) /\ p \in Control
      BY <1>6 DEF LookupCharge, Turns, Control
    <3> QED BY <1>1, <3>1, TurnsMoves
  <2>2. req'[r].tgt = req[r].tgt /\ req'[r].now = req[r].now
    BY <1>2, <1>6 DEF LookupCharge, Goto, Request
  <2>3. req[r].tgt \in Time /\ req[r].tgt + Stale <= req[r].now
    BY <1>6 DEF LookupCharge, At, MoneyInv, Looked, Looking, Recovery
  <2> QED BY <1>1, <2>1, <2>2, <2>3, LookingMoney DEF Looking, Recovery
<1>7. CASE ReadsOn(r)
  <2>1. PICK p \in {"existing", "reapply"} : Goto(r, p)
    BY <1>7 DEF ReadsOn
  <2>2. Moves(r) /\ req'[r].pc = p
    <3>1. Turns(r, p) /\ p \in Control
      BY <2>1 DEF Turns, Control
    <3> QED BY <1>1, <3>1, TurnsMoves
  <2>3. req'[r].tgt = req[r].tgt /\ req'[r].now = req[r].now
    BY <1>2, <2>1 DEF Goto, Request
  <2>4. /\ req[r].tgt \in Time /\ req[r].tgt + Stale <= req[r].now
        /\ req[r].tgt \in pg
    BY <1>7 DEF ReadsOn, FindMember, FindExisting, At, MoneyInv, Looked, Looking, Recovery
  <2> QED BY <1>1, <2>1, <2>2, <2>3, <2>4, LookingMoney DEF Looking, Recovery
<1> QED BY <1>3, <1>4, <1>5, <1>6, <1>7 DEF FindPending

(* The attempt and the call of the gateway.                                  *)
LEMMA ChargeSteps ==
  ASSUME Typed, MoneyInv, NEW r \in Slot,
         \/ CreatePendingAttempt(r) \/ NoBillingKey(r)
         \/ ChargeApproved(r) \/ ChargeNotMade(r)
  PROVE  MoneyInv'
<1>1. KeepTime /\ Running(r)
  BY DEF CreatePendingAttempt, NoBillingKey, ChargeApproved, ChargeNotMade, At, Running
<1>2. /\ {"charge", "release", "failSub", "apply", "declined"} \subseteq Control \ Before
      /\ {"release", "failSub", "idle"} \cap Touching = {}
      /\ "create" \in Before
  BY DEF Control, Before, Touching, Looking
<1>3. ASSUME NEW p \in {"charge", "release", "failSub", "apply", "declined"}, Goto(r, p)
      PROVE  Moves(r) /\ req'[r].pc = p
  BY <1>1, <1>2, <1>3, TurnsMoves DEF Turns
<1>4. ASSUME Finish(r) PROVE Moves(r) /\ req'[r].pc = "idle"
  BY <1>1, <1>4, FinishMoves
<1>5. /\ Attempt(r) \in Payment /\ Attempt(r).st = "PENDING"
      /\ [Attempt(r) EXCEPT !.st = "FAILED"] \in Payment
  BY <1>1, AttemptTyped DEF Typed
<1>6. CASE CreatePendingAttempt(r)
  <2>1. CASE Pending = {}
    <3>1. Goto(r, "charge") /\ pays' = [pays EXCEPT ![req[r].now] = Attempt(r)] /\ pg' = pg
          /\ req[r].pc \in Before
      BY <1>2, <1>6, <2>1 DEF CreatePendingAttempt, At
    <3>2. Moves(r) /\ req'[r].pc = "charge"
      BY <1>3, <3>1
    <3>3. req'[r].pc \notin Touching \ {"charge"} /\ req'[r].pc \notin Before
      BY <1>2, <3>2
    <3> QED BY <1>5, <2>1, <3>1, <3>2, <3>3, CreatingMoney
  <2>2. CASE Pending # {}
    <3>1. UNCHANGED <<pays, pg>> /\ (Finish(r) \/ Goto(r, "release"))
      BY <1>6, <2>2 DEF CreatePendingAttempt
    <3>2. Moves(r) /\ req'[r].pc \notin Touching
      BY <1>2, <1>3, <1>4, <3>1
    <3> QED BY <3>1, <3>2, QuietMoney
  <2> QED BY <2>1, <2>2
<1>7. CASE NoBillingKey(r)
  <2> DEFINE p == [Attempt(r) EXCEPT !.st = "FAILED"]
  <2>1. Goto(r, "failSub") /\ pays' = [pays EXCEPT ![req[r].now] = p] /\ pg' = pg
        /\ req[r].pc \in Before
    BY <1>2, <1>7 DEF NoBillingKey, At
  <2>2. p \in Payment /\ p.st = "FAILED"
    BY <1>5 DEF Payment
  <2>3. Moves(r) /\ req'[r].pc = "failSub"
    BY <1>3, <2>1
  <2>4. req'[r].pc \notin Touching \ {"charge"} /\ req'[r].pc \notin Before
        /\ req'[r].pc # "charge"
    BY <1>2, <2>3
  <2> HIDE DEF p
  <2> QED BY <2>1, <2>2, <2>3, <2>4, CreatingMoney
<1>8. CASE ChargeApproved(r)
  <2>1. Moves(r) /\ req'[r].pc \in {"apply", "idle"}
    BY <1>3, <1>4, <1>8 DEF ChargeApproved
  <2>2. req'[r].pc \notin Touching \ {"apply"}
    BY <1>2, <2>1
  <2> QED BY <1>8, <2>1, <2>2, ApprovingMoney DEF ChargeApproved
<1>9. CASE ChargeNotMade(r)
  <2>1. Moves(r) /\ req'[r].pc \in {"declined", "idle"}
    BY <1>3, <1>4, <1>9 DEF ChargeNotMade
  <2>2. req'[r].pc \notin Touching \ {"declined"}
    BY <1>2, <2>1
  <2> QED BY <1>9, <2>1, <2>2, DecliningMoney DEF ChargeNotMade, KeepRows
<1> QED BY <1>6, <1>7, <1>8, <1>9

LEMMA MoneyInit == Init => MoneyInv
<1> SUFFICES ASSUME Init PROVE MoneyInv
  OBVIOUS
<1>1. /\ \A r \in Slot : req[r].pc = "idle"
      /\ \A t \in Time : pays[t].st = "NOROW"
      /\ pg = {}
  BY DEF Init, Idle, NoRow
<1> QED
  BY <1>1 DEF MoneyInv, Clocked, Recorded, Own, Looked, Looking, Recovery, ApprovedNeverLost,
     PaidOnlyIfApproved, Running, Before, Pending, At

LEMMA StartMoney ==
  ASSUME Typed, MoneyInv, NEW r \in Slot, NEW k \in Kinds, Start(r, k)
  PROVE  MoneyInv'
<1>1. /\ UNCHANGED <<pays, pg, clock>> /\ lastStart < clock /\ lastStart' = clock
      /\ clock \in Time /\ clock \in Int /\ lastStart \in Int
  BY DEF Start, KeepRows, Typed, ClockTyped, Time, None
<1>2. /\ req'[r].pc = FirstStep(k) /\ req'[r].now = clock
      /\ \A q \in Slot \ {r} : req'[q] = req[q]
  BY DEF Start, Typed, ReqTyped, Idle
<1>3. FirstStep(k) \in {"resolve", "check", "find"}
  BY DEF FirstStep
<1>4. Clocked'
  <2>1. \A q \in Slot \ {r} : Running(q) => /\ req[q].now \in Time /\ req[q].now <= lastStart
                                           /\ req[q].now # clock /\ req[q].now <= clock
    BY <1>1 DEF MoneyInv, Clocked, Time
  <2>2. clock <= clock + Life
    BY <1>1, TimeoutAssumption
  <2> QED BY <1>1, <1>2, <2>1, <2>2 DEF MoneyInv, Clocked, Running
<1>5. Recorded'
  <2>1. \A t \in Time : pays'[t].st # "NOROW" => t <= lastStart'
    BY <1>1 DEF MoneyInv, Recorded, Time
  <2>2. pays'[clock].st = "NOROW"
    BY <1>1 DEF MoneyInv, Recorded
  <2> QED BY <1>1, <1>2, <2>1, <2>2 DEF MoneyInv, Recorded, Pending
<1>6. Own' /\ Looked'
  BY <1>1, <1>2, <1>3 DEF MoneyInv, Own, Looked, Looking, Recovery, At
<1> QED BY <1>1, <1>4, <1>5, <1>6 DEF MoneyInv, ApprovedNeverLost, PaidOnlyIfApproved

LEMMA TickMoney ==
  ASSUME Typed, MoneyInv, Tick
  PROVE  MoneyInv'
<1>1. UNCHANGED <<pays, pg, req, lastStart>> /\ clock' = clock + 1 /\ clock \in Int
  BY DEF Tick, KeepRows, Typed, ClockTyped, Time
<1>2. Clocked'
  <2>1. ASSUME NEW r \in Slot, Running(r) PROVE clock' <= req[r].now + Life
    <3>1. req[r].now + Life \in Int /\ clock < req[r].now + Life
      BY <2>1, TimeoutAssumption DEF Tick, Running, At, MoneyInv, Clocked, Time
    <3> QED BY <1>1, <3>1
  <2> QED BY <1>1, <2>1 DEF MoneyInv, Clocked, Running
<1> QED
  BY <1>1, <1>2 DEF MoneyInv, Recorded, Own, Looked, Recovery, ApprovedNeverLost, PaidOnlyIfApproved,
     Pending, At

LEMMA MoneyStep == Typed /\ MoneyInv /\ [Next]_vars => MoneyInv'
<1> SUFFICES ASSUME Typed, MoneyInv, [Next]_vars PROVE MoneyInv'
  OBVIOUS
<1>1. CASE Tick
  BY <1>1, TickMoney
<1>2. ASSUME NEW r \in Slot, NEW k \in Kinds, Start(r, k) PROVE MoneyInv'
  BY <1>2, StartMoney
<1>3. ASSUME NEW r \in Slot, Step(r) PROVE MoneyInv'
  BY <1>3, Finds, QuietSteps, ClosingSteps, LookupSteps, ChargeSteps DEF Step
<1>4. ASSUME NEW r \in Slot, Crash(r) PROVE MoneyInv'
  <2>1. Moves(r) /\ req'[r].pc \notin Touching /\ UNCHANGED <<pays, pg>>
    BY <1>4, FinishMoves DEF Crash, Running, At, KeepRows, Touching, Looking
  <2> QED BY <2>1, QuietMoney
<1>5. CASE EndOfTime \/ UNCHANGED vars
  BY <1>5 DEF EndOfTime, vars, MoneyInv, Clocked, Recorded, Own, Looked, Recovery, ApprovedNeverLost,
     PaidOnlyIfApproved, Running, Pending, At
<1> QED BY <1>1, <1>2, <1>3, <1>4, <1>5 DEF Next

(* The PENDING-first rule: whichever requests interleave, die or recover     *)
(* each other, an order the gateway has approved keeps a row that is PAID or *)
(* can still be found as PENDING.                                            *)
THEOREM NeverLost == Spec => []ApprovedNeverLost
<1>1. MoneyInv => ApprovedNeverLost
  BY DEF MoneyInv
<1> QED BY <1>1, TypedInit, TypedStep, MoneyInit, MoneyStep, PTL DEF Spec

------------------------------------------------------------------------------
(* The payments implement the ledger of ChargeLedger.                        *)

LEMMA LedgerStep == Typed /\ MoneyInv /\ [Next]_vars => [Ledger!LedgerNext]_(Ledger!ledgerVars)
<1> DEFINE att == [t \in Time |-> pays[t].st]
<1> SUFFICES ASSUME Typed, MoneyInv, [Next]_vars
             PROVE  Ledger!LedgerNext \/ UNCHANGED <<att, pg>>
  BY DEF Ledger!ledgerVars
<1>0. pays \in [Time -> Payment] /\ Ledger!Opened = Pending
  BY DEF Typed, RowsTyped, Ledger!Opened, Pending
<1>1. ASSUME UNCHANGED <<pays, pg>> PROVE UNCHANGED <<att, pg>>
  BY <1>1
<1>2. ASSUME NEW r \in Slot,
             \/ SettleNotCharged(r) \/ SettlesUnapplied(r) \/ ApplyRecovered(r)
             \/ ApplyCharge(r) \/ SettleDeclined(r)
      PROVE  Ledger!LedgerNext \/ UNCHANGED <<att, pg>>
  <2>1. PICK t \in Time :
          pays' = Settled(t, IF t \in pg THEN "PAID" ELSE "FAILED") /\ pg' = pg
    BY <1>2, Closes
  <2>2. CASE pays[t].st # "PENDING"
    BY <2>1, <2>2 DEF Settled
  <2>3. CASE pays[t].st = "PENDING"
    <3>1. att' = [att EXCEPT ![t] = IF t \in pg THEN "PAID" ELSE "FAILED"]
      BY <1>0, <2>1, <2>3 DEF Settled, Payment
    <3>2. Ledger!Close(t)
      BY <2>1, <2>3, <3>1 DEF Ledger!Close
    <3> QED BY <3>2 DEF Ledger!LedgerNext
  <2> QED BY <2>2, <2>3
<1>3. ASSUME NEW r \in Slot, req[r].pc \in Before, Running(r), NEW p \in Payment,
             pays' = [pays EXCEPT ![req[r].now] = p], pg' = pg,
             (p.st = "PENDING" /\ Pending = {}) \/ p.st = "FAILED"
      PROVE  Ledger!LedgerNext
  <2>1. PICK now \in Time : now = req[r].now /\ pays[now].st = "NOROW"
    BY <1>3 DEF MoneyInv, Clocked, Recorded
  <2>2. att' = [att EXCEPT ![now] = p.st]
    BY <1>0, <1>3, <2>1
  <2>3. Ledger!Open(now) \/ Ledger!Refuse(now)
    BY <1>0, <1>3, <2>1, <2>2 DEF Ledger!Open, Ledger!Refuse
  <2> QED BY <2>1, <2>3 DEF Ledger!LedgerNext
<1>4. ASSUME NEW r \in Slot, CreatePendingAttempt(r) \/ NoBillingKey(r)
      PROVE  Ledger!LedgerNext \/ UNCHANGED <<att, pg>>
  <2>1. req[r].pc \in Before /\ Running(r)
    BY <1>4 DEF CreatePendingAttempt, NoBillingKey, At, Before, Running
  <2>2. /\ Attempt(r) \in Payment /\ Attempt(r).st = "PENDING"
        /\ [Attempt(r) EXCEPT !.st = "FAILED"] \in Payment
        /\ [Attempt(r) EXCEPT !.st = "FAILED"].st = "FAILED"
    BY <2>1, AttemptTyped DEF Typed, Payment
  <2>3. CASE UNCHANGED <<pays, pg>>
    BY <2>3
  <2>4. ASSUME NEW p \in Payment, pays' = [pays EXCEPT ![req[r].now] = p], pg' = pg,
               (p.st = "PENDING" /\ Pending = {}) \/ p.st = "FAILED"
        PROVE  Ledger!LedgerNext
    BY <1>3, <2>1, <2>4
  <2>5. CASE CreatePendingAttempt(r)
    <3>1. CASE Pending = {}
      BY <2>2, <2>4, <2>5, <3>1 DEF CreatePendingAttempt
    <3>2. CASE Pending # {}
      BY <2>3, <2>5, <3>2 DEF CreatePendingAttempt
    <3> QED BY <3>1, <3>2
  <2>6. CASE NoBillingKey(r)
    BY <2>2, <2>4, <2>6 DEF NoBillingKey
  <2> QED BY <1>4, <2>5, <2>6
<1>5. ASSUME NEW r \in Slot, ChargeApproved(r) PROVE Ledger!LedgerNext
  <2>1. req[r].now \in Time /\ pays[req[r].now].st = "PENDING" /\ req[r].now \notin pg
    BY <1>5 DEF ChargeApproved, MoneyInv, Own, Clocked, At, Running
  <2>2. Ledger!Take(req[r].now)
    BY <1>5, <2>1 DEF ChargeApproved, Ledger!Take
  <2> QED BY <2>1, <2>2 DEF Ledger!LedgerNext
<1>6. ASSUME NEW r \in Slot, Step(r) PROVE Ledger!LedgerNext \/ UNCHANGED <<att, pg>>
  <2>1. \/ UNCHANGED <<pays, pg>> \/ CreatePendingAttempt(r) \/ NoBillingKey(r)
        \/ SettleNotCharged(r) \/ SettlesUnapplied(r) \/ ApplyRecovered(r)
        \/ ApplyCharge(r) \/ SettleDeclined(r) \/ ChargeApproved(r)
    BY <1>6, Finds DEF Step, ReadsOn, FindMember, FindExisting, LookupUnknown, FindSubscription, RequireActiveForSeatAdd,
       ReadMemberVersion, ClaimMember, BeginBillingOperation, ReleaseBillingOperation,
       RecordRecurringFailure, ExpireSubscription, AssertNoPendingCharge,
       GuardedSubscriptionUpdate, RereadUpdated, TerminateSubscription, Withdraw,
       ProcessExpiredManualPlan, Refetch, SendNotice, RecordNotice, FindPending, LookupCharge,
       ChargeNotMade, KeepRows
  <2> QED BY <1>1, <1>2, <1>4, <1>5, <2>1
<1>7. Tick \/ (\E r \in Slot : (\E k \in Kinds : Start(r, k)) \/ Crash(r)) \/ EndOfTime
        \/ UNCHANGED vars => UNCHANGED <<pays, pg>>
  BY DEF Tick, Start, Crash, EndOfTime, vars, KeepRows
<1> QED BY <1>1, <1>6, <1>7 DEF Next

(* Seen as attempts and money taken, every step of every request is a step   *)
(* of the ledger: written down before it is charged, one open at a time,     *)
(* closed once and as what happened.                                         *)
THEOREM LedgerImplemented == Spec => LedgerSpec
<1>1. Init => Ledger!LedgerInit
  BY DEF Init, NoRow, Ledger!LedgerInit
<1> QED
  BY <1>1, TypedInit, TypedStep, MoneyInit, MoneyStep, LedgerStep, PTL
     DEF Spec, LedgerSpec, Ledger!LedgerSpec
===========================================================================
