---------------------------- MODULE BillingCharge ----------------------------
(* One member's subscription, the payment attempts made for it, and every    *)
(* request that can touch them: lib/billing/subscription.ts with its callers *)
(* in daily.ts and admin-actions.ts.                                         *)
(*                                                                           *)
(* A request is a process.  Every await of the code is a step of its own, so *)
(* two requests interleave between a read and the statement that uses it; a  *)
(* `$transaction` body that commits at its end is one step, preceded by the  *)
(* reads it makes under READ COMMITTED.  A request remembers the rows it has *)
(* read and the `now` it captured when it started.  A process may die before *)
(* any step.                                                                 *)
(*                                                                           *)
(* Time is counted in ticks.  `now` values of two requests differ (they are  *)
(* milliseconds in the code), so `now` also names what the code names with   *)
(* randomUUID or newOrderId: the operation token and the order of the one    *)
(* charge a request makes.                                                   *)
EXTENDS Integers, FiniteSets

CONSTANTS
  Slot,         \* request processes that may run at the same time
  Kinds,        \* the kinds of request that arrive (a subset of AllKinds)
  Batch,        \* kinds of which only one runs at a time (runJob), or {}
  Origins,      \* statuses the subscription row may have at the beginning
  Seats,        \* seat counts
  Horizon,      \* bound: the last tick
  OpTimeout,    \* BILLING_OP_TIMEOUT_MS
  Stale,        \* PENDING_PAYMENT_STALE_MS
  Life,         \* longest life of a request (PG timeouts, see README)
  Period,       \* nextPeriodEnd(start) - start
  RetryGap,     \* RETRY_POLICY.intervalDays
  MaxRetry,     \* RETRY_POLICY.maxRetryCount
  NoticeLead,   \* PRENOTICE_DAYS
  Defer         \* days added by adminDeferBilling

AllKinds == {"START", "CARD", "SEAT", "CANCEL", "UNCANCEL", "DAILY", "SWEEP",
             "RETRY", "DEFER", "TERMINATE", "WITHDRAW", "MANUAL"}
ByMember == {"START", "CARD", "SEAT", "CANCEL", "UNCANCEL", "WITHDRAW"}

LiveStatus == {"ACTIVE", "PAST_DUE", "CANCEL_SCHEDULED"}
EndedStatus == {"CANCELED", "EXPIRED"}
Status == {"NONE"} \cup LiveStatus \cup EndedStatus

ASSUME KindsAssumption == Kinds \subseteq AllKinds /\ Batch \subseteq AllKinds
ASSUME OriginsAssumption == Origins \subseteq Status
ASSUME SeatsAssumption == Seats \subseteq Nat \ {0} /\ Seats # {}
ASSUME BoundsAssumption ==
  /\ Horizon \in Nat /\ Period \in Nat \ {0} /\ RetryGap \in Nat
  /\ MaxRetry \in Nat /\ NoticeLead \in Nat /\ Defer \in Nat \ {0}
(* constants.ts: a request (charge, retry, lookup: 195 s) ends before its    *)
(* token expires (5 min), which is before its attempt counts as lost (10 min)*)
ASSUME TimeoutAssumption ==
  /\ Life \in Nat /\ OpTimeout \in Nat /\ Stale \in Nat
  /\ Life <= OpTimeout /\ OpTimeout < Stale

Time == 0 .. Horizon
None == -1                       \* a NULL timestamp or token

VARIABLES
  clock,      \* the current tick
  lastStart,  \* the tick at which the last request started
  sub,        \* the member's row of tb_bl_subscription
  mem,        \* the member's row of tb_cm_member, and its projects' lock
  pays,       \* tb_bl_payment, by order: the `now` of the request charging
  pg,         \* orders the payment gateway has approved (its ledger)
  mailed,     \* due dates the member was given advance notice of
  req         \* the requests being served

vars == <<clock, lastStart, sub, mem, pays, pg, mailed, req>>

------------------------------------------------------------------------------
(* Rows.                                                                     *)

Subscription ==
  [st    : Status,
   seats : Nat,
   pend  : Nat,                \* pending_seat_cnt, 0 for NULL
   key   : BOOLEAN,            \* billing_key is stored
   end   : Int,                \* crrnt_perd_end_dt
   bill  : Int,                \* next_bill_dt
   notice: BOOLEAN,            \* prentc_dt is set
   fails : Nat,                \* fail_cnt
   last  : Int,                \* last_fail_dt
   op    : Int,                \* billing_op_token, issued at that time
   ver   : Nat]                \* mdfcn_dt, two per tick: see Bump

Member ==
  [plan   : {"FREE", "BASIC", "MANUAL"},
   until  : Int,               \* plan_expire_dt
   active : BOOLEAN,           \* mber_sttus_code = ACTIVE
   locked : BOOLEAN,           \* the owned projects are locked
   ver    : Nat]               \* mdfcn_dt

Payment ==
  [st    : {"NOROW", "PENDING", "PAID", "FAILED"},
   type  : {"NONE", "INITIAL", "RECURRING", "SEAT_ADD"},
   seats : Nat,                \* seats paid for; for SEAT_ADD the target
   from  : Int,                \* perd_bgng_dt
   end   : Int]                \* perd_end_dt

NoRow == [st |-> "NOROW", type |-> "NONE", seats |-> 0, from |-> 0, end |-> 0]

NoSub == [st |-> "NONE", seats |-> 0, pend |-> 0, key |-> FALSE, end |-> None,
          bill |-> None, notice |-> FALSE, fails |-> 0, last |-> None, op |-> None, ver |-> 0]

Control == {"idle", "resolve", "lookup", "notCharged", "recover", "existing",
            "reapply", "find", "refind", "claimRead", "claim", "begin",
            "create", "release", "charge", "apply", "declined", "failSub",
            "expire", "check", "update", "reread", "refetch", "notice", "process"}

Request ==
  [pc   : Control,
   kind : AllKinds \cup {"NOKIND"},
   now  : Int,                 \* the Date captured by the route
   row  : Subscription,        \* the subscription row last read
   base : Nat,                 \* the member version last read
   tgt  : Int,                 \* the unresolved order being looked up
   goal : Nat]                 \* seat count asked for

Idle == [pc |-> "idle", kind |-> "NOKIND", now |-> None, row |-> NoSub,
         base |-> 0, tgt |-> None, goal |-> 0]

Live(row) == row.st \in LiveStatus
Pending == {t \in Time : pays[t].st = "PENDING"}

(* Slip: any older token counts as expired.                                  *)
TokenOlder(row, now) == row.op = None \/ row.op < now

(* opTokenWhere without a token: none is set, or it expired for this `now`.  *)
TokenFree(row, now) == row.op = None \/ row.op < now - OpTimeout

(* mdfcn_dt = now, and the claim max(now, read + 1): a tick is two versions, *)
(* so that `read + 1 ms` falls between two requests.                         *)
Stamp(now) == 2 * (now + 1)
Bump(now, read) == IF Stamp(now) > read THEN Stamp(now) ELSE read + 1

------------------------------------------------------------------------------
(* What one statement, or one transaction, does to the rows.                 *)

Mirror(m, plan, now) == [m EXCEPT !.plan = plan, !.until = None, !.ver = Stamp(now)]

Upgraded(m, now) == [Mirror(m, "BASIC", now) EXCEPT !.locked = FALSE]
Downgraded(m, now) == [Mirror(m, "FREE", now) EXCEPT !.locked = TRUE]

Terminated(row, st, now) ==
  [row EXCEPT !.st = st, !.key = FALSE, !.pend = 0, !.bill = None, !.op = None,
              !.ver = Stamp(now)]

Activated(p, now) ==
  [st |-> "ACTIVE", seats |-> p.seats, pend |-> 0, key |-> TRUE, end |-> p.end,
   bill |-> p.end, notice |-> FALSE, fails |-> 0, last |-> None, op |-> None, ver |-> Stamp(now)]

(* Slips: prentc_dt is not reset; the reduction that was billed is not made. *)
RenewedKeepsNotice(row, p, now) ==
  [row EXCEPT !.st = "ACTIVE", !.seats = p.seats, !.pend = 0, !.end = p.end,
              !.bill = p.end, !.fails = 0, !.last = None, !.op = None, !.ver = Stamp(now)]

RenewedKeepsSeats(row, p, now) ==
  [RenewedKeepsNotice(row, p, now) EXCEPT !.seats = row.seats, !.notice = FALSE]

Renewed(row, p, now) ==
  [row EXCEPT !.st = "ACTIVE", !.seats = p.seats, !.pend = 0, !.end = p.end,
              !.bill = p.end, !.notice = FALSE, !.fails = 0, !.last = None, !.op = None,
              !.ver = Stamp(now)]

SeatsAdded(row, p, now) ==
  [row EXCEPT !.seats = p.seats, !.pend = 0, !.op = None, !.ver = Stamp(now)]

(* settlePendingPaid and settlePendingFailed: only a row still PENDING.      *)
Settled(t, st) ==
  IF pays[t].st = "PENDING" THEN [pays EXCEPT ![t].st = st] ELSE pays

------------------------------------------------------------------------------
(* Control of a request.                                                     *)

At(r, p) == req[r].pc = p
Is(r, ks) == req[r].kind \in ks
Goto(r, p) == req' = [req EXCEPT ![r].pc = p]
Finish(r) == req' = [req EXCEPT ![r] = Idle]
KeepRows == UNCHANGED <<sub, mem, pays, pg, mailed>>
KeepTime == UNCHANGED <<clock, lastStart>>

Charging == {"CARD", "DAILY", "RETRY"}      \* callers of attemptRecurringCharge

(* The withdrawal transaction has updated the member row, and so holds its   *)
(* lock until it commits: other writers of that row wait.                    *)
MemberRowFree(r) ==
  \A q \in Slot \ {r} : ~(At(q, "update") /\ Is(q, {"WITHDRAW"}))

(* A recovery has marked the attempt as PAID and not committed yet: others   *)
(* who would settle it, or open the next under its pndng_lock_key, wait.  An *)
(* attempt that was settled before is locked by nobody.                      *)
PaymentRowFree(r, t) ==
  pays[t].st = "PENDING" =>
    \A q \in Slot \ {r} : ~(req[q].pc \in {"existing", "reapply"} /\ req[q].tgt = t)

------------------------------------------------------------------------------
(* A request arrives, dies, or time passes.                                  *)

FirstStep(k) ==
  CASE k \in {"START", "SWEEP"} -> "resolve"
    [] k = "WITHDRAW"           -> "check"
    [] OTHER                    -> "find"

(* A request starts: the route captures `now`, different from every other.   *)
(* A member who has left cannot sign in.  The nightly job takes its items in *)
(* turn, and runJob starts no second one while it runs.                      *)
Start(r, k) ==
  /\ At(r, "idle") /\ lastStart < clock
  /\ k \in ByMember => mem.active
  /\ k \in Batch => \A q \in Slot : ~Is(q, Batch)
  /\ \E g \in IF k \in {"START", "SEAT"} THEN Seats ELSE {0} :
       req' = [req EXCEPT ![r] = [Idle EXCEPT !.pc = FirstStep(k), !.kind = k,
                                              !.now = clock, !.goal = g]]
  /\ lastStart' = clock
  /\ UNCHANGED clock /\ KeepRows

(* The process dies before its next step; what it committed stays.           *)
Crash(r) ==
  /\ ~At(r, "idle")
  /\ Finish(r) /\ KeepRows /\ KeepTime

(* No request outlives Life.                                                 *)
Tick ==
  /\ clock < Horizon
  /\ \A r \in Slot : At(r, "idle") \/ clock < req[r].now + Life
  /\ clock' = clock + 1
  /\ UNCHANGED <<lastStart, req>> /\ KeepRows

------------------------------------------------------------------------------
(* resolvePendingPayments: settle what an earlier attempt left unknown.      *)

AfterResolve(r) ==
  CASE Is(r, {"START"}) -> "find"
    [] Is(r, {"SWEEP"}) -> "idle"
    [] OTHER            -> "begin"

Resolved(r) ==
  IF AfterResolve(r) = "idle" THEN Finish(r)
  ELSE req' = [req EXCEPT ![r].pc = AfterResolve(r), ![r].tgt = None]

(* Slip: an attempt still running is looked up as if it were lost.           *)
FindPendingAnyAge(r) ==
  /\ At(r, "resolve")
  /\ \/ Pending = {} /\ Resolved(r)
     \/ \E t \in Pending : req' = [req EXCEPT ![r].pc = "lookup", ![r].tgt = t]
  /\ KeepRows /\ KeepTime

(* Nothing pending: go on.  A young attempt may still be running: give up.   *)
FindPending(r) ==
  /\ At(r, "resolve")
  /\ \/ Pending = {} /\ Resolved(r)
     \/ \E t \in Pending :
          \/ t > req[r].now - Stale /\ Finish(r)
          \/ t <= req[r].now - Stale
               /\ req' = [req EXCEPT ![r].pc = "lookup", ![r].tgt = t]
  /\ KeepRows /\ KeepTime

(* gw.lookupCharge: the gateway tells, or the answer stays UNKNOWN.          *)
LookupCharge(r) ==
  /\ At(r, "lookup")
  /\ Goto(r, IF req[r].tgt \in pg THEN "recover" ELSE "notCharged")
  /\ KeepRows /\ KeepTime

(* Slip: no answer is taken for NOT_CHARGED.                                 *)
LookupUnknownIsFailure(r) ==
  /\ At(r, "lookup")
  /\ Goto(r, "notCharged")
  /\ KeepRows /\ KeepTime

LookupUnknown(r) ==
  /\ At(r, "lookup")
  /\ Finish(r) /\ KeepRows /\ KeepTime

SettleNotCharged(r) ==
  /\ At(r, "notCharged") /\ PaymentRowFree(r, req[r].tgt)
  /\ pays' = Settled(req[r].tgt, "FAILED")
  /\ Resolved(r)
  /\ UNCHANGED <<sub, mem, pg, mailed>> /\ KeepTime

(* applyRecoveredCharge is one transaction, whose reads see what others have *)
(* committed meanwhile.  It marks the attempt as PAID, which locks it unless *)
(* it was settled before; finds the member, of a first payment; finds the    *)
(* subscription; and changes it, or ends without a change (PAID_UNAPPLIED).  *)
Unapplied(r) ==
  /\ pays' = Settled(req[r].tgt, "PAID")
  /\ Resolved(r)

FindMember(r) ==
  /\ At(r, "recover") /\ pays[req[r].tgt].type = "INITIAL"
  /\ PaymentRowFree(r, req[r].tgt)
  /\ IF mem.active THEN Goto(r, "existing") /\ UNCHANGED pays ELSE Unapplied(r)
  /\ UNCHANGED <<sub, mem, pg, mailed>> /\ KeepTime

(* A first payment needs that none is live, the others that it still is.     *)
FindExisting(r) ==
  LET initial == pays[req[r].tgt].type = "INITIAL" IN
  /\ At(r, "existing") \/ (At(r, "recover") /\ ~initial)
  /\ PaymentRowFree(r, req[r].tgt)
  /\ IF initial # Live(sub) THEN Goto(r, "reapply") /\ UNCHANGED pays ELSE Unapplied(r)
  /\ UNCHANGED <<sub, mem, pg, mailed>> /\ KeepTime

(* The change, without a token of its own: the upsert of a first payment     *)
(* has no condition, the others only that nobody holds the token.            *)
ApplyRecovered(r) ==
  LET t == req[r].tgt
      p == pays[t]
      now == req[r].now
  IN
  /\ At(r, "reapply")
  /\ pays' = Settled(t, "PAID")
  /\ \/ /\ p.type = "INITIAL" /\ MemberRowFree(r)
        /\ sub' = Activated(p, now) /\ mem' = Upgraded(mem, now)
     \/ /\ p.type = "RECURRING" /\ TokenFree(sub, now) /\ MemberRowFree(r)
        /\ sub' = Renewed(sub, p, now) /\ mem' = Upgraded(mem, now)
     \/ /\ p.type = "SEAT_ADD" /\ TokenFree(sub, now)
        /\ sub' = SeatsAdded(sub, p, now) /\ UNCHANGED mem
     \/ /\ p.type # "INITIAL" /\ ~TokenFree(sub, now)
        /\ UNCHANGED <<sub, mem>>
  /\ Resolved(r)
  /\ UNCHANGED <<pg, mailed>> /\ KeepTime

------------------------------------------------------------------------------
(* findSubscription, and what each request decides from the row it reads.    *)

Due(row, now) ==
  \/ row.st = "ACTIVE" /\ row.bill # None /\ row.bill <= now
  \/ row.st = "PAST_DUE" /\ (row.last = None \/ row.last + RetryGap <= now)

NoticeDue(row, now) ==
  /\ row.st = "ACTIVE" /\ row.bill # None /\ ~row.notice
  /\ row.bill - NoticeLead <= now /\ now < row.bill

MayDefer(row) == row.st = "ACTIVE" /\ row.bill # None
MayUncancel(row, now) == row.st = "CANCEL_SCHEDULED" /\ now < row.end

(* loadExpiredManualPlanTargets: one member's place in the batch's list.     *)
ManualPlanExpired(now) ==
  /\ mem.active /\ mem.plan # "FREE" /\ ~Live(sub)
  /\ mem.until # None /\ mem.until <= now

(* changeSeats: more seats are paid for at once, fewer are booked for the    *)
(* next period, the same number takes a booking back.                        *)
SeatTurn(row, goal) ==
  CASE ~Live(row) \/ (goal = row.seats /\ row.pend = 0) -> "idle"
    [] Live(row) /\ goal > row.seats                    -> "refind"
    [] OTHER                                            -> "check"

(* processSubscriptionDaily: end, charge or notify.                          *)
DailyTurn(row, now) ==
  IF row.st = "CANCEL_SCHEDULED" /\ row.end <= now THEN "check"
  ELSE IF Due(row, now) THEN "resolve"
  ELSE IF NoticeDue(row, now) THEN "notice" ELSE "idle"

AfterFind(r) ==
  LET k == req[r].kind
      now == req[r].now
      Only(may, next) == IF may THEN next ELSE "idle"
  IN
  CASE k = "START"               -> Only(~Live(sub), "claimRead")
    [] k = "SEAT"                -> SeatTurn(sub, req[r].goal)
    [] k \in {"CARD", "TERMINATE"} -> Only(Live(sub), "check")
    [] k = "CANCEL"              -> Only(sub.st \in {"ACTIVE", "PAST_DUE"}, "check")
    [] k = "UNCANCEL"            -> Only(MayUncancel(sub, now), "check")
    [] k = "DEFER"               -> Only(MayDefer(sub), "check")
    [] k = "RETRY"               -> Only(sub.st = "PAST_DUE", "resolve")
    [] k = "DAILY"               -> DailyTurn(sub, now)
    [] k = "MANUAL"              -> Only(ManualPlanExpired(now), "process")
    [] OTHER                     -> "idle"

FindSubscription(r) ==
  /\ At(r, "find")
  /\ IF AfterFind(r) = "idle" THEN Finish(r)
     ELSE req' = [req EXCEPT ![r].pc = AfterFind(r), ![r].row = sub]
  /\ KeepRows /\ KeepTime

(* requireActiveForSeatAdd reads the row again; the amount must be positive, *)
(* so the seats asked for must still exceed the seats there are.             *)
RequireActiveForSeatAdd(r) ==
  /\ At(r, "refind")
  /\ IF sub.st = "ACTIVE" /\ sub.end > req[r].now /\ sub.key /\ req[r].goal > sub.seats
     THEN req' = [req EXCEPT ![r].pc = "resolve", ![r].row = sub]
     ELSE Finish(r)
  /\ KeepRows /\ KeepTime

------------------------------------------------------------------------------
(* Claims: who may charge.                                                   *)

(* claimMemberForBilling: the first payment has no subscription row to claim,*)
(* so it reads the member's version and then updates the row that has it.    *)
ReadMemberVersion(r) ==
  /\ At(r, "claimRead")
  /\ req' = [req EXCEPT ![r].pc = "claim", ![r].base = mem.ver]
  /\ KeepRows /\ KeepTime

ClaimMember(r) ==
  /\ At(r, "claim") /\ MemberRowFree(r)
  /\ \/ /\ mem.ver = req[r].base
        /\ mem' = [mem EXCEPT !.ver = Bump(req[r].now, req[r].base)]
        /\ Goto(r, "create")
     \/ mem.ver # req[r].base /\ UNCHANGED mem /\ Finish(r)
  /\ UNCHANGED <<sub, pays, pg, mailed>> /\ KeepTime

(* Slip: the token is planted in whatever version the row has.               *)
BeginAnyVersion(r) ==
  LET won == TokenFree(sub, req[r].now) IN
  /\ At(r, "begin")
  /\ \/ /\ won
        /\ sub' = [sub EXCEPT !.op = req[r].now, !.ver = Bump(req[r].now, sub.ver)]
        /\ Goto(r, "create")
     \/ ~won /\ UNCHANGED sub /\ Finish(r)
  /\ UNCHANGED <<mem, pays, pg, mailed>> /\ KeepTime

(* beginBillingOperation: plant the token in the row version that was read.  *)
BeginBillingOperation(r) ==
  LET row == req[r].row
      now == req[r].now
      won == sub.ver = row.ver /\ TokenFree(sub, now)
  IN
  /\ At(r, "begin")
  /\ \/ /\ won
        /\ sub' = [sub EXCEPT !.op = now, !.ver = Bump(now, row.ver)]
        /\ Goto(r, "create")
     \/ ~won /\ UNCHANGED sub /\ Finish(r)
  /\ UNCHANGED <<mem, pays, pg, mailed>> /\ KeepTime

(* releaseBillingOperation: only a token of one's own.                       *)
ReleaseBillingOperation(r) ==
  LET now == req[r].now IN
  /\ At(r, "release")
  /\ sub' = IF sub.op = now THEN [sub EXCEPT !.op = None, !.ver = Stamp(now)] ELSE sub
  /\ Finish(r)
  /\ UNCHANGED <<mem, pays, pg, mailed>> /\ KeepTime

------------------------------------------------------------------------------
(* The attempt: written down as PENDING before the gateway is called.        *)

(* attemptRecurringCharge continues the period that ended, or starts a new   *)
(* one now when even the next has passed.                                    *)
NextPeriod(row, now) ==
  IF row.end + Period <= now THEN <<now, now + Period>> ELSE <<row.end, row.end + Period>>

Attempt(r) ==
  LET row == req[r].row
      now == req[r].now
      per == NextPeriod(row, now)
  IN
  CASE Is(r, {"START"}) ->
         [st |-> "PENDING", type |-> "INITIAL", seats |-> req[r].goal,
          from |-> now, end |-> now + Period]
    [] Is(r, {"SEAT"}) ->
         [st |-> "PENDING", type |-> "SEAT_ADD", seats |-> req[r].goal,
          from |-> now, end |-> row.end]
    [] OTHER ->
         [st |-> "PENDING", type |-> "RECURRING",
          seats |-> IF row.pend # 0 THEN row.pend ELSE row.seats,
          from |-> per[1], end |-> per[2]]

HasCard(r) == Is(r, Charging) => req[r].row.key

(* Slip: the row is created without pndng_lock_key.                          *)
CreateUnlocked(r) ==
  /\ At(r, "create") /\ HasCard(r)
  /\ pays' = [pays EXCEPT ![req[r].now] = Attempt(r)]
  /\ Goto(r, "charge")
  /\ UNCHANGED <<sub, mem, pg, mailed>> /\ KeepTime

(* createPendingAttempt: pndng_lock_key is UNIQUE per member.                *)
CreatePendingAttempt(r) ==
  /\ At(r, "create") /\ HasCard(r)
  /\ \A t \in Pending : PaymentRowFree(r, t)
  /\ \/ /\ Pending = {}
        /\ pays' = [pays EXCEPT ![req[r].now] = Attempt(r)]
        /\ Goto(r, "charge")
     \/ /\ Pending # {} /\ UNCHANGED pays
        /\ IF Is(r, {"START"}) THEN Finish(r) ELSE Goto(r, "release")
  /\ UNCHANGED <<sub, mem, pg, mailed>> /\ KeepTime

(* Without a card the gateway is not called: a FAILED row at once.           *)
NoBillingKey(r) ==
  /\ At(r, "create") /\ ~HasCard(r)
  /\ pays' = [pays EXCEPT ![req[r].now] = [Attempt(r) EXCEPT !.st = "FAILED"]]
  /\ Goto(r, "failSub")
  /\ UNCHANGED <<sub, mem, pg, mailed>> /\ KeepTime

(* gw.charge: approved and known, approved with the answer lost, declined,   *)
(* or never reached.                                                         *)
ChargeApproved(r) ==
  /\ At(r, "charge")
  /\ pg' = pg \cup {req[r].now}
  /\ Goto(r, "apply") \/ Finish(r)
  /\ UNCHANGED <<sub, mem, pays, mailed>> /\ KeepTime

ChargeNotMade(r) ==
  /\ At(r, "charge")
  /\ Goto(r, "declined") \/ Finish(r)
  /\ KeepRows /\ KeepTime

------------------------------------------------------------------------------
(* The answer of the gateway, applied.                                       *)

(* One transaction: the row becomes PAID in any case; the subscription only  *)
(* changes when the token is still this request's own.                       *)
ApplyCharge(r) ==
  LET now == req[r].now
      p == pays[now]
      mine == sub.op = now
  IN
  /\ At(r, "apply") /\ PaymentRowFree(r, now)
  /\ pays' = Settled(now, "PAID")
  /\ \/ /\ Is(r, {"START"}) /\ MemberRowFree(r)
        /\ sub' = Activated(p, now) /\ mem' = Upgraded(mem, now)
     \/ /\ Is(r, Charging) /\ mine /\ MemberRowFree(r)
        /\ sub' = Renewed(sub, p, now) /\ mem' = Upgraded(mem, now)
     \/ /\ Is(r, {"SEAT"}) /\ mine
        /\ sub' = SeatsAdded(sub, p, now) /\ UNCHANGED mem
     \/ ~Is(r, {"START"}) /\ ~mine /\ UNCHANGED <<sub, mem>>
  /\ IF Is(r, {"DAILY"}) THEN Goto(r, "refetch") ELSE Finish(r)
  /\ UNCHANGED <<pg, mailed>> /\ KeepTime

SettleDeclined(r) ==
  /\ At(r, "declined") /\ PaymentRowFree(r, req[r].now)
  /\ pays' = Settled(req[r].now, "FAILED")
  /\ CASE Is(r, {"START"}) -> Finish(r)
       [] Is(r, {"SEAT"})  -> Goto(r, "release")
       [] OTHER            -> Goto(r, "failSub")
  /\ UNCHANGED <<sub, mem, pg, mailed>> /\ KeepTime

(* recordRecurringFailure: count it under the token; retries left, the       *)
(* subscription is PAST_DUE and the token goes, none left, it is terminated. *)
RecordRecurringFailure(r) ==
  LET now == req[r].now
      failed == [sub EXCEPT !.fails = req[r].row.fails + 1, !.last = now, !.ver = Stamp(now)]
      spent == req[r].row.fails + 1 > MaxRetry
  IN
  /\ At(r, "failSub")
  /\ \/ /\ sub.op = now /\ spent
        /\ sub' = failed /\ Goto(r, "expire")
     \/ /\ sub.op = now /\ ~spent
        /\ sub' = [failed EXCEPT !.st = "PAST_DUE", !.op = None] /\ Finish(r)
     \/ sub.op # now /\ UNCHANGED sub /\ Finish(r)
  /\ UNCHANGED <<mem, pays, pg, mailed>> /\ KeepTime

(* terminateSubscription with the token: EXPIRED.                            *)
ExpireSubscription(r) ==
  LET now == req[r].now IN
  /\ At(r, "expire") /\ MemberRowFree(r)
  /\ \/ /\ sub.op = now
        /\ sub' = Terminated(sub, "EXPIRED", now) /\ mem' = Downgraded(mem, now)
     \/ sub.op # now /\ UNCHANGED <<sub, mem>>
  /\ Finish(r)
  /\ UNCHANGED <<pays, pg, mailed>> /\ KeepTime

------------------------------------------------------------------------------
(* Changes outside a charge.                                                 *)

(* Slip: a withdrawal does not look for attempts.                            *)
AssertUnlessWithdrawal(r) ==
  /\ At(r, "check")
  /\ Is(r, {"WITHDRAW"}) => MemberRowFree(r)
  /\ IF Pending # {} /\ ~Is(r, {"WITHDRAW"}) THEN Finish(r)
     ELSE req' = [req EXCEPT ![r].pc = "update",
                             ![r].row = IF Is(r, {"WITHDRAW"}) THEN sub ELSE @]
  /\ KeepRows /\ KeepTime

(* assertNoPendingCharge, a read; withdrawal reads the subscription with it, *)
(* after its transaction has taken the member row.                           *)
AssertNoPendingCharge(r) ==
  /\ At(r, "check")
  /\ Is(r, {"WITHDRAW"}) => MemberRowFree(r)
  /\ IF Pending # {} THEN Finish(r)
     ELSE req' = [req EXCEPT ![r].pc = "update",
                             ![r].row = IF Is(r, {"WITHDRAW"}) THEN sub ELSE @]
  /\ KeepRows /\ KeepTime

(* The columns each caller of guardedSubscriptionUpdate sets; the values     *)
(* come from the row it read, never from the row as it is.                   *)
CardReplaced(new) == [new EXCEPT !.key = TRUE]

(* Slip: the reduction books the difference, not the target.                 *)
DifferenceBooked(new, row, goal) ==
  [new EXCEPT !.pend = IF goal < row.seats THEN goal - row.seats ELSE 0]

ReductionBooked(new, row, goal) ==
  [new EXCEPT !.pend = IF goal < row.seats THEN goal ELSE 0]

CancelScheduled(new) == [new EXCEPT !.st = "CANCEL_SCHEDULED"]
Uncanceled(new) == [new EXCEPT !.st = "ACTIVE"]
Deferred(new, row) ==
  [new EXCEPT !.end = row.end + Defer, !.bill = row.bill + Defer, !.notice = FALSE]

Change(r) ==
  LET row == req[r].row
      new == [sub EXCEPT !.ver = Stamp(req[r].now)]
  IN
  CASE Is(r, {"CARD"})     -> CardReplaced(new)
    [] Is(r, {"SEAT"})     -> ReductionBooked(new, row, req[r].goal)
    [] Is(r, {"CANCEL"})   -> CancelScheduled(new)
    [] Is(r, {"UNCANCEL"}) -> Uncanceled(new)
    [] Is(r, {"DEFER"})    -> Deferred(new, row)
    [] OTHER               -> new

(* cancel while PAST_DUE, the end of a cancelled period, an admin: terminate *)
Ends(r) == Is(r, {"TERMINATE", "DAILY"}) \/ (Is(r, {"CANCEL"}) /\ req[r].row.st = "PAST_DUE")

GuardedSubscriptionUpdate(r) ==
  /\ At(r, "update") /\ ~Ends(r) /\ ~Is(r, {"WITHDRAW"})
  /\ IF TokenFree(sub, req[r].now)
     THEN /\ sub' = Change(r)
          /\ IF Is(r, {"CARD"}) THEN Goto(r, "reread") ELSE Finish(r)
     ELSE UNCHANGED sub /\ Finish(r)
  /\ UNCHANGED <<mem, pays, pg, mailed>> /\ KeepTime

(* The updated row, read back: a new card is charged at once when the        *)
(* subscription is behind.                                                   *)
RereadUpdated(r) ==
  /\ At(r, "reread")
  /\ IF sub.st = "PAST_DUE"
     THEN req' = [req EXCEPT ![r].pc = "resolve", ![r].row = sub]
     ELSE Finish(r)
  /\ KeepRows /\ KeepTime

TerminateSubscription(r) ==
  LET now == req[r].now IN
  /\ At(r, "update") /\ Ends(r) /\ MemberRowFree(r)
  /\ IF TokenFree(sub, now)
     THEN sub' = Terminated(sub, "CANCELED", now) /\ mem' = Downgraded(mem, now)
     ELSE UNCHANGED <<sub, mem>>
  /\ Finish(r)
  /\ UNCHANGED <<pays, pg, mailed>> /\ KeepTime

(* Slip: only an ACTIVE subscription is closed.                              *)
WithdrawActiveOnly(r) ==
  LET now == req[r].now IN
  /\ At(r, "update") /\ Is(r, {"WITHDRAW"}) /\ MemberRowFree(r)
  /\ mem' = [mem EXCEPT !.active = FALSE, !.ver = Stamp(now)]
  /\ sub' = IF sub.st = "ACTIVE" THEN Terminated(sub, "CANCELED", now) ELSE sub
  /\ Finish(r)
  /\ UNCHANGED <<pays, pg, mailed>> /\ KeepTime

(* DELETE member/me: the member leaves; a live subscription is closed in the *)
(* same transaction, which fails as a whole while a charge holds the token.  *)
Withdraw(r) ==
  LET now == req[r].now
      left == [mem EXCEPT !.active = FALSE, !.ver = Stamp(now)]
  IN
  /\ At(r, "update") /\ Is(r, {"WITHDRAW"}) /\ MemberRowFree(r)
  /\ \/ ~Live(req[r].row) /\ mem' = left /\ UNCHANGED sub
     \/ /\ Live(req[r].row) /\ TokenFree(sub, now)
        /\ mem' = left /\ sub' = Terminated(sub, "CANCELED", now)
     \/ Live(req[r].row) /\ ~TokenFree(sub, now) /\ UNCHANGED <<sub, mem>>
  /\ Finish(r)
  /\ UNCHANGED <<pays, pg, mailed>> /\ KeepTime

(* processExpiredManualPlan: the target was loaded when the batch began.     *)
ProcessExpiredManualPlan(r) ==
  /\ At(r, "process") /\ Is(r, {"MANUAL"}) /\ MemberRowFree(r)
  /\ mem' = Downgraded(mem, req[r].now)
  /\ Finish(r)
  /\ UNCHANGED <<sub, pays, pg, mailed>> /\ KeepTime

------------------------------------------------------------------------------
(* Advance notice of the next charge, the last thing the daily item does.    *)

Refetch(r) ==
  /\ At(r, "refetch")
  /\ IF NoticeDue(sub, req[r].now)
     THEN req' = [req EXCEPT ![r].pc = "notice", ![r].row = sub]
     ELSE Finish(r)
  /\ KeepRows /\ KeepTime

(* sendUpcomingChargeEmail succeeds or fails.                                *)
SendNotice(r) ==
  /\ At(r, "notice")
  /\ \/ mailed' = mailed \cup {req[r].row.bill} /\ Goto(r, "process")
     \/ UNCHANGED mailed /\ Finish(r)
  /\ UNCHANGED <<sub, mem, pays, pg>> /\ KeepTime

(* Slip: the row that was read is saved, not the one column.                 *)
RecordNoticeWholeRow(r) ==
  /\ At(r, "process") /\ Is(r, {"DAILY"})
  /\ sub' = [req[r].row EXCEPT !.notice = TRUE]
  /\ Finish(r)
  /\ UNCHANGED <<mem, pays, pg, mailed>> /\ KeepTime

(* Then prentc_dt is recorded, in whatever the row has become.               *)
RecordNotice(r) ==
  /\ At(r, "process") /\ Is(r, {"DAILY"})
  /\ sub' = [sub EXCEPT !.notice = TRUE]
  /\ Finish(r)
  /\ UNCHANGED <<mem, pays, pg, mailed>> /\ KeepTime

------------------------------------------------------------------------------
(* Rows a settled history has left behind: a subscription that is paid up,   *)
(* cancelled to the end of its period, behind by some failed charges, or     *)
(* over; and a member without one, perhaps on a plan an administrator gave.  *)

InitialSub(st, n, f) ==
  CASE st = "NONE" -> NoSub
    [] st \in EndedStatus ->
         [NoSub EXCEPT !.st = st, !.seats = n, !.end = 0]
    [] OTHER ->
         [NoSub EXCEPT !.st = st, !.seats = n, !.key = TRUE,
                       !.end   = IF st = "PAST_DUE" THEN 0 ELSE 1,
                       !.bill  = IF st = "PAST_DUE" THEN 0 ELSE 1,
                       !.fails = IF st = "PAST_DUE" THEN f ELSE 0,
                       !.last  = IF st = "PAST_DUE" THEN 0 ELSE None]

InitialMember(st, plan) ==
  [plan   |-> IF st \in LiveStatus THEN "BASIC" ELSE plan,
   until  |-> IF st \notin LiveStatus /\ plan = "MANUAL" THEN 1 ELSE None,
   active |-> TRUE,
   locked |-> st \in EndedStatus /\ plan = "FREE",
   ver    |-> 0]

Init ==
  /\ clock = 0 /\ lastStart = None
  /\ \E st \in Origins, n \in Seats :
       \E f \in 1 .. MaxRetry,
          plan \in IF "MANUAL" \in Kinds THEN {"FREE", "MANUAL"} ELSE {"FREE"} :
         sub = InitialSub(st, n, f) /\ mem = InitialMember(st, plan)
  /\ pays = [t \in Time |-> NoRow]
  /\ pg = {} /\ mailed = {}
  /\ req = [r \in Slot |-> Idle]

Step(r) ==
  \/ FindPending(r) \/ LookupCharge(r) \/ LookupUnknown(r)
  \/ SettleNotCharged(r) \/ FindMember(r) \/ FindExisting(r) \/ ApplyRecovered(r)
  \/ FindSubscription(r) \/ RequireActiveForSeatAdd(r)
  \/ ReadMemberVersion(r) \/ ClaimMember(r)
  \/ BeginBillingOperation(r) \/ ReleaseBillingOperation(r)
  \/ CreatePendingAttempt(r) \/ NoBillingKey(r)
  \/ ChargeApproved(r) \/ ChargeNotMade(r)
  \/ ApplyCharge(r) \/ SettleDeclined(r)
  \/ RecordRecurringFailure(r) \/ ExpireSubscription(r)
  \/ AssertNoPendingCharge(r) \/ GuardedSubscriptionUpdate(r) \/ RereadUpdated(r)
  \/ TerminateSubscription(r) \/ Withdraw(r) \/ ProcessExpiredManualPlan(r)
  \/ Refetch(r) \/ SendNotice(r) \/ RecordNotice(r)

(* The end of the modelled time, so that stopping earlier is a deadlock.     *)
EndOfTime ==
  /\ clock = Horizon /\ \A r \in Slot : At(r, "idle")
  /\ UNCHANGED vars

Next ==
  \/ Tick
  \/ \E r \in Slot : \E k \in Kinds : Start(r, k)
  \/ \E r \in Slot : Step(r)
  \/ \E r \in Slot : Crash(r)
  \/ EndOfTime

Spec == Init /\ [][Next]_vars

------------------------------------------------------------------------------
TypeOK ==
  /\ clock \in Time /\ lastStart \in Time \cup {None} /\ lastStart <= clock
  /\ sub \in Subscription /\ mem \in Member
  /\ pays \in [Time -> Payment]
  /\ pg \subseteq Time /\ mailed \subseteq Int
  /\ req \in [Slot -> Request]

------------------------------------------------------------------------------
(* Properties.                                                               *)

(* Money the gateway took is never forgotten: an order it approved has a row *)
(* that is PAID, or still PENDING and so found by the recovery (the rule of  *)
(* subscription.ts 35-40: a row is closed as FAILED only when surely unpaid).*)
ApprovedNeverLost == \A t \in pg : pays[t].st \in {"PENDING", "PAID"}

(* The payments of a member implement the ledger of ChargeLedger.            *)
Ledger == INSTANCE ChargeLedger
            WITH Order <- Time, att <- [t \in Time |-> pays[t].st], taken <- pg
LedgerSpec == Ledger!LedgerSpec

(* Nobody is charged again for a subscription period that is paid: recurring *)
(* charges cover disjoint periods unless the member subscribed anew between. *)
NoDoubleCharge ==
  \A s, t \in {o \in pg : pays[o].type = "RECURRING"} :
    s < t => \/ pays[s].end <= pays[t].from \/ pays[t].end <= pays[s].from
             \/ \E i \in pg : pays[i].type = "INITIAL" /\ s < i /\ i < t

(* The gateway takes a first payment only from a member who has no live      *)
(* subscription (activateSubscription turns the others away).                *)
OneFirstPayment ==
  [][\A t \in pg' \ pg : pays[t].type = "INITIAL" => ~Live(sub)]_vars

(* The gateway takes a renewal or a seat payment only while the subscription *)
(* runs: never after a cancellation, an end or a withdrawal was accepted.    *)
NoChargeAfterCancel ==
  [][\A t \in pg' \ pg :
       pays[t].type # "INITIAL" => sub.st \notin {"CANCEL_SCHEDULED", "CANCELED"}]_vars

(* A request that owns the billing token keeps it until it is done with its  *)
(* charge, so no approved charge finds the subscription taken over.          *)
TokenHeld ==
  \A r \in Slot :
    /\ req[r].pc \in {"create", "charge", "apply", "declined", "failSub", "release"}
    /\ ~Is(r, {"START"})
    => sub.op = req[r].now

(* The member's plan mirrors the subscription: BASIC and unlocked while one  *)
(* is live, not BASIC when none is (subscription.ts 18-19).                  *)
PlanMirror ==
  mem.active => /\ Live(sub) => mem.plan = "BASIC" /\ ~mem.locked
                /\ ~Live(sub) => mem.plan # "BASIC"

(* A subscription that has ended keeps no card that could be charged again.  *)
EndedHasNoCard == sub.st \in EndedStatus => ~sub.key

(* A recovery writes for an attempt that another has settled: nothing that   *)
(* it has read about the subscription is locked.                             *)
Reapplies(r) ==
  At(r, "reapply") /\ pays[req[r].tgt].st # "PENDING" /\ req'[r].pc # "reapply"

(* An ended subscription comes back only with a first payment that is        *)
(* settled as PAID in the same step, or by the second of two recoveries of   *)
(* one attempt: no renewal ever crosses an end, nor does the recovery that   *)
(* settles the attempt.                                                      *)
EndedStaysUnlessReapplied ==
  [][sub.st \in EndedStatus /\ sub'.st \notin EndedStatus =>
       \/ \E t \in Time : /\ pays[t].type = "INITIAL"
                          /\ pays[t].st = "PENDING" /\ pays'[t].st = "PAID"
       \/ \E r \in Slot : Reapplies(r)]_vars

(* A recovered renewal or seat payment takes effect on a live subscription   *)
(* only (subscription.ts 1296: on one that is not, it has no effect), when   *)
(* the recovery settles the attempt: the status was read statements before.  *)
RecoveredWhileLive ==
  [][\A r \in Slot :
       /\ At(r, "reapply") /\ pays[req[r].tgt].type # "INITIAL" /\ ~Reapplies(r)
       /\ req'[r].pc # "reapply" /\ sub' # sub
       => Live(sub)]_vars

(* The seats of a live subscription are those of the payment settled last:   *)
(* every payment that was settled has been applied, and nothing else was.    *)
SeatsMatchLastPayment ==
  \A t \in Time :
    /\ Live(sub) /\ pays[t].st = "PAID"
    /\ \A u \in Time : pays[u].st = "PAID" => u <= t
    => sub.seats = pays[t].seats

(* A member who has withdrawn has no live subscription: nothing more is      *)
(* charged to the card of somebody who left.                                 *)
NoSubAfterWithdrawal == ~mem.active => ~Live(sub)

(* Nobody leaves a live subscription behind, and none comes to life for a    *)
(* member who has left, except by the second of two recoveries of an attempt.*)
LeftWithoutSub ==
  [][~mem'.active /\ Live(sub') =>
       (~mem.active /\ Live(sub)) \/ \E r \in Slot : Reapplies(r)]_vars

(* prentc_dt says that advance notice of the coming bill was given: then a   *)
(* notice naming that very date has been sent.                               *)
PrenoticeHonest == sub.st = "ACTIVE" /\ sub.notice => sub.bill \in mailed
==============================================================================
