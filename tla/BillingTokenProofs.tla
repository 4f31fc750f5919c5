------------------------ MODULE BillingTokenProofs ------------------------
(* The operation token of BillingCharge, for every value of its constants:   *)
(* among requests on a subscription that exists, whoever holds it keeps it,  *)
(* and the version it was planted over is never written again.  So a charge  *)
(* that was decided before a cancellation, or before the end, never begins   *)
(* after it.                                                                 *)
EXTENDS BillingMoneyProofs

(* Where a request relies on the token it has planted.                       *)
Holding == {"create", "charge", "apply", "declined", "failSub", "release", "expire"}

Held == \A r \in Slot : req[r].pc \in Holding => sub.op = req[r].now

(* No first payment is under way, nor was one ever attempted.                *)
NoFirstPayment ==
  /\ \A r \in Slot : req[r].kind # "START" /\ req[r].pc \notin {"claimRead", "claim"}
  /\ \A t \in Time : pays[t].type # "INITIAL"

TokenInv == Held /\ NoFirstPayment

(* Nobody else holds the token when a statement guarded by it takes effect:  *)
(* a token in use is neither expired for, nor equal to that of, another      *)
(* running request.                                                          *)
LEMMA HolderAlone ==
  ASSUME Typed, MoneyInv, TokenInv, NEW r \in Slot, Running(r),
         TokenFree(sub, req[r].now) \/ sub.op = req[r].now
  PROVE  \A q \in Slot \ {r} : req[q].pc \notin Holding
<1> SUFFICES ASSUME NEW q \in Slot \ {r}, req[q].pc \in Holding PROVE FALSE
  OBVIOUS
<1>1. Running(q) /\ sub.op = req[q].now
  BY DEF TokenInv, Held, Holding, Running
<1>2. /\ req[r].now \in Time /\ req[q].now \in Time /\ req[q].now # req[r].now
      /\ req[r].now <= lastStart /\ clock <= req[q].now + Life
  BY <1>1 DEF MoneyInv, Clocked
<1>3. lastStart <= clock /\ clock \in Int /\ lastStart \in Int
  BY DEF Typed, ClockTyped, Time, None
<1> QED BY <1>1, <1>2, <1>3, TimeoutAssumption DEF TokenFree, Time, None

------------------------------------------------------------------------------
(* What a step does to the token.                                            *)

(* A step of a request changes that request only, which goes on as it was or *)
(* is done.                                                                  *)
Acts(r) ==
  /\ Running(r)
  /\ \A q \in Slot \ {r} : req'[q] = req[q]
  /\ \/ req'[r].pc = "idle" /\ req'[r].kind = "NOKIND"
     \/ req'[r].now = req[r].now /\ req'[r].kind = req[r].kind

(* The token stays, and nobody relies on it who did not before; or the step  *)
(* is guarded by the token, and plants its own where it relies on it.        *)
TokenEffect(r) ==
  \/ sub'.op = sub.op /\ (req'[r].pc \in Holding => req[r].pc \in Holding)
  \/ /\ TokenFree(sub, req[r].now) \/ sub.op = req[r].now
     /\ req'[r].pc \in Holding => sub'.op = req[r].now

(* The step neither begins nor records a first payment.                      *)
Ordinary(r) ==
  /\ req'[r].pc \notin {"claimRead", "claim"}
  /\ \A t \in Time : pays'[t].type # "INITIAL"

LEMMA TokenPreserved ==
  ASSUME Typed, MoneyInv, TokenInv, NEW r \in Slot, Acts(r), TokenEffect(r), Ordinary(r)
  PROVE  TokenInv'
<1>1. Running(r) /\ \A q \in Slot \ {r} : req'[q] = req[q]
  BY DEF Acts
<1>2. NoFirstPayment'
  BY <1>1 DEF TokenInv, NoFirstPayment, Acts, Ordinary
<1>3. req'[r].pc \in Holding => req'[r].now = req[r].now
  BY DEF Acts, Holding
<1>4. CASE sub'.op = sub.op /\ (req'[r].pc \in Holding => req[r].pc \in Holding)
  BY <1>1, <1>2, <1>3, <1>4 DEF TokenInv, Held
<1>5. CASE /\ TokenFree(sub, req[r].now) \/ sub.op = req[r].now
           /\ req'[r].pc \in Holding => sub'.op = req[r].now
  <2>1. \A q \in Slot \ {r} : req[q].pc \notin Holding
    BY <1>1, <1>5, HolderAlone
  <2> QED BY <1>1, <1>2, <1>3, <1>5, <2>1 DEF TokenInv, Held
<1> QED BY <1>4, <1>5 DEF TokenEffect

LEMMA FinishActs ==
  ASSUME Typed, NEW r \in Slot, Running(r), Finish(r)
  PROVE  Acts(r) /\ req'[r].pc = "idle"
BY DEF Typed, ReqTyped, Finish, Idle, Acts

LEMMA TurnsActs ==
  ASSUME Typed, NEW r \in Slot, Running(r), NEW p, Turns(r, p)
  PROVE  Acts(r) /\ req'[r].pc = p
<1>1. req \in [Slot -> Request]
  BY DEF Typed, ReqTyped
<1> QED BY <1>1 DEF Turns, Goto, Acts, Request

------------------------------------------------------------------------------
(* The steps, by what they do to the token.                                  *)

(* Among the requests concerned, a resolution goes on to `begin` or is over. *)
LEMMA ResolvedActs ==
  ASSUME Typed, TokenInv, NEW r \in Slot, Running(r), Resolved(r)
  PROVE  Acts(r) /\ req'[r].pc \in {"begin", "idle"}
<1>1. AfterResolve(r) \in {"begin", "idle"}
  BY DEF AfterResolve, Is, TokenInv, NoFirstPayment
<1>2. CASE AfterResolve(r) = "idle"
  BY <1>2, FinishActs DEF Resolved
<1>3. CASE AfterResolve(r) # "idle"
  <2>1. Turns(r, AfterResolve(r))
    BY <1>3 DEF Resolved, Turns, None
  <2> QED BY <1>1, <2>1, TurnsActs
<1> QED BY <1>2, <1>3

(* Steps that leave the subscription row and the payments alone.             *)
LEMMA ReadingSteps ==
  ASSUME Typed, MoneyInv, TokenInv, NEW r \in Slot,
         \/ FindPending(r) \/ LookupCharge(r) \/ LookupUnknown(r) \/ ReadsOn(r)
         \/ FindSubscription(r) \/ RequireActiveForSeatAdd(r) \/ ChargeApproved(r)
         \/ ChargeNotMade(r) \/ AssertNoPendingCharge(r) \/ RereadUpdated(r)
         \/ ProcessExpiredManualPlan(r) \/ Refetch(r) \/ SendNotice(r)
  PROVE  TokenInv'
<1> DEFINE Later(p) == /\ p \notin {"claimRead", "claim"}
                       /\ p \in Holding => req[r].pc \in Holding
<1>1. Running(r) /\ UNCHANGED <<sub, pays>>
  BY ReadsOnKeeps
     DEF FindPending, LookupCharge, LookupUnknown, FindSubscription,
     RequireActiveForSeatAdd, ChargeApproved, ChargeNotMade, AssertNoPendingCharge,
     RereadUpdated, ProcessExpiredManualPlan, Refetch, SendNotice, KeepRows, At, Running
<1>2. sub \in Subscription /\ req[r].row \in Subscription
  BY <1>1, RunningTyped DEF Typed
<1>3. Resolved(r) \/ Finish(r) \/ \E p : Later(p) /\ Turns(r, p)
  <2>1. CASE FindPending(r)
    <3>1. Later("lookup")
      BY DEF Holding
    <3>2. \A t \in Pending : t \in Int
      BY DEF Pending, Time
    <3>3. Resolved(r) \/ Finish(r) \/ Turns(r, "lookup")
      BY <2>1, <3>2 DEF FindPending, Turns
    <3> QED BY <3>1, <3>3
  <2>2. CASE LookupCharge(r)
    <3>1. Later("recover") /\ Later("notCharged")
      BY DEF Holding
    <3>2. Turns(r, "recover") \/ Turns(r, "notCharged")
      BY <2>2 DEF LookupCharge, Turns
    <3> QED BY <3>1, <3>2
  <2>3. CASE FindSubscription(r)
    <3>1. Later(AfterFind(r))
      BY DEF AfterFind, SeatTurn, DailyTurn, Holding, TokenInv, NoFirstPayment
    <3>2. Finish(r) \/ Turns(r, AfterFind(r))
      BY <1>2, <2>3 DEF FindSubscription, Turns
    <3> QED BY <3>1, <3>2
  <2>4. CASE RequireActiveForSeatAdd(r) \/ RereadUpdated(r)
    <3>1. Later("resolve")
      BY DEF Holding
    <3>2. Finish(r) \/ Turns(r, "resolve")
      BY <1>2, <2>4 DEF RequireActiveForSeatAdd, RereadUpdated, Turns
    <3> QED BY <3>1, <3>2
  <2>5. CASE ChargeApproved(r) \/ ChargeNotMade(r)
    <3>1. Later("apply") /\ Later("declined")
      BY <2>5 DEF ChargeApproved, ChargeNotMade, At, Holding
    <3>2. Finish(r) \/ Turns(r, "apply") \/ Turns(r, "declined")
      BY <2>5 DEF ChargeApproved, ChargeNotMade, Turns
    <3> QED BY <3>1, <3>2
  <2>6. CASE AssertNoPendingCharge(r)
    <3>1. Later("update")
      BY DEF Holding
    <3>2. Finish(r) \/ Turns(r, "update")
      BY <1>2, <2>6 DEF AssertNoPendingCharge, Turns
    <3> QED BY <3>1, <3>2
  <2>7. CASE Refetch(r) \/ SendNotice(r)
    <3>1. Later("notice") /\ Later("process")
      BY DEF Holding
    <3>2. Finish(r) \/ Turns(r, "notice") \/ Turns(r, "process")
      BY <1>2, <2>7 DEF Refetch, SendNotice, Turns
    <3> QED BY <3>1, <3>2
  <2>8. CASE LookupUnknown(r) \/ ProcessExpiredManualPlan(r)
    BY <2>8 DEF LookupUnknown, ProcessExpiredManualPlan
  <2>9. CASE ReadsOn(r)
    <3>1. Later("existing") /\ Later("reapply")
      BY DEF Holding
    <3>2. Turns(r, "existing") \/ Turns(r, "reapply")
      BY <2>9 DEF ReadsOn, Turns
    <3> QED BY <3>1, <3>2
  <2> QED BY <2>1, <2>2, <2>3, <2>4, <2>5, <2>6, <2>7, <2>8, <2>9
<1>4. Acts(r) /\ Later(req'[r].pc)
  <2>1. Later("begin") /\ Later("idle")
    BY DEF Holding
  <2>2. CASE Resolved(r)
    BY <1>1, <2>1, <2>2, ResolvedActs
  <2>3. CASE Finish(r)
    BY <1>1, <2>1, <2>3, FinishActs
  <2>4. ASSUME NEW p, Later(p), Turns(r, p) PROVE Acts(r) /\ Later(req'[r].pc)
    BY <1>1, <2>4, TurnsActs
  <2> QED BY <1>3, <2>2, <2>3, <2>4
<1>5. TokenEffect(r) /\ Ordinary(r)
  BY <1>1, <1>4 DEF TokenEffect, Ordinary, TokenInv, NoFirstPayment
<1> QED BY <1>4, <1>5, TokenPreserved

(* Steps that write an attempt down, or settle one, and leave the row alone. *)
LEMMA AttemptSteps ==
  ASSUME Typed, MoneyInv, TokenInv, NEW r \in Slot,
         \/ CreatePendingAttempt(r) \/ NoBillingKey(r)
         \/ SettleNotCharged(r) \/ SettlesUnapplied(r) \/ SettleDeclined(r)
  PROVE  TokenInv'
<1>1. Running(r) /\ sub' = sub
  BY UnappliedKeeps
     DEF CreatePendingAttempt, NoBillingKey, SettleNotCharged, SettleDeclined, At, Running
<1>2. pays \in [Time -> Payment]
  BY DEF Typed, RowsTyped
<1>3. \A t \in Time : pays'[t].type # "INITIAL"
  <2>1. CASE CreatePendingAttempt(r) \/ NoBillingKey(r)
    <3>1. /\ Attempt(r) \in Payment /\ Attempt(r).type # "INITIAL"
          /\ [Attempt(r) EXCEPT !.st = "FAILED"].type # "INITIAL"
      <4>1. Attempt(r) \in Payment
        BY <1>1, AttemptTyped DEF Typed
      <4>2. Attempt(r).type # "INITIAL"
        BY DEF Attempt, Is, TokenInv, NoFirstPayment
      <4> QED BY <4>1, <4>2 DEF Payment
    <3> HIDE DEF Attempt
    <3> QED BY <1>2, <2>1, <3>1 DEF CreatePendingAttempt, NoBillingKey, TokenInv, NoFirstPayment
  <2>2. CASE SettleNotCharged(r) \/ SettlesUnapplied(r) \/ SettleDeclined(r)
    <3>1. \E t, st : pays' = Settled(t, st)
      BY <2>2, UnappliedKeeps DEF SettleNotCharged, SettleDeclined
    <3>2. ASSUME NEW t, NEW st, pays' = Settled(t, st)
          PROVE  \A u \in Time : pays'[u].type # "INITIAL"
      BY <1>2, <3>2 DEF Settled, Payment, TokenInv, NoFirstPayment
    <3> QED BY <3>1, <3>2
  <2> QED BY <2>1, <2>2
<1>4. /\ Acts(r) /\ req'[r].pc \notin {"claimRead", "claim"}
      /\ req'[r].pc \in Holding => req[r].pc \in Holding
  <2>1. CASE SettleNotCharged(r) \/ SettlesUnapplied(r)
    <3>1. Acts(r) /\ req'[r].pc \in {"begin", "idle"}
      BY <1>1, <2>1, ResolvedActs, UnappliedKeeps DEF SettleNotCharged
    <3> QED BY <3>1 DEF Holding
  <2>2. CASE CreatePendingAttempt(r) \/ NoBillingKey(r) \/ SettleDeclined(r)
    <3>1. Finish(r) \/ \E p \in {"charge", "release", "failSub"} : Goto(r, p)
      BY <2>2 DEF CreatePendingAttempt, NoBillingKey, SettleDeclined
    <3>2. Acts(r) /\ req'[r].pc \in {"charge", "release", "failSub", "idle"}
      BY <1>1, <3>1, FinishActs, TurnsActs DEF Turns
    <3>3. req[r].pc \in Holding
      BY <2>2 DEF CreatePendingAttempt, NoBillingKey, SettleDeclined, At, Holding
    <3> QED BY <3>2, <3>3
  <2> QED BY <2>1, <2>2
<1> QED BY <1>1, <1>3, <1>4, TokenPreserved DEF TokenEffect, Ordinary

(* The operation is begun: the token was free, and is planted.               *)
LEMMA BeginSteps ==
  ASSUME Typed, MoneyInv, TokenInv, NEW r \in Slot, BeginBillingOperation(r)
  PROVE  TokenInv'
<1>1. Running(r) /\ UNCHANGED pays /\ sub \in Subscription
  BY DEF BeginBillingOperation, At, Running, Typed, RowsTyped
<1>2. CASE Finish(r) /\ sub' = sub
  <2>1. Acts(r) /\ req'[r].pc = "idle"
    BY <1>1, <1>2, FinishActs
  <2> QED BY <1>1, <1>2, <2>1, TokenPreserved
          DEF TokenEffect, Ordinary, Holding, TokenInv, NoFirstPayment
<1>3. CASE /\ TokenFree(sub, req[r].now) /\ Goto(r, "create")
           /\ sub' = [sub EXCEPT !.op = req[r].now, !.ver = Bump(req[r].now, req[r].row.ver)]
  <2>1. Acts(r) /\ req'[r].pc = "create"
    BY <1>1, <1>3, TurnsActs DEF Turns
  <2>2. sub'.op = req[r].now
    BY <1>1, <1>3 DEF Subscription
  <2> QED BY <1>1, <1>3, <2>1, <2>2, TokenPreserved
          DEF TokenEffect, Ordinary, TokenInv, NoFirstPayment
<1> QED BY <1>2, <1>3 DEF BeginBillingOperation

(* Steps that change the row under the token, or leave it, and are over or   *)
(* go on where nobody relies on the token.                                   *)
LEMMA GuardedSteps ==
  ASSUME Typed, MoneyInv, TokenInv, NEW r \in Slot,
         \/ ReleaseBillingOperation(r) \/ ExpireSubscription(r) \/ TerminateSubscription(r)
         \/ Withdraw(r) \/ GuardedSubscriptionUpdate(r) \/ RecordNotice(r)
  PROVE  TokenInv'
<1>1. Running(r) /\ UNCHANGED pays /\ sub \in Subscription
  BY DEF ReleaseBillingOperation, ExpireSubscription, TerminateSubscription, Withdraw,
     GuardedSubscriptionUpdate, RecordNotice, At, Running, Typed, RowsTyped
<1>2. Finish(r) \/ Goto(r, "reread")
  BY DEF ReleaseBillingOperation, ExpireSubscription, TerminateSubscription, Withdraw,
     GuardedSubscriptionUpdate, RecordNotice
<1>3. Acts(r) /\ req'[r].pc \in {"idle", "reread"}
  BY <1>1, <1>2, FinishActs, TurnsActs DEF Turns
<1>4. sub'.op = sub.op \/ TokenFree(sub, req[r].now) \/ sub.op = req[r].now
  <2>1. CASE RecordNotice(r)
    BY <1>1, <2>1 DEF RecordNotice, Subscription
  <2>2. CASE ReleaseBillingOperation(r) \/ ExpireSubscription(r)
    BY <2>2 DEF ReleaseBillingOperation, ExpireSubscription
  <2>3. CASE TerminateSubscription(r) \/ Withdraw(r) \/ GuardedSubscriptionUpdate(r)
    BY <2>3 DEF TerminateSubscription, Withdraw, GuardedSubscriptionUpdate
  <2> QED BY <2>1, <2>2, <2>3
<1>5. TokenEffect(r) /\ Ordinary(r)
  BY <1>1, <1>3, <1>4 DEF TokenEffect, Ordinary, Holding, TokenInv, NoFirstPayment
<1> QED BY <1>3, <1>5, TokenPreserved

(* The last failure keeps the token for the end of the subscription.         *)
LEMMA FailureSteps ==
  ASSUME Typed, MoneyInv, TokenInv, NEW r \in Slot, RecordRecurringFailure(r)
  PROVE  TokenInv'
<1>1. Running(r) /\ UNCHANGED pays /\ sub \in Subscription /\ req[r].pc \in Holding
  BY DEF RecordRecurringFailure, At, Running, Typed, RowsTyped, Holding
<1>2. sub.op = req[r].now
  BY <1>1 DEF TokenInv, Held
<1>3. \/ Goto(r, "expire") /\ sub'.op = sub.op
      \/ Finish(r)
  BY <1>1, <1>2 DEF RecordRecurringFailure, Subscription
<1>4. Acts(r) /\ req'[r].pc \in {"expire", "idle"} /\ (req'[r].pc = "expire" => sub'.op = sub.op)
  <2>1. CASE Finish(r)
    BY <1>1, <2>1, FinishActs
  <2>2. CASE Goto(r, "expire") /\ sub'.op = sub.op
    BY <1>1, <2>2, TurnsActs DEF Turns
  <2> QED BY <1>3, <2>1, <2>2
<1>5. TokenEffect(r) /\ Ordinary(r)
  BY <1>1, <1>2, <1>4 DEF TokenEffect, Ordinary, Holding, TokenInv, NoFirstPayment
<1> QED BY <1>4, <1>5, TokenPreserved

(* The effect of a charge, applied by the request that made it or by one     *)
(* that found it.                                                            *)
LEMMA ApplyingSteps ==
  ASSUME Typed, MoneyInv, TokenInv, NEW r \in Slot, ApplyCharge(r) \/ ApplyRecovered(r)
  PROVE  TokenInv'
<1>1. Running(r) /\ pays \in [Time -> Payment]
  BY DEF ApplyCharge, ApplyRecovered, At, Running, Typed, RowsTyped
<1>2. Acts(r) /\ req'[r].pc \in {"refetch", "begin", "idle"}
  <2>1. CASE ApplyCharge(r)
    <3>1. Finish(r) \/ Goto(r, "refetch")
      BY <2>1 DEF ApplyCharge
    <3> QED BY <1>1, <3>1, FinishActs, TurnsActs DEF Turns
  <2>2. CASE ApplyRecovered(r)
    BY <1>1, <2>2, ResolvedActs DEF ApplyRecovered
  <2> QED BY <2>1, <2>2
<1>3. \A t \in Time : pays'[t].type = pays[t].type
  BY <1>1 DEF ApplyCharge, ApplyRecovered, Settled, Payment
<1>4. sub' = sub \/ TokenFree(sub, req[r].now) \/ sub.op = req[r].now
  <2>1. CASE ApplyCharge(r)
    BY <2>1 DEF ApplyCharge, Is, TokenInv, NoFirstPayment
  <2>2. CASE ApplyRecovered(r)
    <3>1. pays[req[r].tgt].type # "INITIAL"
      BY <2>2 DEF ApplyRecovered, MoneyInv, Looked, Looking, At, TokenInv, NoFirstPayment
    <3> QED BY <2>2, <3>1 DEF ApplyRecovered
  <2> QED BY <2>1, <2>2
<1>5. TokenEffect(r) /\ Ordinary(r)
  BY <1>2, <1>3, <1>4 DEF TokenEffect, Ordinary, Holding, TokenInv, NoFirstPayment
<1> QED BY <1>2, <1>5, TokenPreserved

------------------------------------------------------------------------------
LEMMA TokenInit == Init => TokenInv
<1> SUFFICES ASSUME Init PROVE TokenInv
  OBVIOUS
<1>1. /\ \A r \in Slot : req[r].pc = "idle" /\ req[r].kind = "NOKIND"
      /\ \A t \in Time : pays[t].type = "NONE"
  BY DEF Init, Idle, NoRow
<1> QED BY <1>1 DEF TokenInv, Held, NoFirstPayment, Holding

LEMMA TokenStep ==
  ASSUME "START" \notin Kinds, Typed, MoneyInv, TokenInv, [Next]_vars
  PROVE  TokenInv'
<1>1. CASE Tick \/ EndOfTime \/ UNCHANGED vars
  <2>1. UNCHANGED <<req, sub, pays>>
    BY <1>1 DEF Tick, EndOfTime, vars, KeepRows
  <2> QED BY <2>1 DEF TokenInv, Held, NoFirstPayment
<1>2. ASSUME NEW r \in Slot, NEW k \in Kinds, Start(r, k) PROVE TokenInv'
  <2>1. UNCHANGED <<sub, pays>> /\ \A q \in Slot \ {r} : req'[q] = req[q]
    BY <1>2 DEF Start, KeepRows, Typed, ReqTyped
  <2>2. req'[r].kind = k /\ req'[r].pc = FirstStep(k)
    BY <1>2 DEF Start, Typed, ReqTyped, Idle
  <2>3. FirstStep(k) \in {"resolve", "check", "find"}
    BY DEF FirstStep
  <2> QED BY <2>1, <2>2, <2>3 DEF TokenInv, Held, NoFirstPayment, Holding
<1>3. ASSUME NEW r \in Slot, Step(r) PROVE TokenInv'
  <2>1. ~ReadMemberVersion(r) /\ ~ClaimMember(r)
    BY DEF ReadMemberVersion, ClaimMember, At, TokenInv, NoFirstPayment
  <2> QED BY <1>3, <2>1, Finds, ReadingSteps, AttemptSteps, BeginSteps, GuardedSteps,
             FailureSteps, ApplyingSteps DEF Step
<1>4. ASSUME NEW r \in Slot, Crash(r) PROVE TokenInv'
  <2>1. Running(r) /\ Acts(r) /\ req'[r].pc = "idle" /\ UNCHANGED <<sub, pays>>
    BY <1>4, FinishActs DEF Crash, Running, At, KeepRows
  <2> QED BY <2>1, TokenPreserved DEF TokenEffect, Ordinary, Holding, TokenInv, NoFirstPayment
<1> QED BY <1>1, <1>2, <1>3, <1>4 DEF Next

(* A request that has planted its operation token keeps it until it is done: *)
(* whatever else arrives, dies or is recovered, nobody takes over a renewal  *)
(* or a seat payment half way, because no request outlives its token.  First *)
(* payments are left out: they plant no token, and a doubled one (the run    *)
(* double_first) sets the row as a whole while a renewal holds it.           *)
THEOREM TokenKept == "START" \notin Kinds => (Spec => []TokenHeld)
<1> SUFFICES ASSUME "START" \notin Kinds PROVE Spec => []TokenHeld
  OBVIOUS
<1>1. TokenInv => TokenHeld
  BY DEF TokenInv, Held, Holding, TokenHeld
<1>2. Typed /\ MoneyInv /\ TokenInv /\ [Next]_vars => TokenInv'
  BY TokenStep
<1> QED
  BY <1>1, <1>2, TypedInit, TypedStep, MoneyInit, MoneyStep, TokenInit, PTL DEF Spec

------------------------------------------------------------------------------
(* A cancellation and the charges that cross it.  A charge begins in the row *)
(* version its request has read; a cancellation writes a version nobody has  *)
(* read, and everybody who reads it is turned away.                          *)

Cancelled == {"CANCEL_SCHEDULED", "CANCELED"}
Recovering == {"resolve"} \cup Looking

(* A request that has not written the subscription yet: a card replacement   *)
(* has when it gets as far as a charge.                                      *)
Fresh(q) ==
  \/ q.pc \in {"find", "refind", "check", "update"}
  \/ q.pc \in Recovering /\ q.kind # "CARD"

(* A request that means to charge on the strength of the row it has read.    *)
Asking(q) == q.pc = "begin" \/ (q.pc \in Recovering /\ q.kind # "SWEEP")

(* The version of the row is the time of a request that has written it; or   *)
(* one more, while a token is planted which that time does not outlive.      *)
Versioned ==
  \E t \in Time \cup {None} :
    /\ t <= lastStart
    /\ \/ sub.ver = Stamp(t)
       \/ sub.ver = Stamp(t) + 1 /\ sub.op # None /\ t <= sub.op + Life

Past(v) == \E t \in Time \cup {None} : t <= lastStart /\ v \in {Stamp(t), Stamp(t) + 1}
RowsPast == \A r \in Slot : Past(req[r].row.ver)

(* The version that a request is to write has been neither written nor read. *)
Unwritten ==
  \A r \in Slot : Fresh(req[r]) =>
    sub.ver # Stamp(req[r].now) /\ \A q \in Slot : req[q].row.ver # Stamp(req[r].now)

(* A card replacement has seen no open attempt; one made since is too young  *)
(* to be looked up as lost, so it never recovers anything.                   *)
CardClear ==
  \A r \in Slot :
    /\ At(r, "reread") => Is(r, {"CARD"})
    /\ Is(r, {"CARD"}) =>
         /\ req[r].pc \notin Looking \cup {"refind"}
         /\ req[r].pc \in {"update", "reread", "resolve"} =>
              \A t \in Pending : req[r].now < t + Stale

(* Nobody may begin a charge, and nobody holds the token.                    *)
Out ==
  \A r \in Slot : (Asking(req[r]) => sub.ver # req[r].row.ver) /\ req[r].pc \notin Holding

CancelSeen == sub.st \in Cancelled => Out

CancelInv == Versioned /\ RowsPast /\ Unwritten /\ CardClear /\ CancelSeen

------------------------------------------------------------------------------
(* What a step does to the version, and where it leads.                      *)

Kept == sub'.ver = sub.ver /\ sub'.op = sub.op /\ sub'.st = sub.st

Written(r) ==
  /\ TokenFree(sub, req[r].now) \/ sub.op = req[r].now
  /\ sub'.ver = Stamp(req[r].now) /\ sub'.op \in {sub.op, None}
  /\ req[r].pc \in {"update", "reapply"} \cup Holding
  /\ At(r, "update") \/ sub'.st = sub.st \/ sub'.st \notin Cancelled

Begun(r) ==
  /\ At(r, "begin") /\ sub.ver = req[r].row.ver /\ TokenFree(sub, req[r].now)
  /\ sub'.op = req[r].now /\ sub'.ver = Bump(req[r].now, sub.ver) /\ sub'.st = sub.st

(* From where a request stood to where it stands, with the row it has read.  *)
Leads(r) ==
  /\ req'[r].row = req[r].row \/ req'[r].row = sub \/ req'[r].row.ver = 0
  /\ Fresh(req'[r]) => Fresh(req[r]) /\ sub'.ver = sub.ver
  /\ Asking(req'[r]) =>
       \/ Asking(req[r]) /\ req'[r].row = req[r].row
       \/ req'[r].row = sub /\ sub.st \in {"ACTIVE", "PAST_DUE"} /\ sub' = sub
  /\ req'[r].pc \in Holding => req[r].pc \in Holding \/ Begun(r)

(* A card replacement looks up nothing; it has seen no open attempt.         *)
CardLeads(r) ==
  /\ \A t \in Pending' : t \in Pending \/ t = req[r].now
  /\ req'[r].pc = "reread" => req'[r].kind = "CARD"
  /\ req'[r].kind = "CARD" =>
       /\ req'[r].pc \notin Looking \cup {"refind"}
       /\ req'[r].pc \in {"update", "reread", "resolve"} =>
            Pending' = Pending /\ (Pending = {} \/ req[r].pc \in {"update", "reread", "resolve"})

Effect(r) ==
  KeepTime /\ Acts(r) /\ (Kept \/ Written(r) \/ Begun(r)) /\ Leads(r) /\ CardLeads(r)

(* When a request runs.                                                      *)
LEMMA Timely ==
  ASSUME Typed, MoneyInv, NEW r \in Slot, Running(r)
  PROVE  /\ req[r].now \in Time /\ req[r].now \in Nat /\ req[r].now <= lastStart
         /\ lastStart <= clock /\ clock <= req[r].now + Life
         /\ lastStart \in Int /\ clock \in Int /\ sub.ver \in Nat /\ sub.op \in Int
         /\ req[r].row.ver \in Nat
<1>1. sub \in Subscription /\ req[r].row \in Subscription
  BY RunningTyped DEF Typed
<1>2. sub.ver \in Nat /\ sub.op \in Int /\ req[r].row.ver \in Nat
  BY <1>1 DEF Subscription
<1> QED BY <1>2 DEF MoneyInv, Clocked, Typed, ClockTyped, Time, None

(* A row that is begun in is left at a version of the beginner's own time,   *)
(* or at the odd one between two of others.                                  *)
LEMMA BegunVersion ==
  ASSUME Typed, MoneyInv, NEW r \in Slot, Running(r), Begun(r), Versioned
  PROVE  \/ sub'.ver = Stamp(req[r].now)
         \/ \E t \in Time \cup {None} :
              t <= lastStart /\ sub'.ver = Stamp(t) + 1 /\ t <= req[r].now + Life
<1> DEFINE now == req[r].now
<1>1. /\ now \in Time /\ now \in Nat /\ now <= lastStart /\ lastStart <= clock
      /\ clock <= now + Life /\ lastStart \in Int /\ clock \in Int
      /\ sub.ver \in Nat /\ sub.op \in Int
  BY Timely
<1>2. PICK t \in Time \cup {None} :
        /\ t <= lastStart
        /\ \/ sub.ver = Stamp(t)
           \/ sub.ver = Stamp(t) + 1 /\ sub.op # None /\ t <= sub.op + Life
  BY DEF Versioned
<1>3. t \in Int
  BY DEF Time, None
<1>4. CASE sub.ver = Stamp(t) + 1 /\ sub.op # None /\ t <= sub.op + Life
  BY <1>1, <1>3, <1>4, TimeoutAssumption DEF Begun, TokenFree, Bump, Stamp
<1>5. CASE sub.ver = Stamp(t)
  BY <1>1, <1>2, <1>3, <1>5, TimeoutAssumption DEF Begun, Bump, Stamp
<1> QED BY <1>2, <1>4, <1>5

LEMMA VersionedKept ==
  ASSUME Typed, MoneyInv, NEW r \in Slot, Effect(r), Versioned
  PROVE  Versioned'
<1>1. Running(r) /\ UNCHANGED lastStart
  BY DEF Effect, Acts, KeepTime
<1>2. req[r].now \in Time /\ req[r].now <= lastStart
  BY <1>1, Timely
<1>3. CASE Kept
  BY <1>1, <1>3 DEF Versioned, Kept
<1>4. CASE Written(r)
  BY <1>1, <1>2, <1>4 DEF Versioned, Written
<1>5. CASE Begun(r)
  <2>1. sub'.op = req[r].now /\ req[r].now # None
    BY <1>2, <1>5 DEF Begun, Time, None
  <2> QED BY <1>1, <1>2, <1>5, <2>1, BegunVersion DEF Versioned
<1> QED BY <1>3, <1>4, <1>5 DEF Effect

LEMMA RowsPastKept ==
  ASSUME Typed, NEW r \in Slot, Effect(r), Versioned, RowsPast
  PROVE  RowsPast'
<1>1. Past(sub.ver) /\ Past(0) /\ UNCHANGED lastStart
  <2>1. Past(sub.ver) /\ UNCHANGED lastStart
    BY DEF Versioned, Past, Effect, KeepTime
  <2>2. None <= lastStart /\ Stamp(None) = 0
    BY DEF Stamp, None, Typed, ClockTyped, Time
  <2> QED BY <2>1, <2>2 DEF Past
<1>2. \A q \in Slot : Past(req'[q].row.ver)
  BY <1>1 DEF Effect, Acts, Leads, RowsPast
<1> QED BY <1>1, <1>2 DEF RowsPast, Past

LEMMA UnwrittenKept ==
  ASSUME Typed, MoneyInv, NEW r \in Slot, Effect(r), Versioned, RowsPast, Unwritten
  PROVE  Unwritten'
<1>1. Running(r) /\ UNCHANGED lastStart
  BY DEF Effect, Acts, KeepTime
<1> SUFFICES ASSUME NEW q \in Slot, Fresh(req'[q])
             PROVE  /\ sub'.ver # Stamp(req'[q].now)
                    /\ \A p \in Slot : req'[p].row.ver # Stamp(req'[q].now)
  BY DEF Unwritten
<1>2. /\ Fresh(req[q]) /\ req'[q].now = req[q].now /\ req'[q].pc # "idle"
      /\ q = r => sub'.ver = sub.ver
  BY DEF Effect, Acts, Leads, Fresh, Recovering, Looking
<1>3. Running(q)
  BY <1>2 DEF Fresh, Recovering, Looking, Running
<1>4. /\ req[q].now \in Time /\ req[q].now \in Nat /\ req[r].now \in Time /\ req[r].now \in Nat
      /\ q # r => req[q].now # req[r].now
  BY <1>1, <1>3, Timely DEF MoneyInv, Clocked
<1>5. /\ sub.ver # Stamp(req[q].now)
      /\ \A p \in Slot : req[p].row.ver # Stamp(req[q].now)
  BY <1>2 DEF Unwritten
<1>6. sub'.ver # Stamp(req[q].now)
  <2>1. CASE q = r \/ Kept
    BY <1>2, <1>5, <2>1 DEF Kept
  <2>2. CASE q # r /\ Written(r)
    BY <1>4, <2>2 DEF Written, Stamp
  <2>3. CASE q # r /\ Begun(r)
    <3>1. CASE sub'.ver = Stamp(req[r].now)
      BY <1>4, <2>3, <3>1 DEF Stamp
    <3>2. CASE sub'.ver # Stamp(req[r].now)
      <4>1. PICK t \in Time \cup {None} : sub'.ver = Stamp(t) + 1
        BY <1>1, <2>3, <3>2, BegunVersion
      <4> QED BY <1>4, <4>1 DEF Stamp, Time, None
    <3> QED BY <3>1, <3>2
  <2> QED BY <2>1, <2>2, <2>3 DEF Effect
<1>7. \A p \in Slot : req'[p].row.ver # Stamp(req[q].now)
  <2>1. Stamp(req[q].now) # 0
    BY <1>4 DEF Stamp
  <2> QED BY <1>5, <2>1 DEF Effect, Acts, Leads
<1> QED BY <1>2, <1>6, <1>7

LEMMA CardClearKept ==
  ASSUME Typed, MoneyInv, NEW r \in Slot, Effect(r), CardClear
  PROVE  CardClear'
<1>1. Running(r)
  BY DEF Effect, Acts
<1>0. \A q \in Slot : req'[q].pc = "reread" => req'[q].kind = "CARD"
  BY DEF Effect, Acts, CardLeads, CardClear, At, Is
<1> SUFFICES ASSUME NEW q \in Slot, req'[q].kind = "CARD"
             PROVE  /\ req'[q].pc \notin Looking \cup {"refind"}
                    /\ req'[q].pc \in {"update", "reread", "resolve"} =>
                         \A t \in Pending' : req'[q].now < t + Stale
  BY <1>0 DEF CardClear, At, Is
<1>2. CASE q # r
  <2>1. req'[q] = req[q]
    BY <1>2 DEF Effect, Acts
  <2>2. CASE req[q].pc \in {"update", "reread", "resolve"}
    <3>1. Running(q)
      BY <2>2 DEF Running
    <3>2. req[q].now < req[r].now + Stale
      <4>1. /\ req[r].now \in Nat /\ lastStart <= clock /\ clock <= req[r].now + Life
            /\ lastStart \in Int /\ clock \in Int
        BY <1>1, Timely
      <4>2. req[q].now \in Nat /\ req[q].now <= lastStart
        BY <3>1, Timely
      <4> QED BY <4>1, <4>2, TimeoutAssumption
    <3> QED BY <2>1, <2>2, <3>2 DEF CardClear, Is, Effect, CardLeads
  <2>3. CASE req[q].pc \notin {"update", "reread", "resolve"}
    BY <2>1, <2>3 DEF CardClear, Is
  <2> QED BY <2>2, <2>3
<1>3. CASE q = r
  <2>1. req'[r].pc \in {"update", "reread", "resolve"} =>
          req'[r].now = req[r].now /\ req[r].kind = "CARD"
    BY <1>3 DEF Effect, Acts
  <2> QED BY <1>3, <2>1 DEF Effect, CardLeads, CardClear, Is
<1> QED BY <1>2, <1>3

(* Once everybody is out, a step lets nobody in, as long as the subscription *)
(* gives nobody a reason to ask.                                             *)
LEMMA OutKept ==
  ASSUME Typed, MoneyInv, NEW r \in Slot, Effect(r), Versioned, Unwritten, CardClear, Out,
         sub.st \notin {"ACTIVE", "PAST_DUE"}
  PROVE  Out'
<1>1. Running(r) /\ req[r].pc \notin Holding /\ ~Begun(r)
  BY DEF Effect, Acts, Out, Begun, At, Asking
<1>2. \A q \in Slot : req'[q].pc \notin Holding
  BY <1>1 DEF Effect, Acts, Leads, Out
<1>3. \A q \in Slot : Asking(req'[q]) => Asking(req[q]) /\ req'[q].row = req[q].row
  BY DEF Effect, Acts, Leads
<1>4. CASE sub'.ver = sub.ver
  BY <1>2, <1>3, <1>4 DEF Out
<1>5. CASE Written(r)
  <2>1. Fresh(req[r])
    BY <1>1, <1>5 DEF Written, Fresh, Recovering, Looking, CardClear, Is
  <2> QED BY <1>2, <1>3, <1>5, <2>1 DEF Out, Unwritten, Written
<1> QED BY <1>1, <1>4, <1>5 DEF Effect, Kept

(* A statement that writes for the first time, and leaves its request out of *)
(* the charge, finds nobody else in one and shuts everybody out.             *)
LEMMA ShutsOut ==
  ASSUME Typed, MoneyInv, TokenInv, NEW r \in Slot, Effect(r), Unwritten,
         Written(r), At(r, "update")
  PROVE  Out'
<1>1. Running(r) /\ Fresh(req[r]) /\ req[r].pc \notin Holding /\ ~Begun(r)
  BY DEF At, Running, Fresh, Holding, Begun
<1>2. \A q \in Slot : req'[q].pc \notin Holding
  <2>1. \A q \in Slot \ {r} : req[q].pc \notin Holding
    BY <1>1, HolderAlone DEF Written
  <2> QED BY <1>1, <2>1 DEF Effect, Acts, Leads
<1>3. \A q \in Slot : Asking(req'[q]) => sub'.ver # req'[q].row.ver
  <2>1. ~Asking(req[r]) /\ sub'.ver = Stamp(req[r].now) /\ sub'.ver # sub.ver
    BY <1>1 DEF At, Asking, Recovering, Looking, Written, Unwritten
  <2>2. ~Asking(req'[r])
    BY <2>1 DEF Effect, Leads
  <2> QED BY <1>1, <2>1, <2>2 DEF Effect, Acts, Unwritten
<1> QED BY <1>2, <1>3 DEF Out

LEMMA CancelSeenKept ==
  ASSUME Typed, MoneyInv, TokenInv, CancelInv, NEW r \in Slot, Effect(r)
  PROVE  CancelSeen'
<1> SUFFICES ASSUME sub'.st \in Cancelled PROVE Out'
  BY DEF CancelSeen
<1>1. CASE sub.st \in Cancelled
  BY <1>1, OutKept DEF CancelInv, CancelSeen, Cancelled
<1>2. CASE sub.st \notin Cancelled
  <2>1. Written(r) /\ At(r, "update")
    BY <1>2 DEF Effect, Kept, Begun, Written
  <2> QED BY <2>1, ShutsOut DEF CancelInv
<1> QED BY <1>1, <1>2

LEMMA CancelKept ==
  ASSUME Typed, MoneyInv, TokenInv, CancelInv, NEW r \in Slot, Effect(r)
  PROVE  CancelInv'
BY VersionedKept, RowsPastKept, UnwrittenKept, CardClearKept, CancelSeenKept DEF CancelInv

------------------------------------------------------------------------------
(* Every step has such an effect.                                            *)

LEMMA DoneEffect ==
  ASSUME Typed, NEW r \in Slot, Running(r), KeepTime, Finish(r),
         Kept \/ Written(r) \/ Begun(r), \A t \in Pending' : t \in Pending \/ t = req[r].now
  PROVE  Effect(r)
<1>1. Acts(r)
  BY FinishActs
<1>2. req'[r] = Idle
  BY DEF Typed, ReqTyped, Finish
<1>3. Leads(r) /\ CardLeads(r)
  BY <1>2 DEF Leads, CardLeads, Idle, NoSub, Fresh, Asking, Recovering, Looking, Holding
<1> QED BY <1>1, <1>3 DEF Effect

(* A request that goes on with the row it has read.                          *)
GoesOnAt(r, p) == Goto(r, p) \/ \E t \in Int : req' = [req EXCEPT ![r].pc = p, ![r].tgt = t]

LEMMA GoesEffect ==
  ASSUME Typed, NEW r \in Slot, Running(r), KeepTime, NEW p, GoesOnAt(r, p),
         Kept \/ Written(r) \/ Begun(r), \A t \in Pending' : t \in Pending \/ t = req[r].now,
         \/ p \in {"process", "refetch"}
         \/ p \in Holding /\ (req[r].pc \in Holding \/ Begun(r))
         \/ p = "reread" /\ Pending' = Pending /\ At(r, "update") /\ Is(r, {"CARD"})
         \/ p \in Looking /\ req[r].pc \in Recovering /\ sub' = sub /\ ~Is(r, {"CARD"})
         \/ p = "begin" /\ req[r].pc \in Recovering /\ ~Is(r, {"SWEEP"})
  PROVE  Effect(r)
<1>1. Acts(r) /\ req'[r].pc = p /\ req'[r].row = req[r].row /\ req'[r].kind = req[r].kind
  <2>1. req \in [Slot -> Request]
    BY DEF Typed, ReqTyped
  <2> QED BY <2>1 DEF GoesOnAt, Goto, Acts, Request
<1>2. Leads(r)
  BY <1>1 DEF Leads, Fresh, Asking, Recovering, Looking, Holding, At, Is
<1>3. CardLeads(r)
  BY <1>1 DEF CardLeads, Recovering, Looking, Holding, At, Is
<1> QED BY <1>1, <1>2, <1>3 DEF Effect

(* A request that goes on with the row as it is.                             *)
LEMMA TakesEffect ==
  ASSUME Typed, NEW r \in Slot, Running(r), KeepTime, KeepRows, NEW p,
         req' = [req EXCEPT ![r].pc = p, ![r].row = sub],
         \/ p \in {"notice", "process"}
         \/ p \in {"refind", "check"} /\ At(r, "find") /\ (p = "refind" => ~Is(r, {"CARD"}))
         \/ p = "update" /\ At(r, "check") /\ Pending = {}
         \/ p = "resolve" /\ req[r].pc \in {"find", "refind"} /\ ~Is(r, {"CARD"})
              /\ sub.st \in {"ACTIVE", "PAST_DUE"}
         \/ p = "resolve" /\ At(r, "reread") /\ Is(r, {"CARD"}) /\ sub.st = "PAST_DUE"
  PROVE  Effect(r)
<1>1. Acts(r) /\ req'[r].pc = p /\ req'[r].row = sub /\ req'[r].kind = req[r].kind
  <2>1. req \in [Slot -> Request]
    BY DEF Typed, ReqTyped
  <2> QED BY <2>1 DEF Acts, Request
<1>2. Kept /\ sub' = sub /\ Pending' = Pending
  BY DEF KeepRows, Kept, Pending
<1>3. Leads(r)
  BY <1>1, <1>2 DEF Leads, Fresh, Asking, Recovering, Looking, Holding, At, Is
<1>4. CardLeads(r)
  BY <1>1, <1>2 DEF CardLeads, Recovering, Looking, Holding, At, Is
<1> QED BY <1>1, <1>2, <1>3, <1>4 DEF Effect

LEMMA ResolvedEffect ==
  ASSUME Typed, TokenInv, NEW r \in Slot, KeepTime, req[r].pc \in Recovering, Resolved(r),
         Kept \/ Written(r), \A t \in Pending' : t \in Pending \/ t = req[r].now
  PROVE  Effect(r)
<1>0. Running(r)
  BY DEF Recovering, Looking, Running
<1>1. CASE AfterResolve(r) = "idle"
  BY <1>0, <1>1, DoneEffect DEF Resolved
<1>2. CASE AfterResolve(r) # "idle"
  <2>1. AfterResolve(r) = "begin" /\ ~Is(r, {"SWEEP"})
    BY <1>2 DEF AfterResolve, Is, TokenInv, NoFirstPayment
  <2>2. GoesOnAt(r, "begin")
    BY <2>1 DEF Resolved, GoesOnAt, None
  <2> QED BY <1>0, <2>1, <2>2, GoesEffect
<1> QED BY <1>1, <1>2

(* Steps that leave the rows alone.                                          *)
LEMMA ReadingEffect ==
  ASSUME Typed, TokenInv, CardClear, NEW r \in Slot,
         \/ FindPending(r) \/ LookupCharge(r) \/ LookupUnknown(r) \/ ReadsOn(r)
         \/ FindSubscription(r) \/ RequireActiveForSeatAdd(r) \/ AssertNoPendingCharge(r)
         \/ RereadUpdated(r) \/ Refetch(r) \/ ChargeNotMade(r) \/ Crash(r)
  PROVE  Effect(r)
<1>1. Running(r) /\ KeepRows /\ KeepTime
  BY ReadsOnKeeps
     DEF FindPending, LookupCharge, LookupUnknown, FindSubscription, RequireActiveForSeatAdd,
     AssertNoPendingCharge, RereadUpdated, Refetch, ChargeNotMade, Crash, At, Running
<1>2. Kept /\ sub' = sub /\ Pending' = Pending
  BY <1>1 DEF KeepRows, Kept, Pending
<1>3. CASE Finish(r)
  BY <1>1, <1>2, <1>3, DoneEffect
<1>4. CASE FindPending(r) /\ ~Finish(r)
  <2>1. req[r].pc \in Recovering
    BY <1>4 DEF FindPending, At, Recovering
  <2>2. CASE Resolved(r)
    BY <1>1, <1>2, <2>1, <2>2, ResolvedEffect
  <2>3. CASE ~Resolved(r)
    <3>1. PICK t \in Pending : /\ t <= req[r].now - Stale
                               /\ req' = [req EXCEPT ![r].pc = "lookup", ![r].tgt = t]
      BY <1>4, <2>3 DEF FindPending
    <3>2. t \in Int /\ req[r].now \in Int
      BY <1>1, RunningTyped DEF Pending, Time, Typed
    <3>3. ~Is(r, {"CARD"})
      BY <1>4, <3>1, <3>2, TimeoutAssumption DEF CardClear, FindPending, At
    <3> QED BY <1>1, <1>2, <2>1, <3>1, <3>2, <3>3, GoesEffect DEF GoesOnAt, Looking
  <2> QED BY <2>2, <2>3
<1>5. CASE LookupCharge(r)
  <2>1. /\ req[r].pc \in Recovering /\ ~Is(r, {"CARD"})
        /\ GoesOnAt(r, "recover") \/ GoesOnAt(r, "notCharged")
    BY <1>5 DEF LookupCharge, At, Recovering, Looking, CardClear, GoesOnAt
  <2> QED BY <1>1, <1>2, <2>1, GoesEffect DEF Looking
<1>6. CASE FindSubscription(r) /\ ~Finish(r)
  <2>1. req' = [req EXCEPT ![r].pc = AfterFind(r), ![r].row = sub] /\ At(r, "find")
    BY <1>6 DEF FindSubscription
  <2>2. \/ AfterFind(r) \in {"notice", "process", "check"}
        \/ AfterFind(r) = "refind" /\ ~Is(r, {"CARD"})
        \/ AfterFind(r) = "resolve" /\ ~Is(r, {"CARD"}) /\ sub.st \in {"ACTIVE", "PAST_DUE"}
        \/ Finish(r)
    <3>1. \/ AfterFind(r) \in {"notice", "process", "check", "idle"}
          \/ AfterFind(r) = "refind" /\ ~Is(r, {"CARD"})
          \/ AfterFind(r) = "resolve" /\ ~Is(r, {"CARD"}) /\ sub.st \in {"ACTIVE", "PAST_DUE"}
      BY DEF AfterFind, SeatTurn, DailyTurn, Due, Is, TokenInv, NoFirstPayment
    <3>2. AfterFind(r) = "idle" => Finish(r)
      BY <1>6 DEF FindSubscription
    <3> QED BY <3>1, <3>2
  <2> QED BY <1>1, <1>6, <2>1, <2>2, TakesEffect DEF At
<1>7. CASE RequireActiveForSeatAdd(r) /\ ~Finish(r)
  <2>1. /\ req' = [req EXCEPT ![r].pc = "resolve", ![r].row = sub] /\ At(r, "refind")
        /\ ~Is(r, {"CARD"}) /\ sub.st = "ACTIVE"
    BY <1>7 DEF RequireActiveForSeatAdd, CardClear, At
  <2> QED BY <1>1, <2>1, TakesEffect DEF At
<1>8. CASE RereadUpdated(r) /\ ~Finish(r)
  <2>1. /\ req' = [req EXCEPT ![r].pc = "resolve", ![r].row = sub] /\ At(r, "reread")
        /\ Is(r, {"CARD"}) /\ sub.st = "PAST_DUE"
    BY <1>8 DEF RereadUpdated, CardClear
  <2> QED BY <1>1, <2>1, TakesEffect
<1>9. CASE Refetch(r) /\ ~Finish(r)
  BY <1>1, <1>9, TakesEffect DEF Refetch
<1>10. CASE ChargeNotMade(r) /\ ~Finish(r)
  <2>1. GoesOnAt(r, "declined") /\ req[r].pc \in Holding
    BY <1>10 DEF ChargeNotMade, GoesOnAt, At, Holding
  <2> QED BY <1>1, <1>2, <2>1, GoesEffect DEF Holding
<1>11. CASE AssertNoPendingCharge(r) /\ ~Finish(r)
  <2>1. At(r, "check") /\ Pending = {}
    BY <1>11 DEF AssertNoPendingCharge
  <2>2. CASE Is(r, {"WITHDRAW"})
    <3>1. req' = [req EXCEPT ![r].pc = "update", ![r].row = sub]
      BY <1>11, <2>2 DEF AssertNoPendingCharge
    <3> QED BY <1>1, <2>1, <3>1, TakesEffect
  <2>3. CASE ~Is(r, {"WITHDRAW"})
    <3>1. Acts(r) /\ req'[r].pc = "update" /\ req'[r].row = req[r].row
      <4>1. req \in [Slot -> Request]
        BY DEF Typed, ReqTyped
      <4> QED BY <1>1, <1>11, <2>3, <4>1 DEF AssertNoPendingCharge, Acts, Request
    <3>2. Leads(r) /\ CardLeads(r)
      BY <1>2, <2>1, <3>1
         DEF Leads, CardLeads, At, Fresh, Asking, Recovering, Looking, Holding
    <3> QED BY <1>1, <1>2, <3>1, <3>2 DEF Effect
  <2> QED BY <2>2, <2>3
<1>12. CASE LookupUnknown(r) \/ Crash(r)
  BY <1>1, <1>3, <1>12 DEF LookupUnknown, Crash
<1>13. CASE ReadsOn(r)
  <2>1. req[r].pc \in Recovering /\ ~Is(r, {"CARD"})
    BY <1>13, ReadsOnKeeps DEF Recovering, Looking, Recovery, CardClear
  <2>2. GoesOnAt(r, "existing") \/ GoesOnAt(r, "reapply")
    BY <1>13 DEF ReadsOn, GoesOnAt
  <2> QED BY <1>1, <1>2, <2>1, <2>2, GoesEffect DEF Looking
<1> QED
  BY <1>3, <1>4, <1>5, <1>6, <1>7, <1>8, <1>9, <1>10, <1>11, <1>12, <1>13

(* Steps that are about an attempt, or about other rows than these two.      *)
LEMMA AttemptEffect ==
  ASSUME Typed, TokenInv, CardClear, NEW r \in Slot,
         \/ CreatePendingAttempt(r) \/ NoBillingKey(r) \/ ChargeApproved(r)
         \/ SettleNotCharged(r) \/ SettlesUnapplied(r) \/ SettleDeclined(r)
         \/ ProcessExpiredManualPlan(r) \/ SendNotice(r)
  PROVE  Effect(r)
<1>1. Running(r) /\ KeepTime /\ sub' = sub
  BY UnappliedKeeps
     DEF CreatePendingAttempt, NoBillingKey, ChargeApproved, SettleNotCharged, SettleDeclined,
     ProcessExpiredManualPlan, SendNotice, KeepRows, At, Running
<1>2. Kept
  BY <1>1 DEF Kept
<1>3. \A t \in Pending' : t \in Pending \/ t = req[r].now
  <2>1. pays \in [Time -> Payment]
    BY DEF Typed, RowsTyped
  <2>2. CASE CreatePendingAttempt(r) \/ NoBillingKey(r)
    <3>1. \A t \in Time \ {req[r].now} : pays'[t] = pays[t]
      BY <2>1, <2>2 DEF CreatePendingAttempt, NoBillingKey
    <3> QED BY <3>1 DEF Pending
  <2>3. CASE SettleNotCharged(r) \/ SettlesUnapplied(r) \/ SettleDeclined(r)
    <3>1. \A t \in Time : pays'[t].st = "PENDING" => pays[t].st = "PENDING"
      BY <2>1, <2>3, UnappliedKeeps DEF SettleNotCharged, SettleDeclined, Settled, Payment
    <3> QED BY <3>1 DEF Pending
  <2>4. CASE ChargeApproved(r) \/ ProcessExpiredManualPlan(r) \/ SendNotice(r)
    BY <2>4 DEF ChargeApproved, ProcessExpiredManualPlan, SendNotice, Pending
  <2> QED BY <2>2, <2>3, <2>4
<1>4. CASE Finish(r)
  BY <1>1, <1>2, <1>3, <1>4, DoneEffect
<1>5. CASE SettleNotCharged(r) \/ SettlesUnapplied(r)
  <2>1. Resolved(r) /\ req[r].pc \in Recovering
    BY <1>5, UnappliedKeeps DEF SettleNotCharged, At, Recovering, Looking, Recovery
  <2> QED BY <1>1, <1>2, <1>3, <2>1, ResolvedEffect
<1>6. CASE SendNotice(r) /\ ~Finish(r)
  BY <1>1, <1>2, <1>3, <1>6, GoesEffect DEF SendNotice, GoesOnAt
<1>7. CASE /\ CreatePendingAttempt(r) \/ NoBillingKey(r) \/ ChargeApproved(r) \/ SettleDeclined(r)
           /\ ~Finish(r)
  <2>1. /\ req[r].pc \in Holding
        /\ \E p \in {"charge", "release", "failSub", "apply"} : Goto(r, p)
    BY <1>7 DEF CreatePendingAttempt, NoBillingKey, ChargeApproved, SettleDeclined, At, Holding
  <2>2. {"charge", "release", "failSub", "apply"} \subseteq Holding
    BY DEF Holding
  <2> QED BY <1>1, <1>2, <1>3, <2>1, <2>2, GoesEffect DEF GoesOnAt
<1>8. CASE ProcessExpiredManualPlan(r)
  BY <1>4, <1>8 DEF ProcessExpiredManualPlan
<1> QED BY <1>4, <1>5, <1>6, <1>7, <1>8

LEMMA BeginEffect ==
  ASSUME Typed, NEW r \in Slot, BeginBillingOperation(r)
  PROVE  Effect(r)
<1>1. Running(r) /\ KeepTime /\ Pending' = Pending /\ sub \in Subscription
  BY DEF BeginBillingOperation, At, Running, Pending, Typed, RowsTyped
<1>2. CASE Finish(r) /\ sub' = sub
  BY <1>1, <1>2, DoneEffect DEF Kept
<1>3. CASE ~(Finish(r) /\ sub' = sub)
  <2>1. Goto(r, "create") /\ Begun(r)
    BY <1>1, <1>3 DEF BeginBillingOperation, Begun, Subscription
  <2> QED BY <1>1, <2>1, GoesEffect DEF GoesOnAt, Holding
<1> QED BY <1>2, <1>3

(* What the transactions set in the columns that matter here.                *)
LEMMA TerminatedColumns ==
  ASSUME NEW row \in Subscription, NEW st, NEW now
  PROVE  /\ Terminated(row, st, now).st = st /\ Terminated(row, st, now).op = None
         /\ Terminated(row, st, now).ver = Stamp(now)
BY DEF Terminated, Subscription

LEMMA PaidColumns ==
  ASSUME NEW row \in Subscription, NEW p, NEW now
  PROVE  /\ Renewed(row, p, now).st = "ACTIVE" /\ Renewed(row, p, now).op = None
         /\ Renewed(row, p, now).ver = Stamp(now)
         /\ SeatsAdded(row, p, now).st = row.st /\ SeatsAdded(row, p, now).op = None
         /\ SeatsAdded(row, p, now).ver = Stamp(now)
<1>1. /\ Renewed(row, p, now).st = "ACTIVE" /\ Renewed(row, p, now).op = None
      /\ Renewed(row, p, now).ver = Stamp(now)
  BY DEF Renewed, Subscription
<1>2. /\ SeatsAdded(row, p, now).st = row.st /\ SeatsAdded(row, p, now).op = None
      /\ SeatsAdded(row, p, now).ver = Stamp(now)
  BY DEF SeatsAdded, Subscription
<1> QED BY <1>1, <1>2

LEMMA ChangedColumns ==
  ASSUME Typed, TokenInv, NEW r \in Slot, Running(r)
  PROVE  /\ Change(r).op = sub.op /\ Change(r).ver = Stamp(req[r].now)
         /\ Is(r, {"CARD", "SEAT", "DEFER"}) => Change(r).st = sub.st
<1> DEFINE new == [sub EXCEPT !.ver = Stamp(req[r].now)]
<1>1. /\ new.op = sub.op /\ new.ver = Stamp(req[r].now) /\ new.st = sub.st
      /\ DOMAIN new = DOMAIN sub /\ {"op", "ver", "st"} \subseteq DOMAIN sub
  BY DEF Typed, RowsTyped, Subscription
<1>2. LET c == Change(r) IN
        /\ c \in {CardReplaced(new), ReductionBooked(new, req[r].row, req[r].goal),
                  CancelScheduled(new), Uncanceled(new), Deferred(new, req[r].row), new}
        /\ Is(r, {"CARD", "SEAT", "DEFER"}) =>
             c \in {CardReplaced(new), ReductionBooked(new, req[r].row, req[r].goal),
                    Deferred(new, req[r].row)}
  BY DEF Change, Is
<1> HIDE DEF new
<1>3. /\ CardReplaced(new).op = new.op /\ CardReplaced(new).ver = new.ver
      /\ CardReplaced(new).st = new.st
  BY <1>1 DEF CardReplaced
<1>4. /\ CancelScheduled(new).op = new.op /\ CancelScheduled(new).ver = new.ver
      /\ Uncanceled(new).op = new.op /\ Uncanceled(new).ver = new.ver
  BY <1>1 DEF CancelScheduled, Uncanceled
<1>5. \A row, goal :
        /\ ReductionBooked(new, row, goal).op = new.op /\ ReductionBooked(new, row, goal).ver = new.ver
        /\ ReductionBooked(new, row, goal).st = new.st
        /\ Deferred(new, row).op = new.op /\ Deferred(new, row).ver = new.ver
        /\ Deferred(new, row).st = new.st
  BY <1>1 DEF ReductionBooked, Deferred
<1> QED BY <1>1, <1>2, <1>3, <1>4, <1>5

(* Statements guarded by the token.                                          *)
LEMMA GuardedEffect ==
  ASSUME Typed, TokenInv, NEW r \in Slot,
         \/ ReleaseBillingOperation(r) \/ ExpireSubscription(r) \/ TerminateSubscription(r)
         \/ Withdraw(r) \/ GuardedSubscriptionUpdate(r) \/ RecordNotice(r)
         \/ RecordRecurringFailure(r)
  PROVE  Effect(r)
<1>1. Running(r) /\ KeepTime /\ Pending' = Pending /\ sub \in Subscription
  BY DEF ReleaseBillingOperation, ExpireSubscription, TerminateSubscription, Withdraw,
     GuardedSubscriptionUpdate, RecordNotice, RecordRecurringFailure, At, Running, Pending,
     Typed, RowsTyped
<1>2. Kept \/ Written(r)
  <2>1. CASE sub' = sub
    BY <2>1 DEF Kept
  <2>2. CASE ReleaseBillingOperation(r) /\ sub' # sub
    <3>1. sub.op = req[r].now
          /\ sub' = [sub EXCEPT !.op = None, !.ver = Stamp(req[r].now)]
      BY <2>2 DEF ReleaseBillingOperation
    <3>2. sub'.op = None /\ sub'.ver = Stamp(req[r].now) /\ sub'.st = sub.st
      BY <1>1, <3>1 DEF Subscription
    <3> QED BY <2>2, <3>1, <3>2 DEF Written, ReleaseBillingOperation, At, Holding
  <2>3. CASE ExpireSubscription(r) /\ sub' # sub
    <3>1. sub.op = req[r].now /\ sub' = Terminated(sub, "EXPIRED", req[r].now)
      BY <2>3 DEF ExpireSubscription
    <3>2. sub'.ver = Stamp(req[r].now) /\ sub'.op = None /\ sub'.st = "EXPIRED"
      BY <1>1, <3>1, TerminatedColumns
    <3> QED BY <2>3, <3>1, <3>2 DEF Written, ExpireSubscription, At, Holding, Cancelled
  <2>4. CASE (TerminateSubscription(r) \/ Withdraw(r)) /\ sub' # sub
    <3>1. /\ TokenFree(sub, req[r].now) /\ sub' = Terminated(sub, "CANCELED", req[r].now)
          /\ At(r, "update")
      BY <2>4 DEF TerminateSubscription, Withdraw
    <3>2. sub'.ver = Stamp(req[r].now) /\ sub'.op = None
      BY <1>1, <3>1, TerminatedColumns
    <3> QED BY <3>1, <3>2 DEF Written, At
  <2>5. CASE GuardedSubscriptionUpdate(r) /\ sub' # sub
    <3>1. TokenFree(sub, req[r].now) /\ sub' = Change(r) /\ At(r, "update")
      BY <2>5 DEF GuardedSubscriptionUpdate
    <3> QED BY <1>1, <3>1, ChangedColumns DEF Written, At
  <2>6. CASE RecordNotice(r)
    BY <1>1, <2>6 DEF RecordNotice, Kept, Subscription
  <2>7. CASE RecordRecurringFailure(r) /\ sub' # sub
    <3>1. sub.op = req[r].now /\ req[r].pc \in Holding
      BY <2>7 DEF RecordRecurringFailure, At, Holding
    <3>2. /\ sub'.ver = Stamp(req[r].now) /\ sub'.op \in {sub.op, None}
          /\ sub'.st = sub.st \/ sub'.st = "PAST_DUE"
      BY <1>1, <2>7 DEF RecordRecurringFailure, Subscription
    <3> QED BY <3>1, <3>2 DEF Written, Cancelled
  <2> QED BY <2>1, <2>2, <2>3, <2>4, <2>5, <2>6, <2>7
<1>3. CASE Finish(r)
  BY <1>1, <1>2, <1>3, DoneEffect
<1>4. CASE ~Finish(r)
  <2>1. \/ Goto(r, "reread") /\ At(r, "update") /\ Is(r, {"CARD"})
        \/ Goto(r, "expire") /\ req[r].pc \in Holding
    BY <1>4 DEF ReleaseBillingOperation, ExpireSubscription, TerminateSubscription, Withdraw,
       GuardedSubscriptionUpdate, RecordNotice, RecordRecurringFailure, At, Holding
  <2> QED BY <1>1, <1>2, <2>1, GoesEffect DEF GoesOnAt, Holding
<1> QED BY <1>3, <1>4

(* The effect of a charge.                                                   *)
LEMMA ApplyingEffect ==
  ASSUME Typed, MoneyInv, TokenInv, NEW r \in Slot, ApplyCharge(r) \/ ApplyRecovered(r)
  PROVE  Effect(r)
<1>1. Running(r) /\ KeepTime /\ sub \in Subscription
  BY DEF ApplyCharge, ApplyRecovered, At, Running, Typed, RowsTyped
<1>2. \A t \in Pending' : t \in Pending \/ t = req[r].now
  <2>1. pays \in [Time -> Payment]
    BY DEF Typed, RowsTyped
  <2>2. \A t \in Time : pays'[t].st = "PENDING" => pays[t].st = "PENDING"
    BY <2>1 DEF ApplyCharge, ApplyRecovered, Settled, Payment
  <2> QED BY <2>2 DEF Pending
<1>3. \/ sub' = sub
      \/ /\ TokenFree(sub, req[r].now) \/ sub.op = req[r].now
         /\ \E p \in Payment : \/ sub' = Renewed(sub, p, req[r].now)
                               \/ sub' = SeatsAdded(sub, p, req[r].now)
  <2>1. CASE ApplyCharge(r)
    <3>1. pays[req[r].now] \in Payment
      BY <1>1, RunningTyped DEF Typed, RowsTyped
    <3> QED BY <2>1, <3>1 DEF ApplyCharge, Is, TokenInv, NoFirstPayment
  <2>2. CASE ApplyRecovered(r)
    <3>1. pays[req[r].tgt] \in Payment /\ pays[req[r].tgt].type # "INITIAL"
      BY <2>2 DEF ApplyRecovered, MoneyInv, Looked, Looking, At, TokenInv, NoFirstPayment, Typed,
         RowsTyped
    <3> QED BY <2>2, <3>1 DEF ApplyRecovered
  <2> QED BY <2>1, <2>2
<1>4. req[r].pc \in {"apply", "reapply"}
  BY DEF ApplyCharge, ApplyRecovered, At
<1>5. Kept \/ Written(r)
  <2>1. CASE sub' = sub
    BY <2>1 DEF Kept
  <2>2. CASE sub' # sub
    <3>1. /\ sub'.ver = Stamp(req[r].now) /\ sub'.op = None
          /\ sub'.st = sub.st \/ sub'.st = "ACTIVE"
      BY <1>1, <1>3, <2>2, PaidColumns
    <3> QED BY <1>3, <1>4, <2>2, <3>1 DEF Written, Holding, Cancelled
  <2> QED BY <2>1, <2>2
<1>6. CASE ApplyRecovered(r)
  BY <1>1, <1>2, <1>4, <1>5, <1>6, ResolvedEffect DEF ApplyRecovered, At, Recovering, Looking
<1>7. CASE ApplyCharge(r)
  <2>1. Finish(r) \/ Goto(r, "refetch")
    BY <1>7 DEF ApplyCharge
  <2> QED BY <1>1, <1>2, <1>5, <2>1, DoneEffect, GoesEffect DEF GoesOnAt
<1> QED BY <1>6, <1>7

LEMMA StepEffect ==
  ASSUME Typed, MoneyInv, TokenInv, CardClear, NEW r \in Slot, Step(r) \/ Crash(r)
  PROVE  Effect(r)
<1>1. ~ReadMemberVersion(r) /\ ~ClaimMember(r)
  BY DEF ReadMemberVersion, ClaimMember, At, TokenInv, NoFirstPayment
<1> QED
  BY <1>1, Finds, ReadingEffect, AttemptEffect, BeginEffect, GuardedEffect, ApplyingEffect DEF Step

(* A request that starts has a time that no version was made of.             *)
LEMMA StartCancel ==
  ASSUME "START" \notin Kinds, Typed, MoneyInv, CancelInv, NEW r \in Slot, NEW k \in Kinds,
         Start(r, k)
  PROVE  CancelInv'
<1>1. /\ UNCHANGED <<sub, pays, clock>> /\ lastStart < clock /\ lastStart' = clock
      /\ clock \in Int /\ clock \in Nat /\ lastStart \in Int
      /\ \A q \in Slot \ {r} : req'[q] = req[q]
  BY DEF Start, KeepRows, Typed, ClockTyped, ReqTyped, Time, None
<1>2. /\ req'[r].pc = FirstStep(k) /\ req'[r].kind = k /\ req'[r].now = clock
      /\ req'[r].row.ver = 0
  BY DEF Start, Typed, ReqTyped, Idle, NoSub
<1>3. /\ FirstStep(k) \in {"resolve", "check", "find"}
      /\ FirstStep(k) = "resolve" => k \in {"START", "SWEEP"}
  BY DEF FirstStep
<1>4. Versioned' /\ RowsPast'
  <2>1. \A t \in Time \cup {None} : t <= lastStart => t <= lastStart'
    BY <1>1 DEF Time, None
  <2>2. Versioned'
    BY <1>1, <2>1 DEF CancelInv, Versioned
  <2>3. ASSUME NEW v, Past(v)
        PROVE  \E t \in Time \cup {None} : t <= lastStart' /\ v \in {Stamp(t), Stamp(t) + 1}
    BY <2>1, <2>3 DEF Past
  <2>4. Past(0)
    BY DEF Past, Stamp, None, Typed, ClockTyped, Time
  <2>5. \A q \in Slot : Past(req'[q].row.ver)
    BY <1>1, <1>2, <2>4 DEF CancelInv, RowsPast
  <2> QED BY <2>2, <2>3, <2>5 DEF RowsPast, Past
<1>5. Unwritten'
  <2>1. \A v : Past(v) => v # Stamp(clock)
    BY <1>1 DEF Past, Stamp, Time, None
  <2>2. sub.ver # Stamp(clock) /\ \A q \in Slot : req[q].row.ver # Stamp(clock)
    BY <2>1 DEF CancelInv, Versioned, RowsPast, Past
  <2>3. \A q \in Slot \ {r} : Fresh(req[q]) => Stamp(req[q].now) # 0
    <3> SUFFICES ASSUME NEW q \in Slot \ {r}, Fresh(req[q]) PROVE Stamp(req[q].now) # 0
      OBVIOUS
    <3>1. Running(q)
      BY DEF Fresh, Recovering, Looking, Running
    <3> QED BY <3>1, Timely DEF Stamp
  <2>4. Stamp(clock) # 0
    BY <1>1 DEF Stamp
  <2> QED BY <1>1, <1>2, <2>2, <2>3, <2>4 DEF CancelInv, Unwritten
<1>6. CardClear'
  <2>1. Pending' = Pending
    BY <1>1 DEF Pending
  <2>2. Is(r, {"CARD"})' => req'[r].pc = "find"
    BY <1>2, <1>3 DEF Is, FirstStep
  <2>3. req'[r].pc # "reread"
    BY <1>2, <1>3
  <2> QED BY <1>1, <2>1, <2>2, <2>3 DEF CancelInv, CardClear, At, Is, Looking
<1>7. CancelSeen'
  <2>1. sub.st \in Cancelled => Out
    BY DEF CancelInv, CancelSeen
  <2>2. req'[r].pc \notin Holding
    BY <1>2, <1>3 DEF Holding
  <2>3. Asking(req'[r]) => k = "START"
    BY <1>2, <1>3 DEF Asking, Recovering, Looking
  <2> QED BY <1>1, <1>2, <2>1, <2>2, <2>3 DEF CancelSeen, Out
<1> QED BY <1>4, <1>5, <1>6, <1>7 DEF CancelInv

LEMMA CancelInit == Init => CancelInv
<1> SUFFICES ASSUME Init PROVE CancelInv
  OBVIOUS
<1>1. /\ \A r \in Slot : req[r].pc = "idle" /\ req[r].kind = "NOKIND" /\ req[r].row.ver = 0
      /\ lastStart = None /\ sub.ver = 0
  <2>1. \A st, n, f : InitialSub(st, n, f).ver = 0
    BY DEF InitialSub, NoSub
  <2> QED BY <2>1 DEF Init, Idle, NoSub
<1>2. None <= lastStart /\ Stamp(None) = 0
  BY <1>1 DEF Stamp, None
<1> QED
  BY <1>1, <1>2 DEF CancelInv, Versioned, RowsPast, Past, Unwritten, CardClear, CancelSeen, Out,
     Fresh, Asking, Recovering, Looking, Holding, At, Is

LEMMA CancelStep ==
  ASSUME "START" \notin Kinds, Typed, MoneyInv, TokenInv, CancelInv, [Next]_vars
  PROVE  CancelInv'
<1>1. CASE Tick \/ EndOfTime \/ UNCHANGED vars
  <2>1. UNCHANGED <<lastStart, req, sub, pays>>
    BY <1>1 DEF Tick, EndOfTime, vars, KeepRows
  <2> QED BY <2>1 DEF CancelInv, Versioned, RowsPast, Past, Unwritten, CardClear, CancelSeen, Out,
             Pending, At, Is
<1>2. ASSUME NEW r \in Slot, NEW k \in Kinds, Start(r, k) PROVE CancelInv'
  BY <1>2, StartCancel
<1>3. ASSUME NEW r \in Slot, Step(r) \/ Crash(r) PROVE CancelInv'
  BY <1>3, StepEffect, CancelKept DEF CancelInv
<1> QED BY <1>1, <1>2, <1>3 DEF Next

(* The gateway takes a renewal or a seat payment only while nothing has been *)
(* cancelled, whatever else runs, dies or is recovered: among requests on a  *)
(* subscription that exists, a cancellation finds no charge under way, since *)
(* it needs the token to be free, and gives the row a version that nobody    *)
(* who still means to charge has read.                                       *)
THEOREM CancelStopsCharges == "START" \notin Kinds => (Spec => NoChargeAfterCancel)
<1> SUFFICES ASSUME "START" \notin Kinds PROVE Spec => NoChargeAfterCancel
  OBVIOUS
<1>1. ASSUME CancelInv, [Next]_vars
      PROVE  [\A t \in pg' \ pg : pays[t].type # "INITIAL" => sub.st \notin Cancelled]_vars
  <2> SUFFICES ASSUME NEW t \in pg' \ pg, sub.st \in Cancelled PROVE FALSE
    OBVIOUS
  <2>1. ASSUME NEW r \in Slot, Step(r) PROVE ChargeApproved(r) \/ pg' = pg
    <3>1. FindPending(r) \/ LookupCharge(r) \/ LookupUnknown(r) \/ SettleNotCharged(r)
            \/ FindMember(r) \/ FindExisting(r) \/ ApplyRecovered(r)
            => pg' = pg
      BY DEF FindPending, LookupCharge, LookupUnknown, SettleNotCharged, FindMember, FindExisting,
             ApplyRecovered, KeepRows
    <3>2. FindSubscription(r) \/ RequireActiveForSeatAdd(r) \/ ReadMemberVersion(r) \/ ClaimMember(r)
            \/ BeginBillingOperation(r) \/ ReleaseBillingOperation(r) \/ CreatePendingAttempt(r)
            => pg' = pg
      BY DEF FindSubscription, RequireActiveForSeatAdd, ReadMemberVersion, ClaimMember,
             BeginBillingOperation, ReleaseBillingOperation, CreatePendingAttempt, KeepRows
    <3>3. NoBillingKey(r) \/ ChargeNotMade(r) \/ ApplyCharge(r) \/ SettleDeclined(r)
            \/ RecordRecurringFailure(r) \/ ExpireSubscription(r)
            => pg' = pg
      BY DEF NoBillingKey, ChargeNotMade, ApplyCharge, SettleDeclined, RecordRecurringFailure,
             ExpireSubscription, KeepRows
    <3>4. AssertNoPendingCharge(r) \/ GuardedSubscriptionUpdate(r) \/ RereadUpdated(r)
            \/ TerminateSubscription(r) \/ Withdraw(r)
            => pg' = pg
      BY DEF AssertNoPendingCharge, GuardedSubscriptionUpdate, RereadUpdated, TerminateSubscription,
             Withdraw, KeepRows
    <3>5. ProcessExpiredManualPlan(r) \/ Refetch(r) \/ SendNotice(r) \/ RecordNotice(r) => pg' = pg
      BY DEF ProcessExpiredManualPlan, Refetch, SendNotice, RecordNotice, KeepRows
    <3> QED BY <2>1, <3>1, <3>2, <3>3, <3>4, <3>5 DEF Step
  <2>2. (\E r \in Slot : Crash(r) \/ \E k \in Kinds : Start(r, k)) \/ Tick \/ EndOfTime \/ UNCHANGED vars
          => pg' = pg
    BY DEF Tick, Start, Crash, EndOfTime, vars, KeepRows
  <2>3. \E r \in Slot : ChargeApproved(r)
    BY <1>1, <2>1, <2>2 DEF Next
  <2> QED BY <1>1, <2>3 DEF ChargeApproved, At, CancelInv, CancelSeen, Out, Holding
<1>2. Typed /\ MoneyInv /\ TokenInv /\ CancelInv /\ [Next]_vars => CancelInv'
  BY CancelStep
<1>3. Typed /\ MoneyInv /\ TokenInv /\ [Next]_vars => TokenInv'
  BY TokenStep
<1> QED
  BY <1>1, <1>2, <1>3, TypedInit, TypedStep, MoneyInit, MoneyStep, TokenInit, CancelInit, PTL
     DEF Spec, NoChargeAfterCancel, Cancelled

------------------------------------------------------------------------------
(* The end of a subscription, among the requests that neither pay for a new  *)
(* one nor take a cancellation back, with one nightly job at a time.         *)

EndingKinds == {"SEAT", "DAILY", "SWEEP", "DEFER", "TERMINATE", "WITHDRAW", "MANUAL"}

(* Which request may stand where.                                            *)
Placed(q) ==
  /\ q.kind \in EndingKinds \cup {"NOKIND"}
  /\ Asking(q) \/ q.pc \in Holding => q.kind \in {"SEAT", "DAILY"}
  /\ q.pc = "refind" => q.kind = "SEAT"
  /\ q.pc \in {"failSub", "expire", "notice", "refetch"} => q.kind = "DAILY"

AllPlaced == \A r \in Slot : Placed(req[r])

OneDaily == \A q, r \in Slot : Is(q, {"DAILY"}) /\ Is(r, {"DAILY"}) => q = r

(* The nightly charge of a subscription that has ended meanwhile: nobody     *)
(* gets to begin one.  A last failed charge and the end it leads to carry    *)
(* the same time, so that another nightly charge could begin between them;   *)
(* one at a time, the job is done when it has ended the subscription.        *)
FarBehind == ~Live(sub) /\ (\E d \in Slot : Is(d, {"DAILY"}) /\ Asking(req[d])) => Out

DailyLive == \A r \in Slot : req[r].pc \in Holding /\ Is(r, {"DAILY"}) => Live(sub)

(* A withdrawal that found no live subscription: none is revived while it    *)
(* holds the member row.                                                     *)
StillOver ==
  \A r \in Slot : At(r, "update") /\ Is(r, {"WITHDRAW"}) /\ ~Live(req[r].row) => ~Live(sub)

(* A plan given by hand is one of a member who has never paid: nothing is    *)
(* there to be charged or to be recovered.                                   *)
NeverPaid ==
  /\ ~Live(sub) /\ \A t \in Time : pays[t].st = "NOROW"
  /\ \A r \in Slot : ~Asking(req[r]) /\ req[r].pc \notin Holding

OnGrant == mem.until # None \/ (\E r \in Slot : At(r, "process") /\ Is(r, {"MANUAL"})) => NeverPaid

(* An open attempt has the token, and an open renewal is that of a live      *)
(* subscription.  Whoever finds the token expired came so late that it has   *)
(* seen the attempt, and goes on only when it has settled it.                *)
OpenHeld ==
  \A t \in Pending :
    /\ sub.op = t
    /\ pays[t].type = "RECURRING" => Live(sub)
    /\ \A q \in Slot : Running(q) /\ req[q].now > t + OpTimeout =>
         /\ req[q].pc \notin {"begin", "update"}
         /\ req[q].pc \in Looking => req[q].tgt = t

(* A charge that is given up or has failed is settled before the token goes. *)
OwnClosed ==
  \A r \in Slot : req[r].pc \in {"release", "failSub", "expire"} => req[r].now \notin Pending

EndsInv ==
  /\ AllPlaced /\ OneDaily /\ FarBehind /\ DailyLive /\ StillOver
  /\ OnGrant /\ OpenHeld /\ OwnClosed /\ PlanMirror

------------------------------------------------------------------------------
(* What a step does to the status, to the member, and to its own request.    *)

StatusEffect(r) ==
  \/ sub'.st = sub.st
  \/ Live(sub) /\ sub'.st \in {"ACTIVE", "PAST_DUE"}
  \/ sub'.st = "CANCELED" /\ Written(r) /\ At(r, "update")
  \/ sub'.st = "EXPIRED" /\ At(r, "expire") /\ sub.op = req[r].now /\ req'[r].pc = "idle"
  \/ sub'.st = "ACTIVE" /\ Reapplies(r)

MemberEffect(r) ==
  \/ mem' = mem /\ (Live(sub)' <=> Live(sub))
  \/ /\ mem' = Upgraded(mem, req[r].now) /\ MemberRowFree(r)
     /\ Live(sub) \/ Reapplies(r)
     /\ Live(sub)'
  \/ mem' = Downgraded(mem, req[r].now) /\ ~Live(sub)'
  \/ ~mem'.active /\ mem'.until = mem.until /\ ~Live(sub)'

OverEffect(r) ==
  /\ req'[r].pc = "update" /\ req'[r].kind = "WITHDRAW" => sub' = sub /\ req'[r].row = sub
  /\ req'[r].pc = "process" /\ req'[r].kind = "MANUAL" => mem.until # None

EndsEffect(r) == Placed(req'[r]) /\ StatusEffect(r) /\ MemberEffect(r) /\ OverEffect(r)

(* What it does to the attempts, what becomes of an attempt when the step    *)
(* writes the subscription, and what a request knows where the step leads.   *)
OrderEffect(r) ==
  /\ \A t \in Pending' :
       \/ t \in Pending /\ pays'[t].type = pays[t].type
       \/ /\ t = req[r].now /\ At(r, "create") /\ Pending = {} /\ sub' = sub
          /\ pays'[t].type = "RECURRING" => Is(r, {"DAILY"})
  /\ \A t \in Time : pays'[t].st # "NOROW" => pays[t].st # "NOROW" \/ req[r].pc \in Holding

WriteEffect(r) ==
  \/ sub'.op = sub.op /\ sub'.st = sub.st
  \/ At(r, "reapply") /\ req[r].tgt \notin Pending'
  \/ At(r, "apply") /\ req[r].now \notin Pending'
  \/ req[r].pc \in {"begin", "update", "release", "failSub", "expire"}

TurnEffect(r) ==
  /\ req'[r].pc = "update" => Pending' = {}
  /\ req'[r].pc = "begin" => Pending' = {} \/ (req[r].pc \in Looking /\ req[r].tgt \notin Pending')
  /\ req'[r].pc \in Looking =>
       req'[r].tgt \in Pending \/ (req[r].pc \in Looking /\ req'[r].tgt = req[r].tgt)
  /\ req'[r].pc \in {"release", "failSub", "expire"} => req[r].now \notin Pending'

OpenEffect(r) == OrderEffect(r) /\ WriteEffect(r) /\ TurnEffect(r)

LEMMA FarBehindKept ==
  ASSUME Typed, MoneyInv, TokenInv, CancelInv, EndsInv, NEW r \in Slot, Effect(r), EndsEffect(r)
  PROVE  FarBehind'
<1> SUFFICES ASSUME ~Live(sub'), NEW d \in Slot, req'[d].kind = "DAILY", Asking(req'[d])
             PROVE  Out'
  BY DEF FarBehind, Is, Live
<1>1. req[d].kind = "DAILY"
  BY DEF Effect, Acts, Asking, Recovering, Looking
<1>2. CASE ~Live(sub)
  <2>1. Asking(req[d])
    BY <1>2 DEF Effect, Acts, Leads, Live, LiveStatus
  <2>2. Out /\ sub.st \notin {"ACTIVE", "PAST_DUE"}
    BY <1>1, <1>2, <2>1 DEF EndsInv, FarBehind, Is, Live, LiveStatus
  <2> QED BY <2>2, OutKept DEF CancelInv
<1>3. CASE Live(sub)
  <2>1. CASE Written(r) /\ At(r, "update")
    BY <2>1, ShutsOut DEF CancelInv
  <2>2. CASE At(r, "expire") /\ req'[r].pc = "idle"
    <3>1. req[r].kind = "DAILY" /\ d # r
      BY <2>2 DEF EndsInv, AllPlaced, Placed, At, Asking, Recovering, Looking
    <3> QED BY <1>1, <3>1 DEF EndsInv, OneDaily, Is
  <2>3. sub'.st # sub.st /\ sub'.st \notin {"ACTIVE", "PAST_DUE"}
    BY <1>3 DEF Live, LiveStatus
  <2> QED BY <2>1, <2>2, <2>3 DEF EndsEffect, StatusEffect
<1> QED BY <1>2, <1>3

LEMMA DailyLiveKept ==
  ASSUME Typed, MoneyInv, TokenInv, CancelInv, EndsInv, NEW r \in Slot, Effect(r), EndsEffect(r)
  PROVE  DailyLive'
<1> SUFFICES ASSUME NEW q \in Slot, req'[q].pc \in Holding, req'[q].kind = "DAILY", ~Live(sub')
             PROVE  FALSE
  BY DEF DailyLive, Is, Live
<1>1. req[q].kind = "DAILY"
  BY DEF Effect, Acts, Holding
<1>2. Live(sub)
  <2>1. CASE req[q].pc \in Holding
    BY <1>1, <2>1 DEF EndsInv, DailyLive, Is
  <2>2. CASE req[q].pc \notin Holding
    <3>1. q = r /\ Begun(r)
      BY <2>2 DEF Effect, Acts, Leads
    <3>2. Asking(req[r]) /\ sub.ver = req[r].row.ver
      BY <3>1 DEF Begun, At, Asking
    <3> QED BY <1>1, <3>1, <3>2 DEF EndsInv, FarBehind, Is, Out
  <2> QED BY <2>1, <2>2
<1>3. \/ Written(r) /\ At(r, "update")
      \/ At(r, "expire") /\ sub.op = req[r].now /\ req'[r].pc = "idle"
  BY <1>2 DEF EndsEffect, StatusEffect, Live, LiveStatus
<1>4. Running(r)
  BY DEF Effect, Acts
<1>5. \A p \in Slot \ {r} : req[p].pc \notin Holding
  BY <1>3, <1>4, HolderAlone DEF Written
<1>6. req'[r].pc \notin Holding
  BY <1>3 DEF Effect, Leads, At, Holding, Begun
<1> QED BY <1>5, <1>6 DEF Effect, Acts

(* Nobody takes the token of an attempt that stays open, nor ends the        *)
(* subscription meanwhile.                                                   *)
LEMMA OpenUndisturbed ==
  ASSUME Typed, MoneyInv, TokenInv, EndsInv, NEW r \in Slot,
         Effect(r), EndsEffect(r), OpenEffect(r), NEW t \in Pending, t \in Pending'
  PROVE  sub'.op = t /\ (pays[t].type = "RECURRING" => Live(sub)')
<1>1. /\ Running(r) /\ req[r].now \in Time /\ t \in Time /\ sub.op = t
      /\ pays[t].type = "RECURRING" => Live(sub)
      /\ req[r].now > t + OpTimeout =>
           /\ req[r].pc \notin {"begin", "update"}
           /\ req[r].pc \in Looking => req[r].tgt = t
  BY DEF Effect, Acts, MoneyInv, Clocked, EndsInv, OpenHeld, Pending
<1>2. TokenFree(sub, req[r].now) => req[r].now > t + OpTimeout
  BY <1>1, TimeoutAssumption DEF TokenFree, Time, None
<1>3. sub.op = req[r].now => req[r].pc \notin Before \cup {"release", "failSub", "expire"}
  BY <1>1 DEF MoneyInv, Recorded, EndsInv, OwnClosed, Pending
<1>4. ~(req[r].pc \in {"begin", "update", "release", "failSub", "expire"}
          /\ (TokenFree(sub, req[r].now) \/ sub.op = req[r].now))
  <2>1. req[r].pc \in {"release", "failSub", "expire"} => sub.op = req[r].now
    BY DEF TokenInv, Held, Holding
  <2> QED BY <1>1, <1>2, <1>3, <2>1 DEF Before
<1>5. sub'.op = t
  <2> SUFFICES ASSUME sub'.op # sub.op PROVE FALSE
    BY <1>1
  <2>1. TokenFree(sub, req[r].now) \/ sub.op = req[r].now
    BY DEF Effect, Kept, Written, Begun
  <2>2. CASE At(r, "reapply")
    <3>1. req[r].now > t + OpTimeout
      BY <1>2, <1>3, <2>1, <2>2 DEF At, Before
    <3>2. req[r].tgt = t
      BY <1>1, <2>2, <3>1 DEF At, Looking
    <3> QED BY <2>2, <3>2 DEF OpenEffect, WriteEffect, At
  <2>3. CASE At(r, "apply")
    BY <1>1, <2>3 DEF OpenEffect, WriteEffect, At, TokenInv, Held, Holding
  <2>4. CASE req[r].pc \in {"begin", "update", "release", "failSub", "expire"}
    BY <1>4, <2>1, <2>4
  <2> QED BY <2>2, <2>3, <2>4 DEF OpenEffect, WriteEffect
<1>6. ASSUME Live(sub) PROVE Live(sub)'
  <2>1. ~(Written(r) /\ At(r, "update"))
    BY <1>4 DEF Written, At
  <2>2. ~(At(r, "expire") /\ sub.op = req[r].now)
    BY <1>4 DEF At
  <2> QED BY <1>6, <2>1, <2>2 DEF EndsEffect, StatusEffect, Live, LiveStatus
<1> QED BY <1>1, <1>5, <1>6

LEMMA OpenKept ==
  ASSUME Typed, MoneyInv, TokenInv, EndsInv, NEW r \in Slot,
         Effect(r), EndsEffect(r), OpenEffect(r)
  PROVE  OpenHeld' /\ OwnClosed'
<1>0. /\ Running(r) /\ req[r].now \in Time
      /\ \A q \in Slot \ {r} : req'[q] = req[q]
      /\ req'[r].pc = "idle" \/ req'[r].now = req[r].now
  BY DEF Effect, Acts, MoneyInv, Clocked
<1>1. ASSUME NEW t \in Pending, t \in Pending',
             NEW q \in Slot, Running(q)', req'[q].now > t + OpTimeout
      PROVE  /\ req'[q].pc \notin {"begin", "update"}
             /\ req'[q].pc \in Looking => req'[q].tgt = t
  <2>1. CASE q # r
    BY <1>0, <1>1, <2>1 DEF EndsInv, OpenHeld, Running
  <2>2. CASE q = r
    <3>1. req[r].pc \in Looking => req[r].tgt = t
      BY <1>0, <1>1, <2>2 DEF EndsInv, OpenHeld, Running
    <3>2. \A s \in Pending : s = t
      BY DEF MoneyInv, Recorded
    <3> QED BY <1>1, <2>2, <3>1, <3>2 DEF OpenEffect, TurnEffect
  <2> QED BY <2>1, <2>2
<1>2. ASSUME NEW t \in Pending', t \notin Pending
      PROVE  /\ sub'.op = t /\ (pays'[t].type = "RECURRING" => Live(sub)')
             /\ \A q \in Slot : Running(q)' => ~(req'[q].now > t + OpTimeout)
  <2>1. /\ t = req[r].now /\ At(r, "create") /\ sub' = sub
        /\ pays'[t].type = "RECURRING" => Is(r, {"DAILY"})
    BY <1>2 DEF OpenEffect, OrderEffect
  <2>2. sub.op = t /\ (Is(r, {"DAILY"}) => Live(sub))
    BY <2>1 DEF TokenInv, Held, Holding, EndsInv, DailyLive, At
  <2>3. ASSUME NEW q \in Slot, Running(q)' PROVE ~(req'[q].now > t + OpTimeout)
    <3>1. Running(q) /\ req'[q].now = req[q].now
      BY <1>0, <2>3 DEF Running
    <3>2. /\ req[q].now \in Time /\ req[q].now <= lastStart /\ clock <= t + Life /\ t \in Time
      BY <1>0, <2>1, <3>1 DEF MoneyInv, Clocked
    <3>3. lastStart <= clock /\ clock \in Int /\ lastStart \in Int
      BY DEF Typed, ClockTyped, Time, None
    <3> QED BY <3>1, <3>2, <3>3, TimeoutAssumption DEF Time
  <2> QED BY <2>1, <2>2, <2>3 DEF Live
<1>3. OpenHeld'
  <2>1. ASSUME NEW t \in Pending', t \in Pending
        PROVE  sub'.op = t /\ (pays'[t].type = "RECURRING" => Live(sub)')
    <3>1. pays'[t].type = "RECURRING" => pays[t].type = "RECURRING"
      BY <2>1 DEF OpenEffect, OrderEffect
    <3> QED BY <2>1, <3>1, OpenUndisturbed
  <2> QED BY <1>1, <1>2, <2>1 DEF OpenHeld
<1>4. OwnClosed'
  <2> SUFFICES ASSUME NEW q \in Slot, req'[q].pc \in {"release", "failSub", "expire"}
               PROVE  req'[q].now \notin Pending'
    BY DEF OwnClosed
  <2>1. CASE q = r
    BY <1>0, <2>1 DEF OpenEffect, TurnEffect
  <2>2. CASE q # r
    <3>1. req'[q] = req[q] /\ Running(q) /\ req[q].now \notin Pending
      BY <1>0, <2>2 DEF Running, EndsInv, OwnClosed
    <3>2. req[q].now # req[r].now
      BY <1>0, <2>2, <3>1 DEF MoneyInv, Clocked
    <3> QED BY <3>1, <3>2 DEF OpenEffect, OrderEffect
  <2> QED BY <2>1, <2>2
<1> QED BY <1>3, <1>4

LEMMA GrantKept ==
  ASSUME Typed, MoneyInv, TokenInv, EndsInv, NEW r \in Slot,
         Effect(r), EndsEffect(r), OpenEffect(r)
  PROVE  OnGrant'
<1>0. mem \in Member /\ \A q \in Slot \ {r} : req'[q] = req[q]
  BY DEF Typed, RowsTyped, Effect, Acts
<1>1. mem'.until # None => mem.until # None
  <2>1. Upgraded(mem, req[r].now).until = None /\ Downgraded(mem, req[r].now).until = None
    BY <1>0 DEF Upgraded, Downgraded, Mirror, Member
  <2> QED BY <2>1 DEF EndsEffect, MemberEffect
<1>2. ASSUME NEW q \in Slot, req'[q].pc = "process", req'[q].kind = "MANUAL"
      PROVE  mem.until # None \/ \E d \in Slot : At(d, "process") /\ Is(d, {"MANUAL"})
  BY <1>0, <1>2 DEF EndsEffect, OverEffect, At, Is
<1> SUFFICES ASSUME NeverPaid PROVE NeverPaid'
  BY <1>1, <1>2 DEF EndsInv, OnGrant, At, Is
<1>3. ~Live(sub)'
  <2>1. ~Reapplies(r)
    BY DEF Reapplies, At, NeverPaid, MoneyInv, Looked, Looking, Recovery, ApprovedNeverLost
  <2> QED BY <2>1 DEF NeverPaid, EndsEffect, StatusEffect, Live, LiveStatus
<1>4. \A t \in Time : pays'[t].st = "NOROW"
  BY DEF NeverPaid, OpenEffect, OrderEffect
<1>5. ~Asking(req'[r]) /\ req'[r].pc \notin Holding
  BY DEF NeverPaid, Effect, Leads, Begun, Asking, At, Live, LiveStatus
<1> QED BY <1>0, <1>3, <1>4, <1>5 DEF NeverPaid

LEMMA EndsKept ==
  ASSUME Typed, MoneyInv, TokenInv, CancelInv, EndsInv, NEW r \in Slot,
         Effect(r), EndsEffect(r), OpenEffect(r)
  PROVE  EndsInv'
<1>1. AllPlaced'
  BY DEF EndsInv, AllPlaced, EndsEffect, Effect, Acts
<1>2. OneDaily'
  BY DEF EndsInv, OneDaily, Effect, Acts, Is
<1>3. StillOver'
  <2> SUFFICES ASSUME NEW q \in Slot, req'[q].pc = "update", req'[q].kind = "WITHDRAW",
                      ~Live(req'[q].row)
               PROVE  ~Live(sub)'
    BY DEF StillOver, At, Is, Live
  <2>1. CASE q = r
    BY <2>1 DEF EndsEffect, OverEffect, Live
  <2>2. CASE q # r
    <3>1. req[q].pc = "update" /\ req[q].kind = "WITHDRAW" /\ ~Live(sub)
      BY <2>2 DEF Effect, Acts, EndsInv, StillOver, At, Is
    <3>2. ~MemberRowFree(r)
      BY <2>2, <3>1 DEF MemberRowFree, At, Is
    <3> QED BY <3>1, <3>2 DEF EndsEffect, MemberEffect
  <2> QED BY <2>1, <2>2
<1>4. PlanMirror'
  <2>0. mem \in Member
    BY DEF Typed, RowsTyped
  <2>1. CASE mem' = mem /\ (Live(sub)' <=> Live(sub))
    BY <2>1 DEF EndsInv, PlanMirror
  <2>2. CASE mem' = Upgraded(mem, req[r].now) /\ Live(sub)'
    <3>1. mem'.plan = "BASIC" /\ ~mem'.locked
      BY <2>0, <2>2 DEF Upgraded, Mirror, Member
    <3> QED BY <2>2, <3>1 DEF PlanMirror
  <2>3. CASE mem' = Downgraded(mem, req[r].now) /\ ~Live(sub)'
    <3>1. mem'.plan = "FREE"
      BY <2>0, <2>3 DEF Downgraded, Mirror, Member
    <3> QED BY <2>3, <3>1 DEF PlanMirror
  <2>4. CASE ~mem'.active
    BY <2>4 DEF PlanMirror
  <2> QED BY <2>1, <2>2, <2>3, <2>4 DEF EndsEffect, MemberEffect
<1> QED BY <1>1, <1>2, <1>3, <1>4, FarBehindKept, DailyLiveKept, GrantKept, OpenKept DEF EndsInv

------------------------------------------------------------------------------
(* Every step of these requests has such an effect.                          *)

LEMMA QuietStatus ==
  ASSUME NEW r \in Slot, UNCHANGED <<sub, mem>>
  PROVE  StatusEffect(r) /\ MemberEffect(r)
BY DEF StatusEffect, MemberEffect, Live

(* A request that is done, or goes on as a charge does.                      *)
LEMMA DonePlaced ==
  ASSUME Typed, NEW r \in Slot, Finish(r)
  PROVE  Placed(req'[r]) /\ OverEffect(r) /\ req'[r].pc = "idle"
<1>1. req'[r] = Idle
  BY DEF Typed, ReqTyped, Finish
<1> QED BY <1>1 DEF Idle, Placed, OverEffect, Asking, Recovering, Looking, Holding

LEMMA GoesPlaced ==
  ASSUME Typed, AllPlaced, NEW r \in Slot, NEW p, GoesOnAt(r, p),
         \/ p \in Looking \cup {"begin"} /\ Asking(req[r])
         \/ p \in Looking /\ req[r].pc \in Recovering
         \/ p \in {"create", "charge", "apply", "declined", "release"}
              /\ (At(r, "begin") \/ req[r].pc \in Holding)
         \/ p \in {"failSub", "expire", "refetch"} /\ Is(r, {"DAILY"})
         \/ p = "process" /\ At(r, "notice")
         \/ p = "reread" /\ At(r, "update")
  PROVE  Placed(req'[r]) /\ OverEffect(r)
<1>1. /\ req'[r].pc = p /\ req'[r].kind = req[r].kind /\ Placed(req[r])
  BY DEF Typed, ReqTyped, AllPlaced, GoesOnAt, Goto, Request
<1> QED BY <1>1 DEF Placed, OverEffect, Asking, Recovering, Looking, Holding, At, Is

LEMMA TakesPlaced ==
  ASSUME Typed, AllPlaced, NEW r \in Slot, NEW p, sub' = sub,
         req' = [req EXCEPT ![r].pc = p, ![r].row = sub],
         \/ p \in {"refind", "resolve"} /\ req[r].kind = "SEAT"
         \/ p \in {"resolve", "notice"} /\ req[r].kind = "DAILY"
         \/ p \in {"check", "update"}
         \/ p = "process" /\ mem.until # None
  PROVE  Placed(req'[r]) /\ OverEffect(r)
<1>1. /\ req'[r].pc = p /\ req'[r].kind = req[r].kind /\ req'[r].row = sub /\ Placed(req[r])
  BY DEF Typed, ReqTyped, AllPlaced, Request
<1> QED BY <1>1 DEF Placed, OverEffect, Asking, Recovering, Looking, Holding

LEMMA ResolvedPlaced ==
  ASSUME Typed, TokenInv, AllPlaced, NEW r \in Slot, req[r].pc \in Recovering, Resolved(r)
  PROVE  Placed(req'[r]) /\ OverEffect(r)
<1>1. CASE AfterResolve(r) = "idle"
  BY <1>1, DonePlaced DEF Resolved
<1>2. CASE AfterResolve(r) # "idle"
  <2>1. AfterResolve(r) = "begin" /\ Asking(req[r])
    BY <1>2 DEF AfterResolve, Is, TokenInv, NoFirstPayment, Asking
  <2>2. GoesOnAt(r, "begin")
    BY <2>1 DEF Resolved, GoesOnAt, None
  <2> QED BY <2>1, <2>2, GoesPlaced
<1> QED BY <1>1, <1>2

LEMMA ResolvedTurns ==
  ASSUME Typed, NEW r \in Slot, Resolved(r)
  PROVE  req'[r].pc \in {"idle", "find", "begin"}
BY DEF Typed, ReqTyped, Resolved, AfterResolve, Finish, Idle, Request

LEMMA ReadingEnds ==
  ASSUME Typed, TokenInv, CardClear, AllPlaced, NEW r \in Slot,
         \/ FindPending(r) \/ LookupCharge(r) \/ LookupUnknown(r) \/ ReadsOn(r)
         \/ FindSubscription(r) \/ RequireActiveForSeatAdd(r) \/ AssertNoPendingCharge(r)
         \/ RereadUpdated(r) \/ Refetch(r) \/ ChargeNotMade(r) \/ Crash(r)
  PROVE  EndsEffect(r)
<1>1. StatusEffect(r) /\ MemberEffect(r) /\ sub' = sub
  <2>1. UNCHANGED <<sub, mem>>
    BY ReadsOnKeeps
       DEF FindPending, LookupCharge, LookupUnknown, FindSubscription, RequireActiveForSeatAdd,
       AssertNoPendingCharge, RereadUpdated, Refetch, ChargeNotMade, Crash, KeepRows
  <2> QED BY <2>1, QuietStatus
<1> SUFFICES Placed(req'[r]) /\ OverEffect(r)
  BY <1>1 DEF EndsEffect
<1>2. Placed(req[r])
  BY DEF AllPlaced
<1>3. CASE Finish(r)
  BY <1>3, DonePlaced
<1>4. CASE FindPending(r) /\ ~Finish(r)
  <2>1. req[r].pc \in Recovering
    BY <1>4 DEF FindPending, At, Recovering
  <2>2. Resolved(r) \/ GoesOnAt(r, "lookup")
    BY <1>4 DEF FindPending, GoesOnAt, Pending, Time
  <2> QED BY <2>1, <2>2, ResolvedPlaced, GoesPlaced DEF Looking
<1>5. CASE LookupCharge(r)
  <2>1. /\ req[r].pc \in Recovering
        /\ GoesOnAt(r, "recover") \/ GoesOnAt(r, "notCharged")
    BY <1>5 DEF LookupCharge, At, Recovering, Looking, GoesOnAt
  <2> QED BY <2>1, GoesPlaced DEF Looking
<1>6. CASE FindSubscription(r) /\ ~Finish(r)
  <2>1. req' = [req EXCEPT ![r].pc = AfterFind(r), ![r].row = sub] /\ AfterFind(r) # "idle"
    BY <1>6 DEF FindSubscription
  <2>2. req[r].kind \in EndingKinds \cup {"NOKIND"}
    BY <1>2 DEF Placed
  <2>3. \/ AfterFind(r) = "refind" /\ req[r].kind = "SEAT"
        \/ AfterFind(r) \in {"resolve", "notice"} /\ req[r].kind = "DAILY"
        \/ AfterFind(r) = "check"
        \/ AfterFind(r) = "process" /\ mem.until # None
    <3>1. CASE req[r].kind = "SEAT"
      BY <2>1, <3>1 DEF AfterFind, SeatTurn
    <3>2. CASE req[r].kind = "DAILY"
      BY <2>1, <3>2 DEF AfterFind, DailyTurn
    <3>3. CASE req[r].kind \in {"DEFER", "TERMINATE", "MANUAL"}
      BY <2>1, <3>3 DEF AfterFind, ManualPlanExpired
    <3>4. CASE req[r].kind \in {"SWEEP", "WITHDRAW", "NOKIND"}
      BY <2>1, <3>4 DEF AfterFind
    <3> QED BY <2>2, <3>1, <3>2, <3>3, <3>4 DEF EndingKinds
  <2> QED BY <1>1, <2>1, <2>3, TakesPlaced
<1>7. CASE RequireActiveForSeatAdd(r) /\ ~Finish(r)
  <2>1. req' = [req EXCEPT ![r].pc = "resolve", ![r].row = sub] /\ req[r].kind = "SEAT"
    BY <1>2, <1>7 DEF RequireActiveForSeatAdd, Placed, At
  <2> QED BY <1>1, <2>1, TakesPlaced
<1>8. CASE RereadUpdated(r)
  BY <1>2, <1>8 DEF RereadUpdated, CardClear, Placed, EndingKinds, Is
<1>9. CASE Refetch(r) /\ ~Finish(r)
  <2>1. req' = [req EXCEPT ![r].pc = "notice", ![r].row = sub] /\ req[r].kind = "DAILY"
    BY <1>2, <1>9 DEF Refetch, Placed, At
  <2> QED BY <1>1, <2>1, TakesPlaced
<1>10. CASE ChargeNotMade(r) /\ ~Finish(r)
  <2>1. GoesOnAt(r, "declined") /\ req[r].pc \in Holding
    BY <1>10 DEF ChargeNotMade, GoesOnAt, At, Holding
  <2> QED BY <2>1, GoesPlaced
<1>11. CASE AssertNoPendingCharge(r) /\ ~Finish(r)
  <2>1. CASE Is(r, {"WITHDRAW"})
    <3>1. req' = [req EXCEPT ![r].pc = "update", ![r].row = sub]
      BY <1>11, <2>1 DEF AssertNoPendingCharge
    <3> QED BY <1>1, <3>1, TakesPlaced
  <2>2. CASE ~Is(r, {"WITHDRAW"})
    <3>1. req'[r].pc = "update" /\ req'[r].kind = req[r].kind
      BY <1>11, <2>2 DEF AssertNoPendingCharge, Typed, ReqTyped, Request
    <3> QED BY <1>2, <2>2, <3>1 DEF Placed, OverEffect, Is, Asking, Recovering, Looking, Holding
  <2> QED BY <2>1, <2>2
<1>12. CASE LookupUnknown(r) \/ Crash(r)
  BY <1>3, <1>12 DEF LookupUnknown, Crash
<1>13. CASE ReadsOn(r)
  <2>1. /\ req[r].pc \in Recovering
        /\ GoesOnAt(r, "existing") \/ GoesOnAt(r, "reapply")
    BY <1>13, ReadsOnKeeps DEF ReadsOn, GoesOnAt, Recovering, Looking, Recovery
  <2> QED BY <2>1, GoesPlaced DEF Looking
<1> QED
  BY <1>3, <1>4, <1>5, <1>6, <1>7, <1>8, <1>9, <1>10, <1>11, <1>12, <1>13

LEMMA AttemptEnds ==
  ASSUME Typed, TokenInv, AllPlaced, NEW r \in Slot,
         \/ CreatePendingAttempt(r) \/ NoBillingKey(r) \/ ChargeApproved(r)
         \/ SettleNotCharged(r) \/ SettlesUnapplied(r) \/ SettleDeclined(r) \/ SendNotice(r)
  PROVE  EndsEffect(r)
<1>1. StatusEffect(r) /\ MemberEffect(r)
  <2>1. UNCHANGED <<sub, mem>>
    BY UnappliedKeeps
       DEF CreatePendingAttempt, NoBillingKey, ChargeApproved, SettleNotCharged, SettleDeclined,
       SendNotice
  <2> QED BY <2>1, QuietStatus
<1> SUFFICES Placed(req'[r]) /\ OverEffect(r)
  BY <1>1 DEF EndsEffect
<1>2. Placed(req[r])
  BY DEF AllPlaced
<1>3. CASE Finish(r)
  BY <1>3, DonePlaced
<1>4. CASE SettleNotCharged(r) \/ SettlesUnapplied(r)
  <2>1. Resolved(r) /\ req[r].pc \in Recovering
    BY <1>4, UnappliedKeeps DEF SettleNotCharged, At, Recovering, Looking, Recovery
  <2> QED BY <2>1, ResolvedPlaced
<1>5. CASE SendNotice(r) /\ ~Finish(r)
  BY <1>5, GoesPlaced DEF SendNotice, GoesOnAt
<1>6. CASE NoBillingKey(r)
  <2>1. req[r].kind = "DAILY"
    BY <1>2, <1>6 DEF NoBillingKey, HasCard, Charging, Placed, Holding, At, Is
  <2> QED BY <1>6, <2>1, GoesPlaced DEF NoBillingKey, GoesOnAt, Is
<1>7. CASE SettleDeclined(r) /\ ~Finish(r)
  <2>1. \/ Goto(r, "release") /\ At(r, "declined")
        \/ Goto(r, "failSub") /\ Is(r, {"DAILY"})
    BY <1>2, <1>7 DEF SettleDeclined, Placed, Holding, At, Is
  <2> QED BY <2>1, GoesPlaced DEF GoesOnAt, Holding, At
<1>8. CASE (CreatePendingAttempt(r) \/ ChargeApproved(r)) /\ ~Finish(r)
  <2>1. /\ req[r].pc \in Holding
        /\ \E p \in {"charge", "release", "apply"} : Goto(r, p)
    BY <1>8 DEF CreatePendingAttempt, ChargeApproved, At, Holding
  <2> QED BY <2>1, GoesPlaced DEF GoesOnAt
<1> QED BY <1>3, <1>4, <1>5, <1>6, <1>7, <1>8

LEMMA BeginEnds ==
  ASSUME Typed, AllPlaced, NEW r \in Slot, BeginBillingOperation(r)
  PROVE  EndsEffect(r)
<1>1. sub'.st = sub.st /\ mem' = mem
  BY DEF BeginBillingOperation, Typed, RowsTyped, Subscription
<1>2. Placed(req'[r]) /\ OverEffect(r)
  <2>1. Finish(r) \/ (GoesOnAt(r, "create") /\ At(r, "begin"))
    BY DEF BeginBillingOperation, GoesOnAt
  <2> QED BY <2>1, DonePlaced, GoesPlaced
<1> QED BY <1>1, <1>2 DEF EndsEffect, StatusEffect, MemberEffect, Live

(* Statements that end the subscription, the member's stay or the plan.      *)
LEMMA EndingEnds ==
  ASSUME Typed, TokenInv, EndsInv, NEW r \in Slot,
         \/ ExpireSubscription(r) \/ TerminateSubscription(r) \/ Withdraw(r)
         \/ ProcessExpiredManualPlan(r)
  PROVE  EndsEffect(r)
<1>0. sub \in Subscription /\ mem \in Member /\ Placed(req[r])
  BY DEF Typed, RowsTyped, EndsInv, AllPlaced
<1>1. Placed(req'[r]) /\ OverEffect(r) /\ req'[r].pc = "idle"
  <2>1. Finish(r)
    BY DEF ExpireSubscription, TerminateSubscription, Withdraw, ProcessExpiredManualPlan
  <2> QED BY <2>1, DonePlaced
<1> SUFFICES StatusEffect(r) /\ MemberEffect(r)
  BY <1>1 DEF EndsEffect
<1>2. \A st \in EndedStatus :
        sub' = Terminated(sub, st, req[r].now) =>
          /\ ~Live(sub)' /\ sub'.st = st /\ sub'.op = None /\ sub'.ver = Stamp(req[r].now)
  BY <1>0, TerminatedColumns DEF Live, LiveStatus, EndedStatus
<1>3. "CANCELED" \in EndedStatus /\ "EXPIRED" \in EndedStatus
  BY DEF EndedStatus
<1>4. CASE UNCHANGED <<sub, mem>>
  BY <1>4, QuietStatus
<1>5. CASE ExpireSubscription(r) /\ ~UNCHANGED <<sub, mem>>
  <2>1. /\ sub.op = req[r].now /\ At(r, "expire")
        /\ sub' = Terminated(sub, "EXPIRED", req[r].now) /\ mem' = Downgraded(mem, req[r].now)
    BY <1>5 DEF ExpireSubscription
  <2> QED BY <1>1, <1>2, <1>3, <2>1 DEF StatusEffect, MemberEffect
<1>6. CASE TerminateSubscription(r) /\ ~UNCHANGED <<sub, mem>>
  <2>1. /\ TokenFree(sub, req[r].now) /\ At(r, "update")
        /\ sub' = Terminated(sub, "CANCELED", req[r].now) /\ mem' = Downgraded(mem, req[r].now)
    BY <1>6 DEF TerminateSubscription
  <2>2. Written(r)
    BY <1>2, <1>3, <2>1 DEF Written, At
  <2> QED BY <1>2, <1>3, <2>1, <2>2 DEF StatusEffect, MemberEffect
<1>7. CASE Withdraw(r) /\ ~UNCHANGED <<sub, mem>>
  <2>1. ~mem'.active /\ mem'.until = mem.until
    BY <1>0, <1>7 DEF Withdraw, Member
  <2>2. CASE sub' = sub
    <3>1. ~Live(req[r].row) \/ sub = Terminated(sub, "CANCELED", req[r].now)
      BY <1>7, <2>2 DEF Withdraw
    <3>2. ~Live(sub)'
      <4>1. CASE ~Live(req[r].row)
        BY <1>7, <2>2, <4>1 DEF Withdraw, EndsInv, StillOver, Live
      <4>2. CASE sub = Terminated(sub, "CANCELED", req[r].now)
        BY <1>2, <1>3, <2>2, <4>2
      <4> QED BY <3>1, <4>1, <4>2
    <3> QED BY <2>1, <2>2, <3>2 DEF StatusEffect, MemberEffect
  <2>3. CASE sub' # sub
    <3>1. /\ TokenFree(sub, req[r].now) /\ At(r, "update")
          /\ sub' = Terminated(sub, "CANCELED", req[r].now)
      BY <1>7, <2>3 DEF Withdraw
    <3>2. Written(r)
      BY <1>2, <1>3, <3>1 DEF Written, At
    <3> QED BY <1>2, <1>3, <2>1, <3>1, <3>2 DEF StatusEffect, MemberEffect
  <2> QED BY <2>2, <2>3
<1>8. CASE ProcessExpiredManualPlan(r)
  <2>1. sub' = sub /\ mem' = Downgraded(mem, req[r].now) /\ ~Live(sub)
    BY <1>8 DEF ProcessExpiredManualPlan, EndsInv, OnGrant, NeverPaid
  <2> QED BY <2>1 DEF StatusEffect, MemberEffect, Live
<1> QED BY <1>4, <1>5, <1>6, <1>7, <1>8

(* Statements that change the subscription and leave the member alone.       *)
LEMMA ChangingEnds ==
  ASSUME Typed, TokenInv, EndsInv, NEW r \in Slot,
         \/ ReleaseBillingOperation(r) \/ GuardedSubscriptionUpdate(r) \/ RecordNotice(r)
         \/ RecordRecurringFailure(r)
  PROVE  EndsEffect(r)
<1>0. sub \in Subscription /\ AllPlaced /\ Placed(req[r]) /\ mem' = mem
  BY DEF Typed, RowsTyped, EndsInv, AllPlaced, ReleaseBillingOperation, GuardedSubscriptionUpdate,
     RecordNotice, RecordRecurringFailure
<1>1. sub'.st = sub.st \/ (Live(sub) /\ sub'.st = "PAST_DUE")
  <2>1. CASE ReleaseBillingOperation(r) \/ RecordNotice(r)
    BY <1>0, <2>1 DEF ReleaseBillingOperation, RecordNotice, Subscription
  <2>2. CASE GuardedSubscriptionUpdate(r)
    <3>1. Running(r) /\ ~Is(r, {"WITHDRAW"}) /\ ~Ends(r) /\ (sub' = sub \/ sub' = Change(r))
      BY <2>2 DEF GuardedSubscriptionUpdate, At, Running
    <3>2. Change(r).st = sub.st
      <4>1. CASE Is(r, {"CARD", "SEAT", "DEFER"})
        BY <3>1, <4>1, ChangedColumns
      <4>2. CASE ~Is(r, {"CARD", "SEAT", "DEFER"})
        <5>1. Change(r) = [sub EXCEPT !.ver = Stamp(req[r].now)]
          BY <1>0, <4>2 DEF Placed, EndingKinds, Change, Is
        <5> QED BY <1>0, <5>1 DEF Subscription
      <4> QED BY <4>1, <4>2
    <3> QED BY <3>1, <3>2
  <2>3. CASE RecordRecurringFailure(r)
    <3>1. Live(sub)
      BY <1>0, <2>3 DEF RecordRecurringFailure, Placed, EndsInv, DailyLive, At, Is, Holding
    <3> QED BY <1>0, <2>3, <3>1 DEF RecordRecurringFailure, Subscription
  <2> QED BY <2>1, <2>2, <2>3
<1>2. Placed(req'[r]) /\ OverEffect(r)
  <2>1. \/ Finish(r)
        \/ Goto(r, "reread") /\ At(r, "update")
        \/ Goto(r, "expire") /\ Is(r, {"DAILY"})
    BY <1>0 DEF ReleaseBillingOperation, GuardedSubscriptionUpdate, RecordNotice,
       RecordRecurringFailure, Placed, At, Is
  <2> QED BY <1>0, <2>1, DonePlaced, GoesPlaced DEF GoesOnAt
<1> QED BY <1>0, <1>1, <1>2 DEF EndsEffect, StatusEffect, MemberEffect, Live, LiveStatus

LEMMA ApplyingEnds ==
  ASSUME Typed, MoneyInv, TokenInv, EndsInv, NEW r \in Slot, ApplyCharge(r) \/ ApplyRecovered(r)
  PROVE  EndsEffect(r)
<1>0. sub \in Subscription /\ AllPlaced /\ Placed(req[r])
  BY DEF Typed, RowsTyped, EndsInv, AllPlaced
<1>1. Placed(req'[r]) /\ OverEffect(r)
  <2>1. CASE ApplyRecovered(r)
    BY <1>0, <2>1, ResolvedPlaced DEF ApplyRecovered, At, Recovering, Looking
  <2>2. CASE ApplyCharge(r)
    <3>1. Finish(r) \/ (Goto(r, "refetch") /\ Is(r, {"DAILY"}))
      BY <2>2 DEF ApplyCharge
    <3> QED BY <1>0, <3>1, DonePlaced, GoesPlaced DEF GoesOnAt
  <2> QED BY <2>1, <2>2
<1>2. \/ UNCHANGED <<sub, mem>>
      \/ \E p : /\ Live(sub) \/ Reapplies(r)
                /\ sub' = Renewed(sub, p, req[r].now)
                /\ mem' = Upgraded(mem, req[r].now) /\ MemberRowFree(r)
      \/ \E p : sub' = SeatsAdded(sub, p, req[r].now) /\ mem' = mem
  <2>1. CASE ApplyCharge(r)
    <3>1. req[r].pc \in Holding /\ req[r].kind \in {"SEAT", "DAILY"}
      BY <1>0, <2>1 DEF ApplyCharge, At, Holding, Placed
    <3>2. req[r].kind = "DAILY" => Live(sub)
      BY <3>1 DEF EndsInv, DailyLive, Is
    <3> QED BY <2>1, <3>1, <3>2 DEF ApplyCharge, Is, Charging
  <2>2. CASE ApplyRecovered(r)
    <3>1. /\ At(r, "reapply") /\ req[r].tgt \in Time /\ pays[req[r].tgt].type # "INITIAL"
      BY <2>2 DEF ApplyRecovered, MoneyInv, Looked, Looking, At, TokenInv, NoFirstPayment
    <3>2. ASSUME pays[req[r].tgt].type = "RECURRING" PROVE Live(sub) \/ Reapplies(r)
      <4>1. CASE pays[req[r].tgt].st = "PENDING"
        BY <3>1, <3>2, <4>1 DEF EndsInv, OpenHeld, Pending
      <4>2. CASE pays[req[r].tgt].st # "PENDING"
        <5>1. req'[r].pc # "reapply"
          BY <2>2, ResolvedTurns DEF ApplyRecovered
        <5> QED BY <3>1, <4>2, <5>1 DEF Reapplies
      <4> QED BY <4>1, <4>2
    <3>3. \/ UNCHANGED <<sub, mem>>
          \/ \E p : /\ pays[req[r].tgt].type = "RECURRING"
                    /\ sub' = Renewed(sub, p, req[r].now)
                    /\ mem' = Upgraded(mem, req[r].now) /\ MemberRowFree(r)
          \/ \E p : sub' = SeatsAdded(sub, p, req[r].now) /\ mem' = mem
      BY <2>2, <3>1 DEF ApplyRecovered
    <3> QED BY <3>2, <3>3
  <2> QED BY <2>1, <2>2
<1>3. StatusEffect(r) /\ MemberEffect(r)
  <2>1. CASE UNCHANGED <<sub, mem>>
    BY <2>1, QuietStatus
  <2>2. ASSUME NEW p, Live(sub) \/ Reapplies(r), sub' = Renewed(sub, p, req[r].now),
               mem' = Upgraded(mem, req[r].now), MemberRowFree(r)
        PROVE  StatusEffect(r) /\ MemberEffect(r)
    <3>1. sub'.st = "ACTIVE"
      BY <1>0, <2>2, PaidColumns
    <3>2. StatusEffect(r)
      BY <2>2, <3>1 DEF StatusEffect
    <3>3. MemberEffect(r)
      BY <2>2, <3>1 DEF MemberEffect, Live, LiveStatus
    <3> QED BY <3>2, <3>3
  <2>3. ASSUME NEW p, sub' = SeatsAdded(sub, p, req[r].now), mem' = mem
        PROVE  StatusEffect(r) /\ MemberEffect(r)
    <3>1. sub'.st = sub.st
      BY <1>0, <2>3, PaidColumns
    <3> QED BY <2>3, <3>1 DEF StatusEffect, MemberEffect, Live
  <2> QED BY <1>2, <2>1, <2>2, <2>3
<1> QED BY <1>1, <1>3 DEF EndsEffect

(* What the steps do to the attempts.                                        *)
LEMMA SettledPending ==
  ASSUME Typed, NEW t \in Time, NEW st \in {"PAID", "FAILED"}, pays' = Settled(t, st)
  PROVE  /\ t \notin Pending'
         /\ \A u \in Pending' : u \in Pending /\ pays'[u].type = pays[u].type
         /\ \A u \in Time : pays'[u].st # "NOROW" => pays[u].st # "NOROW"
<1>1. \A u \in Time : pays[u] \in Payment
  BY DEF Typed, RowsTyped
<1>2. CASE pays[t].st # "PENDING"
  BY <1>2 DEF Settled, Pending
<1>3. CASE pays[t].st = "PENDING"
  <2>1. pays' = [pays EXCEPT ![t].st = st] /\ pays \in [Time -> Payment]
    BY <1>3 DEF Settled, Typed, RowsTyped
  <2>2. /\ pays'[t].st = st
        /\ \A u \in Time \ {t} : pays'[u] = pays[u]
    BY <1>1, <2>1 DEF Payment
  <2> QED BY <1>3, <2>2 DEF Pending
<1> QED BY <1>2, <1>3

LEMMA SettlingOrder ==
  ASSUME Typed, NEW r \in Slot, NEW t \in Time, NEW st \in {"PAID", "FAILED"},
         pays' = Settled(t, st)
  PROVE  OrderEffect(r) /\ t \notin Pending'
BY SettledPending DEF OrderEffect

LEMMA QuietOrder ==
  ASSUME NEW r \in Slot, UNCHANGED <<pays, sub>>
  PROVE  OrderEffect(r) /\ WriteEffect(r) /\ Pending' = Pending
BY DEF OrderEffect, WriteEffect, Pending

(* Where none of what TurnEffect speaks of is reached.                       *)
LEMMA PlainTurn ==
  ASSUME NEW r \in Slot,
         req'[r].pc \notin Looking \cup {"update", "begin", "release", "failSub", "expire"}
  PROVE  TurnEffect(r)
BY DEF TurnEffect

LEMMA FinishTurn ==
  ASSUME Typed, NEW r \in Slot, Finish(r)
  PROVE  TurnEffect(r)
<1>1. req'[r].pc = "idle"
  BY DEF Typed, ReqTyped, Finish, Idle
<1> QED BY <1>1, PlainTurn DEF Looking

LEMMA GoesTurn ==
  ASSUME Typed, NEW r \in Slot, NEW p, Goto(r, p)
  PROVE  req'[r].pc = p /\ req'[r].tgt = req[r].tgt /\ req'[r].now = req[r].now
BY DEF Typed, ReqTyped, Goto, Request

LEMMA ResolvedTurn ==
  ASSUME Typed, NEW r \in Slot, Resolved(r),
         Pending' = {} \/ (req[r].pc \in Looking /\ req[r].tgt \notin Pending')
  PROVE  TurnEffect(r)
<1>1. req'[r].pc \in {"idle", "find", "begin"}
  BY ResolvedTurns
<1> QED BY <1>1 DEF TurnEffect, Looking

LEMMA ReadingOpen ==
  ASSUME Typed, TokenInv, CardClear, AllPlaced, NEW r \in Slot,
         \/ FindPending(r) \/ LookupCharge(r) \/ LookupUnknown(r) \/ ReadsOn(r)
         \/ FindSubscription(r) \/ RequireActiveForSeatAdd(r) \/ AssertNoPendingCharge(r)
         \/ RereadUpdated(r) \/ Refetch(r) \/ ChargeNotMade(r) \/ Crash(r)
         \/ ChargeApproved(r) \/ SendNotice(r)
  PROVE  OpenEffect(r)
<1>1. UNCHANGED <<pays, sub>>
  BY ReadsOnKeeps
     DEF FindPending, LookupCharge, LookupUnknown, FindSubscription, RequireActiveForSeatAdd,
     AssertNoPendingCharge, RereadUpdated, Refetch, ChargeNotMade, Crash, KeepRows,
     ChargeApproved, SendNotice
<1> SUFFICES TurnEffect(r)
  BY <1>1, QuietOrder DEF OpenEffect
<1>2. CASE Finish(r)
  BY <1>2, FinishTurn
<1>3. CASE FindPending(r) /\ ~Finish(r)
  <2>1. CASE Pending = {} /\ Resolved(r)
    BY <1>1, <2>1, QuietOrder, ResolvedTurn
  <2>2. CASE \E t \in Pending : req' = [req EXCEPT ![r].pc = "lookup", ![r].tgt = t]
    <3>1. req'[r].pc = "lookup" /\ req'[r].tgt \in Pending
      BY <2>2 DEF Typed, ReqTyped, Request
    <3> QED BY <3>1 DEF TurnEffect
  <2> QED BY <1>3, <2>1, <2>2 DEF FindPending
<1>4. CASE LookupCharge(r) \/ ReadsOn(r)
  <2>1. /\ req[r].pc \in Looking
        /\ \E p \in {"recover", "notCharged", "existing", "reapply"} : Goto(r, p)
    BY <1>4, ReadsOnKeeps DEF LookupCharge, ReadsOn, At, Looking, Recovery
  <2> QED BY <2>1, GoesTurn DEF TurnEffect
<1>5. CASE (FindSubscription(r) \/ RequireActiveForSeatAdd(r) \/ Refetch(r)) /\ ~Finish(r)
  <2>1. PICK p \in {AfterFind(r), "resolve", "notice"} :
          req' = [req EXCEPT ![r].pc = p, ![r].row = sub]
    BY <1>5 DEF FindSubscription, RequireActiveForSeatAdd, Refetch
  <2>2. AfterFind(r) \in {"claimRead", "idle", "refind", "check", "resolve", "notice", "process"}
    BY DEF AfterFind, SeatTurn, DailyTurn
  <2>3. req'[r].pc = p
    BY <2>1 DEF Typed, ReqTyped, Request
  <2> QED BY <2>2, <2>3, PlainTurn DEF Looking
<1>6. CASE AssertNoPendingCharge(r) /\ ~Finish(r)
  <2>1. Pending = {} /\ req'[r].pc = "update"
    BY <1>6 DEF AssertNoPendingCharge, Typed, ReqTyped, Request
  <2> QED BY <1>1, <2>1, QuietOrder DEF TurnEffect, Looking
<1>7. CASE RereadUpdated(r)
  <2>1. req[r].kind = "CARD" /\ req[r].kind \in EndingKinds \cup {"NOKIND"}
    BY <1>7 DEF RereadUpdated, CardClear, AllPlaced, Placed, Is
  <2> QED BY <2>1 DEF EndingKinds
<1>8. CASE (ChargeNotMade(r) \/ ChargeApproved(r) \/ SendNotice(r)) /\ ~Finish(r)
  <2>1. \E p \in {"declined", "apply", "process"} : Goto(r, p)
    BY <1>8 DEF ChargeNotMade, ChargeApproved, SendNotice
  <2> QED BY <2>1, GoesTurn, PlainTurn DEF Looking
<1>9. CASE LookupUnknown(r) \/ Crash(r)
  BY <1>2, <1>9 DEF LookupUnknown, Crash
<1> QED BY <1>2, <1>3, <1>4, <1>5, <1>6, <1>7, <1>8, <1>9

LEMMA AttemptOpen ==
  ASSUME Typed, MoneyInv, AllPlaced, NEW r \in Slot,
         \/ CreatePendingAttempt(r) \/ NoBillingKey(r)
         \/ SettleNotCharged(r) \/ SettlesUnapplied(r) \/ SettleDeclined(r)
  PROVE  OpenEffect(r)
<1>0. UNCHANGED sub /\ pays \in [Time -> Payment] /\ Running(r)
  BY UnappliedKeeps DEF CreatePendingAttempt, NoBillingKey, SettleNotCharged, SettleDeclined,
     Typed, RowsTyped, Running, At
<1> SUFFICES OrderEffect(r) /\ TurnEffect(r)
  BY <1>0 DEF OpenEffect, WriteEffect
<1>1. /\ req[r].now \in Time
      /\ req[r].pc \in Looking => req[r].tgt \in Time
  BY <1>0 DEF MoneyInv, Clocked, Looked
<1>2. CASE SettleNotCharged(r) \/ SettlesUnapplied(r)
  <2>1. /\ req[r].pc \in Looking /\ Resolved(r)
        /\ \E st \in {"PAID", "FAILED"} : pays' = Settled(req[r].tgt, st)
    BY <1>2, UnappliedKeeps DEF SettleNotCharged, At, Looking, Recovery
  <2> QED BY <1>1, <2>1, SettlingOrder, ResolvedTurn
<1>3. CASE SettleDeclined(r)
  <2>1. pays' = Settled(req[r].now, "FAILED")
    BY <1>3 DEF SettleDeclined
  <2>2. OrderEffect(r) /\ req[r].now \notin Pending'
    BY <1>1, <2>1, SettlingOrder
  <2>3. Finish(r) \/ Goto(r, "release") \/ Goto(r, "failSub")
    BY <1>3 DEF SettleDeclined
  <2> QED BY <2>2, <2>3, FinishTurn, GoesTurn DEF TurnEffect, Looking
<1>4. ASSUME NEW p \in Payment, pays' = [pays EXCEPT ![req[r].now] = p], At(r, "create")
      PROVE  /\ \A t \in Time \ {req[r].now} : pays'[t] = pays[t]
             /\ pays'[req[r].now] = p /\ req[r].pc \in Holding
  BY <1>0, <1>1, <1>4 DEF At, Holding
<1>5. Attempt(r) \in Payment /\ (Attempt(r).type = "RECURRING" => req[r].kind \notin {"START", "SEAT"})
  BY <1>0, AttemptTyped DEF Typed, Attempt, Is
<1>6. CASE CreatePendingAttempt(r) /\ UNCHANGED pays
  <2>1. OrderEffect(r) /\ Pending' = Pending
    BY <1>0, <1>6, QuietOrder
  <2>2. req[r].now \notin Pending
    BY <1>6 DEF CreatePendingAttempt, MoneyInv, Recorded, Before, At, Pending
  <2>3. \/ Finish(r) \/ Goto(r, "release") \/ Goto(r, "charge")
    BY <1>6 DEF CreatePendingAttempt
  <2> QED BY <2>1, <2>2, <2>3, FinishTurn, GoesTurn DEF TurnEffect, Looking
<1>7. CASE CreatePendingAttempt(r) /\ ~UNCHANGED pays
  <2>1. /\ At(r, "create") /\ Pending = {} /\ Goto(r, "charge")
        /\ pays' = [pays EXCEPT ![req[r].now] = Attempt(r)]
    BY <1>7 DEF CreatePendingAttempt
  <2>2. Attempt(r).type = "RECURRING" => Is(r, {"DAILY"})
    BY <1>5, <2>1 DEF AllPlaced, Placed, At, Is, Holding
  <2>3. OrderEffect(r)
    BY <1>0, <1>4, <1>5, <2>1, <2>2 DEF OrderEffect, Pending
  <2>4. TurnEffect(r)
    BY <2>1, GoesTurn, PlainTurn DEF Looking
  <2> QED BY <2>3, <2>4
<1>8. CASE NoBillingKey(r)
  <2>1. /\ At(r, "create") /\ Goto(r, "failSub")
        /\ pays' = [pays EXCEPT ![req[r].now] = [Attempt(r) EXCEPT !.st = "FAILED"]]
    BY <1>8 DEF NoBillingKey
  <2>2. /\ [Attempt(r) EXCEPT !.st = "FAILED"] \in Payment
        /\ [Attempt(r) EXCEPT !.st = "FAILED"].st = "FAILED"
    BY <1>5 DEF Payment
  <2>3. OrderEffect(r) /\ req[r].now \notin Pending'
    BY <1>0, <1>4, <2>1, <2>2 DEF OrderEffect, Pending
  <2>4. TurnEffect(r)
    BY <2>1, <2>3, GoesTurn DEF TurnEffect, Looking
  <2> QED BY <2>3, <2>4
<1> QED BY <1>2, <1>3, <1>6, <1>7, <1>8

LEMMA WritingOpen ==
  ASSUME Typed, MoneyInv, EndsInv, NEW r \in Slot,
         \/ BeginBillingOperation(r) \/ ReleaseBillingOperation(r)
         \/ GuardedSubscriptionUpdate(r) \/ RecordNotice(r) \/ RecordRecurringFailure(r)
         \/ ExpireSubscription(r) \/ TerminateSubscription(r) \/ Withdraw(r)
         \/ ProcessExpiredManualPlan(r)
  PROVE  OpenEffect(r)
<1>1. pays' = pays
  BY DEF BeginBillingOperation, ReleaseBillingOperation, GuardedSubscriptionUpdate, RecordNotice,
     RecordRecurringFailure, ExpireSubscription, TerminateSubscription, Withdraw,
     ProcessExpiredManualPlan
<1>2. OrderEffect(r) /\ Pending' = Pending
  BY <1>1 DEF OrderEffect, Pending
<1>3. WriteEffect(r)
  <2>1. CASE RecordNotice(r) \/ ProcessExpiredManualPlan(r)
    BY <2>1 DEF RecordNotice, ProcessExpiredManualPlan, WriteEffect, Typed, RowsTyped, Subscription
  <2>2. CASE ~(RecordNotice(r) \/ ProcessExpiredManualPlan(r))
    BY <2>2 DEF WriteEffect, At, BeginBillingOperation, ReleaseBillingOperation,
       GuardedSubscriptionUpdate, RecordRecurringFailure, ExpireSubscription,
       TerminateSubscription, Withdraw
  <2> QED BY <2>1, <2>2
<1>4. TurnEffect(r)
  <2>1. \/ Finish(r) \/ Goto(r, "create") \/ Goto(r, "reread")
        \/ At(r, "failSub") /\ Goto(r, "expire")
    BY DEF BeginBillingOperation, ReleaseBillingOperation, GuardedSubscriptionUpdate, RecordNotice,
       RecordRecurringFailure, ExpireSubscription, TerminateSubscription, Withdraw,
       ProcessExpiredManualPlan
  <2>2. CASE At(r, "failSub") /\ Goto(r, "expire")
    <3>1. req[r].now \notin Pending'
      BY <1>2, <2>2 DEF EndsInv, OwnClosed, At
    <3> QED BY <2>2, <3>1, GoesTurn DEF TurnEffect, Looking
  <2> QED BY <2>1, <2>2, FinishTurn, GoesTurn, PlainTurn DEF Looking
<1> QED BY <1>2, <1>3, <1>4 DEF OpenEffect

LEMMA ApplyingOpen ==
  ASSUME Typed, MoneyInv, NEW r \in Slot, ApplyCharge(r) \/ ApplyRecovered(r)
  PROVE  OpenEffect(r)
<1>1. CASE ApplyCharge(r)
  <2>1. At(r, "apply") /\ req[r].now \in Time /\ pays' = Settled(req[r].now, "PAID")
    BY <1>1 DEF ApplyCharge, At, Running, MoneyInv, Clocked
  <2>2. OrderEffect(r) /\ req[r].now \notin Pending'
    BY <2>1, SettlingOrder
  <2>3. Finish(r) \/ Goto(r, "refetch")
    BY <1>1 DEF ApplyCharge
  <2>4. TurnEffect(r)
    BY <2>3, FinishTurn, GoesTurn, PlainTurn DEF Looking
  <2> QED BY <2>1, <2>2, <2>4 DEF OpenEffect, WriteEffect
<1>2. CASE ApplyRecovered(r)
  <2>1. /\ At(r, "reapply") /\ req[r].pc \in Looking /\ Resolved(r)
        /\ pays' = Settled(req[r].tgt, "PAID")
    BY <1>2 DEF ApplyRecovered, At, Looking
  <2>2. OrderEffect(r) /\ req[r].tgt \notin Pending'
    BY <2>1, SettlingOrder DEF MoneyInv, Looked
  <2>3. TurnEffect(r)
    BY <2>1, <2>2, ResolvedTurn
  <2> QED BY <2>1, <2>2, <2>3 DEF OpenEffect, WriteEffect
<1> QED BY <1>1, <1>2

LEMMA StepEnds ==
  ASSUME Typed, MoneyInv, TokenInv, CancelInv, EndsInv, NEW r \in Slot, Step(r) \/ Crash(r)
  PROVE  EndsEffect(r) /\ OpenEffect(r)
<1>1. ~ReadMemberVersion(r) /\ ~ClaimMember(r)
  BY DEF ReadMemberVersion, ClaimMember, At, TokenInv, NoFirstPayment
<1>2. CardClear /\ AllPlaced
  BY DEF CancelInv, EndsInv
<1>3. EndsEffect(r)
  BY <1>1, <1>2, Finds, ReadingEnds, AttemptEnds, BeginEnds, EndingEnds, ChangingEnds,
     ApplyingEnds DEF Step
<1>4. OpenEffect(r)
  BY <1>1, <1>2, Finds, ReadingOpen, AttemptOpen, WritingOpen, ApplyingOpen DEF Step
<1> QED BY <1>3, <1>4

(* A request arrives.                                                        *)
LEMMA StartEnds ==
  ASSUME Kinds \subseteq EndingKinds, "DAILY" \in Batch, Typed, EndsInv,
         NEW r \in Slot, NEW k \in Kinds, Start(r, k)
  PROVE  EndsInv'
<1>1. /\ UNCHANGED <<sub, mem, pays>> /\ \A q \in Slot \ {r} : req'[q] = req[q]
      /\ req'[r].pc = FirstStep(k) /\ req'[r].kind = k
  BY DEF Start, KeepRows, Typed, ReqTyped, Idle
<1>2. /\ FirstStep(k) \in {"resolve", "check", "find"} /\ k \in EndingKinds
      /\ FirstStep(k) = "resolve" => k = "SWEEP"
  BY DEF FirstStep, EndingKinds
<1>3. ~Asking(req'[r]) /\ req'[r].pc \notin Holding
  BY <1>1, <1>2 DEF Asking, Recovering, Looking, Holding
<1>4. AllPlaced'
  BY <1>1, <1>2, <1>3 DEF EndsInv, AllPlaced, Placed
<1>5. OneDaily'
  <2>1. k = "DAILY" => \A q \in Slot : ~Is(q, {"DAILY"})
    BY DEF Start, Is
  <2> QED BY <1>1, <2>1 DEF EndsInv, OneDaily, Is
<1>6. FarBehind'
  BY <1>1, <1>3 DEF EndsInv, FarBehind, Out, Is, Live
<1>7. DailyLive' /\ StillOver'
  BY <1>1, <1>2, <1>3 DEF EndsInv, DailyLive, StillOver, At, Is, Live
<1>8. PlanMirror'
  BY <1>1 DEF EndsInv, PlanMirror, Live
<1>9. OnGrant'
  <2>1. NeverPaid => NeverPaid'
    BY <1>1, <1>3 DEF NeverPaid, Live
  <2> QED BY <1>1, <1>2, <2>1 DEF EndsInv, OnGrant, At, Is
<1>10. OpenHeld' /\ OwnClosed'
  <2>1. Pending' = Pending
    BY <1>1 DEF Pending
  <2>2. req'[r].pc \notin {"begin", "update", "release", "failSub", "expire"} \cup Looking
    BY <1>1, <1>2 DEF Looking
  <2>3. OwnClosed'
    BY <1>1, <2>1, <2>2 DEF EndsInv, OwnClosed
  <2>4. OpenHeld'
    BY <1>1, <2>1, <2>2 DEF EndsInv, OpenHeld, Running, Live
  <2> QED BY <2>3, <2>4
<1> QED BY <1>4, <1>5, <1>6, <1>7, <1>8, <1>9, <1>10 DEF EndsInv

LEMMA EndsInit == Init => EndsInv
<1> SUFFICES ASSUME Init PROVE EndsInv
  OBVIOUS
<1>1. \A r \in Slot : req[r].pc = "idle" /\ req[r].kind = "NOKIND"
  BY DEF Init, Idle
<1>2. AllPlaced /\ OneDaily /\ FarBehind /\ DailyLive /\ StillOver
  BY <1>1 DEF AllPlaced, Placed, OneDaily, FarBehind, DailyLive, StillOver, Asking, Recovering,
     Looking, Holding, At, Is
<1>3. PICK st \in Origins, n \in Seats, f \in 1 .. MaxRetry, plan \in {"FREE", "MANUAL"} :
        sub = InitialSub(st, n, f) /\ mem = InitialMember(st, plan)
  BY DEF Init
<1>4. sub.st = st
  BY <1>3 DEF InitialSub, NoSub
<1>5. mem.active /\ (st \in LiveStatus => mem.plan = "BASIC" /\ ~mem.locked)
      /\ (st \notin LiveStatus => mem.plan # "BASIC")
  BY <1>3 DEF InitialMember, LiveStatus, EndedStatus
<1>6. OpenHeld /\ OwnClosed
  <2>1. Pending = {}
    BY DEF Init, NoRow, Pending
  <2> QED BY <1>1, <2>1 DEF OpenHeld, OwnClosed
<1>7. OnGrant
  <2>1. st \in LiveStatus => mem.until = None
    BY <1>3 DEF InitialMember
  <2>2. \A t \in Time : pays[t].st = "NOROW"
    BY DEF Init, NoRow
  <2> QED BY <1>1, <1>4, <2>1, <2>2 DEF OnGrant, NeverPaid, Asking, Recovering, Looking, Holding,
             At, Live
<1> QED BY <1>2, <1>4, <1>5, <1>6, <1>7 DEF EndsInv, PlanMirror, Live

(* A subscription revived after its end, and one that is live for a member   *)
(* who has left: by a recovery of an attempt another has settled, or it was  *)
(* like that before.                                                         *)
Revives ==
  /\ sub.st \in EndedStatus /\ sub'.st \notin EndedStatus => \E r \in Slot : Reapplies(r)
  /\ ~mem'.active /\ Live(sub') =>
       (~mem.active /\ Live(sub)) \/ \E r \in Slot : Reapplies(r)

LEMMA QuietRevives ==
  ASSUME UNCHANGED <<sub, mem>>
  PROVE  Revives
BY DEF Revives, Live

LEMMA EffectRevives ==
  ASSUME Typed, NEW r \in Slot, EndsEffect(r)
  PROVE  Revives
<1>1. sub.st \in EndedStatus /\ sub'.st \notin EndedStatus => Reapplies(r)
  BY DEF EndsEffect, StatusEffect, EndedStatus, Live, LiveStatus
<1>2. Upgraded(mem, req[r].now).active = mem.active
  BY DEF Typed, RowsTyped, Upgraded, Mirror, Member
<1>3. ASSUME ~mem'.active, Live(sub') PROVE (~mem.active /\ Live(sub)) \/ Reapplies(r)
  BY <1>2, <1>3 DEF EndsEffect, MemberEffect, Live
<1> QED BY <1>1, <1>3 DEF Revives

LEMMA EndsStep ==
  ASSUME Kinds \subseteq EndingKinds, "DAILY" \in Batch,
         Typed, MoneyInv, TokenInv, CancelInv, EndsInv, [Next]_vars
  PROVE  EndsInv' /\ Revives
<1>1. CASE Tick \/ EndOfTime \/ UNCHANGED vars
  <2>1. UNCHANGED <<req, sub, mem, pays>>
    BY <1>1 DEF Tick, EndOfTime, vars, KeepRows
  <2>2. Pending' = Pending
    BY <2>1 DEF Pending
  <2>3. (AllPlaced /\ OneDaily /\ FarBehind /\ DailyLive /\ StillOver)'
    BY <2>1 DEF EndsInv, AllPlaced, OneDaily, FarBehind, DailyLive, StillOver, Out, At, Is, Live
  <2>4. (OnGrant /\ PlanMirror)'
    BY <2>1 DEF EndsInv, OnGrant, NeverPaid, PlanMirror, At, Is, Live
  <2>5. (OpenHeld /\ OwnClosed)'
    BY <2>1, <2>2 DEF EndsInv, OpenHeld, OwnClosed, Running, Live
  <2> QED BY <2>1, <2>3, <2>4, <2>5, QuietRevives DEF EndsInv
<1>2. ASSUME NEW r \in Slot, NEW k \in Kinds, Start(r, k) PROVE EndsInv' /\ Revives
  BY <1>2, StartEnds, QuietRevives DEF Start, KeepRows
<1>3. ASSUME NEW r \in Slot, Step(r) \/ Crash(r) PROVE EndsInv' /\ Revives
  <2>1. Effect(r) /\ EndsEffect(r) /\ OpenEffect(r)
    BY <1>3, StepEffect, StepEnds DEF CancelInv
  <2> QED BY <2>1, EndsKept, EffectRevives
<1> QED BY <1>1, <1>2, <1>3 DEF Next

LEMMA EndsAlways ==
  ASSUME Kinds \subseteq EndingKinds, "DAILY" \in Batch
  PROVE  Spec => [](Typed /\ MoneyInv /\ TokenInv /\ CancelInv /\ EndsInv)
<1>1. "START" \notin Kinds
  BY DEF EndingKinds
<1>2. Typed /\ MoneyInv /\ TokenInv /\ [Next]_vars => TokenInv'
  BY <1>1, TokenStep
<1>3. Typed /\ MoneyInv /\ TokenInv /\ CancelInv /\ [Next]_vars => CancelInv'
  BY <1>1, CancelStep
<1>4. Typed /\ MoneyInv /\ TokenInv /\ CancelInv /\ EndsInv /\ [Next]_vars => EndsInv'
  BY EndsStep
<1> QED
  BY <1>2, <1>3, <1>4, TypedInit, TypedStep, MoneyInit, MoneyStep, TokenInit, CancelInit,
     EndsInit, PTL DEF Spec

(* The plan of a member who has not left mirrors the subscription, however   *)
(* charges, ends, withdrawals and expiries of a plan given by hand cross:    *)
(* whoever turns one turns the other in the same transaction, and what they  *)
(* found of the subscription is still so.  For the requests that neither pay *)
(* for a new subscription nor take a cancellation back, one nightly job at a *)
(* time.  A first payment that crosses the expiry of a plan given by hand is *)
(* the run stale_expiry.                                                     *)
THEOREM MirrorsSubscription ==
  Kinds \subseteq EndingKinds /\ "DAILY" \in Batch => (Spec => []PlanMirror)
<1> SUFFICES ASSUME Kinds \subseteq EndingKinds, "DAILY" \in Batch PROVE Spec => []PlanMirror
  OBVIOUS
<1>1. EndsInv => PlanMirror
  BY DEF EndsInv
<1>2. Spec => [](Typed /\ MoneyInv /\ TokenInv /\ CancelInv /\ EndsInv)
  BY EndsAlways
<1> QED BY <1>1, <1>2, PTL

(* Among the same requests, nobody leaves a live subscription behind, and    *)
(* none comes to life for a member who has left: no renewal, no late change  *)
(* and no recovery that settles its attempt brings one back.  The second of  *)
(* two recoveries of one attempt may: between its read of the subscription   *)
(* and its update nothing is locked, and the update does not look at the     *)
(* status (README section 6, Recoveries).                                   *)
THEOREM NoneAfterWithdrawal ==
  Kinds \subseteq EndingKinds /\ "DAILY" \in Batch => (Spec => LeftWithoutSub)
<1> SUFFICES ASSUME Kinds \subseteq EndingKinds, "DAILY" \in Batch PROVE Spec => LeftWithoutSub
  OBVIOUS
<1>1. Typed /\ MoneyInv /\ TokenInv /\ CancelInv /\ EndsInv /\ [Next]_vars
        => [~mem'.active /\ Live(sub') =>
              (~mem.active /\ Live(sub)) \/ \E r \in Slot : Reapplies(r)]_vars
  BY EndsStep DEF Revives
<1>2. Spec => [](Typed /\ MoneyInv /\ TokenInv /\ CancelInv /\ EndsInv)
  BY EndsAlways
<1> QED BY <1>1, <1>2, PTL DEF Spec, LeftWithoutSub

(* Among the same requests, a subscription that has ended stays so, but for  *)
(* the second of two recoveries of one attempt: no late statement of a       *)
(* charge revives it, because no charge is under way when it ends, none that *)
(* has read it before begins afterwards, and an attempt that is still open   *)
(* holds the token, which nobody gets past who would end it.                 *)
THEOREM EndedStays ==
  Kinds \subseteq EndingKinds /\ "DAILY" \in Batch => (Spec => EndedStaysUnlessReapplied)
<1> SUFFICES ASSUME Kinds \subseteq EndingKinds, "DAILY" \in Batch
             PROVE  Spec => EndedStaysUnlessReapplied
  OBVIOUS
<1>1. Typed /\ MoneyInv /\ TokenInv /\ CancelInv /\ EndsInv /\ [Next]_vars
        => [sub.st \in EndedStatus /\ sub'.st \notin EndedStatus =>
              \E r \in Slot : Reapplies(r)]_vars
  BY EndsStep DEF Revives
<1>2. [sub.st \in EndedStatus /\ sub'.st \notin EndedStatus =>
         \E r \in Slot : Reapplies(r)]_vars
        => [sub.st \in EndedStatus /\ sub'.st \notin EndedStatus =>
              \/ \E t \in Time : /\ pays[t].type = "INITIAL"
                                 /\ pays[t].st = "PENDING" /\ pays'[t].st = "PAID"
              \/ \E r \in Slot : Reapplies(r)]_vars
  OBVIOUS
<1>3. Spec => [](Typed /\ MoneyInv /\ TokenInv /\ CancelInv /\ EndsInv)
  BY EndsAlways
<1> QED BY <1>1, <1>2, <1>3, PTL DEF Spec, EndedStaysUnlessReapplied

------------------------------------------------------------------------------
(* The card of a subscription that has ended, whatever else arrives but the  *)
(* replacement of the card itself.                                           *)

NoCardRequest == \A r \in Slot : req[r].kind # "CARD"

(* A row that is over now was over before, with the card it has; or its card *)
(* is gone.                                                                  *)
CardEffect ==
  sub'.st \in EndedStatus => ~sub'.key \/ (sub.st \in EndedStatus /\ sub'.key = sub.key)

LEMMA TerminatedCard ==
  ASSUME NEW row \in Subscription, NEW st, NEW now
  PROVE  ~Terminated(row, st, now).key
BY DEF Terminated, Subscription

LEMMA PaidCard ==
  ASSUME NEW row \in Subscription, NEW p, NEW now
  PROVE  /\ Activated(p, now).st = "ACTIVE" /\ Renewed(row, p, now).st = "ACTIVE"
         /\ SeatsAdded(row, p, now).st = row.st /\ SeatsAdded(row, p, now).key = row.key
<1>1. Activated(p, now).st = "ACTIVE" /\ Renewed(row, p, now).st = "ACTIVE"
  BY DEF Activated, Renewed, Subscription
<1>2. SeatsAdded(row, p, now).st = row.st /\ SeatsAdded(row, p, now).key = row.key
  BY DEF SeatsAdded, Subscription
<1> QED BY <1>1, <1>2

LEMMA ChangedCard ==
  ASSUME sub \in Subscription, NEW r \in Slot, ~Is(r, {"CARD"})
  PROVE  \/ Change(r).st \in {"ACTIVE", "CANCEL_SCHEDULED"}
         \/ Change(r).st = sub.st /\ Change(r).key = sub.key
<1> DEFINE new == [sub EXCEPT !.ver = Stamp(req[r].now)]
<1>1. /\ new.st = sub.st /\ new.key = sub.key
      /\ DOMAIN new = DOMAIN sub /\ {"st", "key"} \subseteq DOMAIN sub
  BY DEF Subscription
<1>2. LET c == Change(r) IN
        c \in {ReductionBooked(new, req[r].row, req[r].goal), CancelScheduled(new),
               Uncanceled(new), Deferred(new, req[r].row), new}
  BY DEF Change, Is
<1> HIDE DEF new
<1>3. CancelScheduled(new).st = "CANCEL_SCHEDULED" /\ Uncanceled(new).st = "ACTIVE"
  BY <1>1 DEF CancelScheduled, Uncanceled
<1>4. \A row, goal :
        /\ ReductionBooked(new, row, goal).st = new.st
        /\ ReductionBooked(new, row, goal).key = new.key
        /\ Deferred(new, row).st = new.st /\ Deferred(new, row).key = new.key
  BY <1>1 DEF ReductionBooked, Deferred
<1> QED BY <1>1, <1>2, <1>3, <1>4

LEMMA CardStep ==
  ASSUME Typed, NEW r \in Slot, ~Is(r, {"CARD"}), Step(r)
  PROVE  CardEffect
<1>0. sub \in Subscription
  BY DEF Typed, RowsTyped
<1>1. CASE sub' = sub
  BY <1>1 DEF CardEffect
<1>2. CASE ApplyCharge(r) \/ ApplyRecovered(r)
  <2>1. \/ sub' = sub
        \/ \E p : sub' \in {Activated(p, req[r].now), Renewed(sub, p, req[r].now),
                            SeatsAdded(sub, p, req[r].now)}
    BY <1>2 DEF ApplyCharge, ApplyRecovered
  <2>2. ASSUME NEW p, sub' \in {Activated(p, req[r].now), Renewed(sub, p, req[r].now),
                                SeatsAdded(sub, p, req[r].now)}
        PROVE  sub'.st = "ACTIVE" \/ (sub'.st = sub.st /\ sub'.key = sub.key)
    BY <1>0, <2>2, PaidCard
  <2> QED BY <1>1, <2>1, <2>2 DEF CardEffect, EndedStatus
<1>3. CASE ExpireSubscription(r) \/ TerminateSubscription(r) \/ Withdraw(r)
  <2>1. sub' = sub \/ \E st : sub' = Terminated(sub, st, req[r].now)
    BY <1>3 DEF ExpireSubscription, TerminateSubscription, Withdraw
  <2>2. sub' = sub \/ ~sub'.key
    BY <1>0, <2>1, TerminatedCard
  <2> QED BY <1>1, <2>2 DEF CardEffect
<1>4. CASE GuardedSubscriptionUpdate(r)
  <2>1. sub' = sub \/ sub' = Change(r)
    BY <1>4 DEF GuardedSubscriptionUpdate
  <2> QED BY <1>0, <1>1, <2>1, ChangedCard DEF CardEffect, EndedStatus
<1>5. CASE BeginBillingOperation(r) \/ ReleaseBillingOperation(r) \/ RecordNotice(r)
  <2>1. sub'.st = sub.st /\ sub'.key = sub.key
    BY <1>0, <1>5 DEF BeginBillingOperation, ReleaseBillingOperation, RecordNotice, Subscription
  <2> QED BY <2>1 DEF CardEffect
<1>6. CASE RecordRecurringFailure(r)
  <2>1. sub'.st = "PAST_DUE" \/ (sub'.st = sub.st /\ sub'.key = sub.key)
    BY <1>0, <1>6 DEF RecordRecurringFailure, Subscription
  <2> QED BY <2>1 DEF CardEffect, EndedStatus
<1>7. CASE \/ FindPending(r) \/ LookupCharge(r) \/ LookupUnknown(r) \/ SettleNotCharged(r)
           \/ FindMember(r) \/ FindExisting(r) \/ FindSubscription(r) \/ RequireActiveForSeatAdd(r) \/ ReadMemberVersion(r)
           \/ ClaimMember(r) \/ CreatePendingAttempt(r) \/ NoBillingKey(r)
           \/ ChargeApproved(r) \/ ChargeNotMade(r) \/ SettleDeclined(r)
           \/ AssertNoPendingCharge(r) \/ RereadUpdated(r) \/ ProcessExpiredManualPlan(r)
           \/ Refetch(r) \/ SendNotice(r)
  BY <1>1, <1>7 DEF FindPending, LookupCharge, LookupUnknown, SettleNotCharged, FindMember,
     FindExisting, FindSubscription,
     RequireActiveForSeatAdd, ReadMemberVersion, ClaimMember, CreatePendingAttempt, NoBillingKey,
     ChargeApproved, ChargeNotMade, SettleDeclined, AssertNoPendingCharge, RereadUpdated,
     ProcessExpiredManualPlan, Refetch, SendNotice, KeepRows
<1> QED BY <1>2, <1>3, <1>4, <1>5, <1>6, <1>7 DEF Step

(* A step of a request keeps its kind, or it is done.                        *)
LEMMA KindStep ==
  ASSUME Typed, NEW r \in Slot, Step(r) \/ Crash(r)
  PROVE  \A q \in Slot : req'[q].kind \in {req[q].kind, "NOKIND"}
<1>1. req \in [Slot -> Request]
  BY DEF Typed, ReqTyped
<1>2. CASE Finish(r)
  BY <1>1, <1>2 DEF Finish, Idle
<1>3. CASE \E p : \/ Goto(r, p)
                  \/ \E t : req' = [req EXCEPT ![r].pc = p, ![r].tgt = t]
                  \/ \E t : req' = [req EXCEPT ![r].pc = p, ![r].base = t]
                  \/ \E t : req' = [req EXCEPT ![r].pc = p, ![r].row = t]
  BY <1>1, <1>3 DEF Goto, Request
<1>4. Finish(r) \/ \E p : \/ Goto(r, p)
                          \/ \E t : req' = [req EXCEPT ![r].pc = p, ![r].tgt = t]
                          \/ \E t : req' = [req EXCEPT ![r].pc = p, ![r].base = t]
                          \/ \E t : req' = [req EXCEPT ![r].pc = p, ![r].row = t]
  <2>1. CASE Crash(r) \/ LookupUnknown(r)
    BY <2>1 DEF Crash, LookupUnknown
  <2>2. CASE \/ FindPending(r) \/ SettleNotCharged(r) \/ FindMember(r) \/ FindExisting(r)
             \/ ApplyRecovered(r)
    BY <2>2 DEF FindPending, SettleNotCharged, FindMember, FindExisting, ApplyRecovered,
       Unapplied, Resolved
  <2>3. CASE LookupCharge(r) \/ FindSubscription(r) \/ RequireActiveForSeatAdd(r) \/ ReadMemberVersion(r)
    BY <2>3 DEF LookupCharge, FindSubscription, RequireActiveForSeatAdd, ReadMemberVersion
  <2>4. CASE ClaimMember(r) \/ BeginBillingOperation(r) \/ ReleaseBillingOperation(r)
             \/ CreatePendingAttempt(r) \/ NoBillingKey(r)
    BY <2>4 DEF ClaimMember, BeginBillingOperation, ReleaseBillingOperation,
       CreatePendingAttempt, NoBillingKey
  <2>5. CASE ChargeApproved(r) \/ ChargeNotMade(r) \/ ApplyCharge(r) \/ SettleDeclined(r)
             \/ RecordRecurringFailure(r) \/ ExpireSubscription(r)
    BY <2>5 DEF ChargeApproved, ChargeNotMade, ApplyCharge, SettleDeclined,
       RecordRecurringFailure, ExpireSubscription
  <2>6. CASE AssertNoPendingCharge(r)
    BY <2>6 DEF AssertNoPendingCharge
  <2>7. CASE GuardedSubscriptionUpdate(r) \/ RereadUpdated(r) \/ TerminateSubscription(r)
             \/ Withdraw(r) \/ ProcessExpiredManualPlan(r)
    BY <2>7 DEF GuardedSubscriptionUpdate, RereadUpdated, TerminateSubscription, Withdraw,
       ProcessExpiredManualPlan
  <2>8. CASE Refetch(r) \/ SendNotice(r) \/ RecordNotice(r)
    BY <2>8 DEF Refetch, SendNotice, RecordNotice
  <2> QED BY <2>1, <2>2, <2>3, <2>4, <2>5, <2>6, <2>7, <2>8 DEF Step
<1> QED BY <1>2, <1>3, <1>4

LEMMA NoCardStep ==
  ASSUME "CARD" \notin Kinds, Typed, NoCardRequest, EndedHasNoCard, [Next]_vars
  PROVE  NoCardRequest' /\ EndedHasNoCard'
<1>1. CASE Tick \/ EndOfTime \/ UNCHANGED vars
  <2>1. UNCHANGED <<req, sub>>
    BY <1>1 DEF Tick, EndOfTime, vars, KeepRows
  <2> QED BY <2>1 DEF NoCardRequest, EndedHasNoCard
<1>2. ASSUME NEW r \in Slot, NEW k \in Kinds, Start(r, k)
      PROVE  NoCardRequest' /\ EndedHasNoCard'
  <2>1. sub' = sub /\ req'[r].kind = k /\ \A q \in Slot \ {r} : req'[q] = req[q]
    BY <1>2 DEF Start, KeepRows, Typed, ReqTyped, Idle
  <2> QED BY <2>1 DEF NoCardRequest, EndedHasNoCard
<1>3. ASSUME NEW r \in Slot, Step(r) \/ Crash(r) PROVE NoCardRequest' /\ EndedHasNoCard'
  <2>1. NoCardRequest'
    BY <1>3, KindStep DEF NoCardRequest
  <2>2. CASE Step(r)
    BY <2>1, <2>2, CardStep DEF NoCardRequest, Is, CardEffect, EndedHasNoCard
  <2>3. CASE Crash(r)
    BY <2>1, <2>3 DEF Crash, KeepRows, EndedHasNoCard
  <2> QED BY <1>3, <2>2, <2>3
<1> QED BY <1>1, <1>2, <1>3 DEF Next

(* A subscription that has ended keeps no card that could be charged again,  *)
(* whichever requests cross its end, first payments included: only the       *)
(* replacement of a card sets one without looking at the status.             *)
THEOREM EndedCardGone == "CARD" \notin Kinds => (Spec => []EndedHasNoCard)
<1> SUFFICES ASSUME "CARD" \notin Kinds PROVE Spec => []EndedHasNoCard
  OBVIOUS
<1>1. Init => NoCardRequest /\ EndedHasNoCard
  <2>1. \A st, n, f : LET row == InitialSub(st, n, f) IN row.st \in EndedStatus => ~row.key
    BY DEF InitialSub, NoSub, EndedStatus
  <2> QED BY <2>1 DEF Init, Idle, NoCardRequest, EndedHasNoCard
<1>2. Typed /\ NoCardRequest /\ EndedHasNoCard /\ [Next]_vars => NoCardRequest' /\ EndedHasNoCard'
  BY NoCardStep
<1> QED BY <1>1, <1>2, TypedInit, TypedStep, PTL DEF Spec
===========================================================================
