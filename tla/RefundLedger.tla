---------------------------- MODULE RefundLedger ----------------------------
(* The refunds of one payment.  An administrator's refund is a PENDING row, a  *)
(* cancellation at the gateway and a confirmation, in three steps any of which *)
(* may be the last; operators may also cancel in the gateway's console.  The   *)
(* gateway sends the list of its cancellations by webhook, late, twice or out  *)
(* of order, and the recovery closes rows that stayed PENDING.  A webhook's    *)
(* transaction holds the row of the payment, which preparation and             *)
(* confirmation lock too; refusal, fallback and recovery write without it.     *)
EXTENDS Naturals, FiniteSetsExt

CONSTANTS
  Admin,          \* administrators' requests in flight
  Price,          \* the amount paid
  MaxRefund,      \* bound on refund rows
  MaxCancel,      \* bound on cancellations at the gateway
  MaxRefundFaults \* bound on crashes, lost answers and failed confirmations

ASSUME RefundAssumption ==
  /\ Price \in Nat \ {0} /\ MaxRefund \in Nat /\ MaxCancel \in Nat /\ MaxRefundFaults \in Nat

VARIABLES
  refund,       \* rows of tb_bl_payment of type REFUND, oldest first
  paid,         \* status of the payment itself
  cancels,      \* the gateway: its cancellations, oldest first
  admin,        \* per administrator: where adminRecordRefund stands
  hook,         \* the webhook that holds the payment: where reconcileRefunds stands
  stray,        \* history: a cancellation was made for which no refund was open
  crossed,      \* history: a fallback was written while a webhook linked an entry
  unrepaired,   \* history: a confirmation fell back to the refund row alone
  refundFaults

refundVars == <<refund, paid, cancels, admin, hook, stray, crossed, unrepaired, refundFaults>>

Refund == 1..MaxRefund
Cancel == 1..MaxCancel
RefundRow == [status: {"NONE", "PENDING", "REFUNDED", "FAILED"},
              amount: 0..Price, key: 0..MaxCancel]
Cancellation == [amount: 0..Price, order: 0..MaxRefund]
AdminState == [at: {"idle", "cancel", "refuse", "confirm", "patch"}, row: 0..MaxRefund, key: 0..MaxCancel]
HookState == [at: {"idle", "check", "find", "link", "close"}, entry: 0..MaxCancel,
              last: 0..MaxCancel, row: 0..MaxRefund]

RefundTypeOK ==
  /\ refund \in [Refund -> RefundRow]
  /\ paid \in {"PAID", "PARTIALLY_REFUNDED", "REFUNDED"}
  /\ cancels \in [Cancel -> Cancellation]
  /\ admin \in [Admin -> AdminState]
  /\ hook \in HookState
  /\ stray \in BOOLEAN /\ crossed \in BOOLEAN /\ unrepaired \in BOOLEAN
  /\ refundFaults \in 0..MaxRefundFaults

(* ------------------------------- Helpers -------------------------------- *)
NoRow == [status |-> "NONE", amount |-> 0, key |-> 0]
NoCancel == [amount |-> 0, order |-> 0]
NoAdmin == [at |-> "idle", row |-> 0, key |-> 0]
NoHook == [at |-> "idle", entry |-> 0, last |-> 0, row |-> 0]

Total(amounts, n) ==
  LET sum[i \in 0..n] == IF i = 0 THEN 0 ELSE sum[i - 1] + amounts[i] IN sum[n]
Counts(rows) == [r \in Refund |-> IF rows[r].status = "REFUNDED" THEN rows[r].amount ELSE 0]
Counted(rows) == Total(Counts(rows), MaxRefund)
StatusFor(n) == CASE n >= Price -> "REFUNDED" [] OTHER -> "PARTIALLY_REFUNDED"
Cancelled == Total([c \in Cancel |-> cancels[c].amount], MaxCancel)
NextCancel == 1 + Cardinality({c \in Cancel : cancels[c] # NoCancel})
NextRefund(rows) == 1 + Cardinality({r \in Refund : rows[r].status # "NONE"})
Unconfirmed == {r \in Refund : refund[r].status = "PENDING"}

AdminAt(a, step) == admin[a].at = step
PaymentFree == hook.at = "idle"  \* nobody holds its row
AdminDone(a) == admin' = [admin EXCEPT ![a] = NoAdmin]
RefundFault == refundFaults < MaxRefundFaults /\ refundFaults' = refundFaults + 1

RefundInit ==
  /\ refund = [r \in Refund |-> NoRow] /\ paid = "PAID"
  /\ cancels = [c \in Cancel |-> NoCancel] /\ admin = [a \in Admin |-> NoAdmin]
  /\ hook = NoHook /\ stray = FALSE /\ crossed = FALSE /\ unrepaired = FALSE /\ refundFaults = 0

(* -------------------------- adminRecordRefund ---------------------------- *)
(* Preparation, under the lock of the payment: the balance counts REFUNDED     *)
(* rows, and a member has one PENDING row at most (pndng_lock_key).            *)
PrepareRefund(a, amount) ==
  /\ AdminAt(a, "idle") /\ PaymentFree /\ NextRefund(refund) <= MaxRefund
  /\ paid # "REFUNDED" /\ Unconfirmed = {}
  /\ amount + Counted(refund) <= Price
  /\ refund' = [refund EXCEPT ![NextRefund(refund)] =
                  [NoRow EXCEPT !.status = "PENDING", !.amount = amount]]
  /\ admin' = [admin EXCEPT ![a] = [at |-> "cancel", row |-> NextRefund(refund), key |-> 0]]
  /\ UNCHANGED <<paid, cancels, hook, stray, crossed, unrepaired, refundFaults>>

(* The gateway cancels within its own balance, and knows the refund it is for  *)
(* by the idempotency key, the order number of the refund's row.               *)
MakeCancel(amount, order) ==
  /\ NextCancel <= MaxCancel /\ Cancelled + amount <= Price
  /\ cancels' = [cancels EXCEPT ![NextCancel] = [amount |-> amount, order |-> order]]

CancelPayment(a) ==
  /\ AdminAt(a, "cancel")
  /\ MakeCancel(refund[admin[a].row].amount, admin[a].row)
  /\ stray' = (stray \/ refund[admin[a].row].status # "PENDING")
  /\ \/ /\ admin' = [admin EXCEPT ![a].at = "confirm", ![a].key = NextCancel]
        /\ UNCHANGED refundFaults
     \/ RefundFault /\ admin' = [admin EXCEPT ![a].at = "refuse"]  \* the answer is lost
  /\ UNCHANGED <<refund, paid, hook, crossed, unrepaired>>

CancelRefused(a) ==
  /\ AdminAt(a, "cancel")
  /\ admin' = [admin EXCEPT ![a].at = "refuse"]
  /\ UNCHANGED <<refund, paid, cancels, hook, stray, crossed, unrepaired, refundFaults>>

(* Each of the three results is written only while the row is PENDING.         *)
SetPendingSlip(r, status, key) ==
  IF refund[r].status = "PENDING" THEN [refund EXCEPT ![r].status = status] ELSE refund
SetPending(r, status, key) ==
  IF refund[r].status = "PENDING"
    THEN [refund EXCEPT ![r].status = status, ![r].key = IF key = 0 THEN @ ELSE key]
    ELSE refund

RefuseRefund(a) ==
  /\ AdminAt(a, "refuse")
  /\ refund' = SetPending(admin[a].row, "FAILED", 0)
  /\ AdminDone(a)
  /\ UNCHANGED <<paid, cancels, hook, stray, crossed, unrepaired, refundFaults>>

ConfirmRefundSlip(a) ==
  /\ AdminAt(a, "confirm") /\ PaymentFree
  /\ IF refund[admin[a].row].status = "PENDING"
       THEN /\ refund' = SetPending(admin[a].row, "REFUNDED", admin[a].key)
            /\ paid' = StatusFor(refund[admin[a].row].amount)
            /\ AdminDone(a)
       ELSE admin' = [admin EXCEPT ![a].at = "patch"] /\ UNCHANGED <<refund, paid>>
  /\ UNCHANGED <<cancels, hook, stray, crossed, unrepaired, refundFaults>>
ConfirmRefund(a) ==
  /\ AdminAt(a, "confirm") /\ PaymentFree
  /\ IF refund[admin[a].row].status = "PENDING"
       THEN /\ refund' = SetPending(admin[a].row, "REFUNDED", admin[a].key)
            /\ paid' = StatusFor(Counted(refund'))
            /\ AdminDone(a)
       ELSE admin' = [admin EXCEPT ![a].at = "patch"] /\ UNCHANGED <<refund, paid>>
  /\ UNCHANGED <<cancels, hook, stray, crossed, unrepaired, refundFaults>>

ConfirmFails(a) ==
  /\ AdminAt(a, "confirm") /\ RefundFault
  /\ admin' = [admin EXCEPT ![a].at = "patch"]
  /\ UNCHANGED <<refund, paid, cancels, hook, stray, crossed, unrepaired>>

(* The gateway has cancelled: at least the row is confirmed, the payment's     *)
(* status is left to a person.                                                 *)
PatchRefund(a) ==
  /\ AdminAt(a, "patch")
  /\ refund' = SetPending(admin[a].row, "REFUNDED", admin[a].key)
  /\ unrepaired' = (unrepaired \/ refund' # refund)
  /\ crossed' = (crossed \/ (refund' # refund /\ hook.at \in {"find", "link"}))
  /\ AdminDone(a)
  /\ UNCHANGED <<paid, cancels, hook, stray, refundFaults>>

AdminDies(a) ==
  /\ ~AdminAt(a, "idle") /\ RefundFault
  /\ AdminDone(a)
  /\ UNCHANGED <<refund, paid, cancels, hook, stray, crossed, unrepaired>>

(* ---------------------- Console, webhook, recovery ----------------------- *)
ConsoleCancel(amount) ==
  /\ MakeCancel(amount, 0)
  /\ stray' = TRUE
  /\ UNCHANGED <<refund, paid, admin, hook, crossed, unrepaired, refundFaults>>

(* reconcileRefunds: a webhook carries the cancellations up to the n-th; any   *)
(* webhook may come late or again.  Its transaction begins with the lock.      *)
ReceiveWebhook(n) ==
  /\ PaymentFree /\ n \in 1..(NextCancel - 1)
  /\ hook' = [at |-> "check", entry |-> 1, last |-> n, row |-> 0]
  /\ UNCHANGED <<refund, paid, cancels, admin, stray, crossed, unrepaired, refundFaults>>

(* It takes the entries one by one.                                            *)
NextEntry ==
  IF hook.entry = hook.last THEN [NoHook EXCEPT !.at = "close"]
                            ELSE [hook EXCEPT !.at = "check", !.entry = @ + 1, !.row = 0]

(* A row with this key stands for it;                                          *)
CheckEntrySlip ==
  /\ hook.at = "check"
  /\ hook' = [hook EXCEPT !.at = "find"]
  /\ UNCHANGED <<refund, paid, cancels, admin, stray, crossed, unrepaired, refundFaults>>
CheckEntry ==
  /\ hook.at = "check"
  /\ hook' = IF \E r \in Refund : refund[r].key = hook.entry
               THEN NextEntry ELSE [hook EXCEPT !.at = "find"]
  /\ UNCHANGED <<refund, paid, cancels, admin, stray, crossed, unrepaired, refundFaults>>

(* else the oldest row without a key and of this amount is linked, whatever    *)
(* its status; else a REFUNDED row is written.                                 *)
Linkable(c) ==
  {r \in Refund : /\ refund[r].status # "NONE" /\ refund[r].key = 0
                  /\ refund[r].amount = cancels[c].amount}
FindUnlinked ==
  /\ hook.at = "find"
  /\ \/ /\ Linkable(hook.entry) # {}
        /\ hook' = [hook EXCEPT !.at = "link", !.row = Min(Linkable(hook.entry))]
        /\ UNCHANGED refund
     \/ /\ Linkable(hook.entry) = {} /\ NextRefund(refund) <= MaxRefund
        /\ refund' = [refund EXCEPT ![NextRefund(refund)] =
             [NoRow EXCEPT !.status = "REFUNDED", !.amount = cancels[hook.entry].amount,
                           !.key = hook.entry]]
        /\ hook' = NextEntry
  /\ UNCHANGED <<paid, cancels, admin, stray, crossed, unrepaired, refundFaults>>

LinkRefund ==
  /\ hook.at = "link"
  /\ refund' = [refund EXCEPT ![hook.row].key = hook.entry]
  /\ hook' = NextEntry
  /\ UNCHANGED <<paid, cancels, admin, stray, crossed, unrepaired, refundFaults>>

(* The payment's status follows the sum, and the lock is given back.           *)
CloseWebhook ==
  /\ hook.at = "close"
  /\ paid' = IF Counted(refund) > 0 THEN StatusFor(Counted(refund)) ELSE paid
  /\ unrepaired' = FALSE
  /\ hook' = NoHook
  /\ UNCHANGED <<refund, cancels, admin, stray, crossed, refundFaults>>

(* resolvePendingPayments: a row that has been PENDING for long, be its        *)
(* request alive or not; whether the money went back is not asked.             *)
ResolveStaleRefund(r) ==
  /\ refund[r].status = "PENDING"
  /\ refund' = [refund EXCEPT ![r].status = "FAILED"]
  /\ UNCHANGED <<paid, cancels, admin, hook, stray, crossed, unrepaired, refundFaults>>

RefundNext ==
  \/ \E a \in Admin :
       \/ \E amount \in 1..Price : PrepareRefund(a, amount)
       \/ CancelPayment(a) \/ CancelRefused(a) \/ RefuseRefund(a)
       \/ ConfirmRefund(a) \/ ConfirmFails(a) \/ PatchRefund(a) \/ AdminDies(a)
  \/ \E amount \in 1..Price : ConsoleCancel(amount)
  \/ \E n \in Cancel : ReceiveWebhook(n)
  \/ CheckEntry \/ FindUnlinked \/ LinkRefund \/ CloseWebhook
  \/ \E r \in Refund : ResolveStaleRefund(r)

RefundSpec == RefundInit /\ [][RefundNext]_refundVars

(* ------------------------------ Properties ------------------------------- *)
(* adminRecordRefund and reconcileRefunds: every refund that counts names a    *)
(* cancellation the gateway made, of its amount; and, with webhooks late and   *)
(* repeated, one of its own, unless a cancellation was made for which no       *)
(* refund was open, or a fallback was written between the two looks of a       *)
(* webhook at its entry, or before it linked it.                               *)
CountedIsReal ==
  \A r \in Refund : refund[r].status = "REFUNDED" =>
    /\ refund[r].key # 0 /\ cancels[refund[r].key].amount = refund[r].amount
    /\ \A s \in Refund \ {r} :
         refund[s].status = "REFUNDED" /\ ~stray /\ ~crossed => refund[s].key # refund[r].key

(* "the payment's status follows the sum": PAID with nothing refunded,         *)
(* REFUNDED when all is, once transactions have committed, unless a            *)
(* confirmation failed and no webhook has come.                                *)
StatusFollowsRefunds ==
  PaymentFree /\ ~unrepaired =>
    paid = IF Counted(refund) = 0 THEN "PAID" ELSE StatusFor(Counted(refund))
=============================================================================
