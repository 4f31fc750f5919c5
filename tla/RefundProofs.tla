---------------------------- MODULE RefundProofs ----------------------------
(* The refunds of RefundLedger, for any number of administrators, rows and   *)
(* cancellations: what counts is real, and the payment's status follows it.  *)
EXTENDS RefundLedger, FiniteSetTheorems, WellFoundedInduction, TLAPS

Made(c) == cancels[c] # NoCancel
On(c) == \E r \in Refund : refund[r].key = c
Working == hook.at \in {"check", "find", "link"}

(* Rows are written one after the other, and stand for an amount; a key is   *)
(* that of a cancellation of the same amount.                                *)
RowsPrefix == \E k \in 0..MaxRefund : \A r \in Refund : refund[r].status # "NONE" <=> r <= k
RowFits ==
  \A r \in Refund :
    /\ refund[r].status = "NONE" => refund[r].key = 0
    /\ refund[r].status # "NONE" => refund[r].amount > 0
    /\ refund[r].key # 0 => Made(refund[r].key) /\ cancels[refund[r].key].amount = refund[r].amount
    /\ refund[r].status = "REFUNDED" => refund[r].key # 0
OnePending ==
  \A r, s \in Refund : refund[r].status = "PENDING" /\ refund[s].status = "PENDING" => r = s
Rows == RowsPrefix /\ RowFits /\ OnePending

(* So are cancellations, each for a row of its amount or from the console.   *)
CancelsPrefix == \E k \in 0..MaxCancel : \A c \in Cancel : Made(c) <=> c <= k
CancelFits ==
  \A c \in Cancel :
    /\ Made(c) => cancels[c].amount > 0
    /\ cancels[c].order # 0 => /\ refund[cancels[c].order].status # "NONE"
                               /\ cancels[c].amount = refund[cancels[c].order].amount
Gateway == CancelsPrefix /\ CancelFits

(* An administrator works on a row of his own, which is cancelled once.      *)
AdminFits ==
  \A a \in Admin :
    /\ admin[a].at # "idle" => admin[a].row # 0 /\ refund[admin[a].row].status # "NONE"
    /\ admin[a].at \in {"confirm", "patch"} =>
         /\ admin[a].key # 0 /\ Made(admin[a].key)
         /\ cancels[admin[a].key].order = admin[a].row
    /\ admin[a].at = "cancel" => \A c \in Cancel : cancels[c].order # admin[a].row
OwnRows ==
  \A a, b \in Admin :
    a # b /\ admin[a].at # "idle" /\ admin[b].at # "idle" => admin[a].row # admin[b].row
Admins == AdminFits /\ OwnRows

HookFits ==
  /\ Working => hook.entry # 0 /\ hook.entry <= hook.last /\ Made(hook.last)
  /\ hook.at = "link" => /\ hook.row # 0 /\ refund[hook.row].status # "NONE"
                         /\ refund[hook.row].amount = cancels[hook.entry].amount

(* While every cancellation is made for the row that is open and no fallback *)
(* crosses a webhook, rows are cancelled in the order they were written,     *)
(* one that is not yet on the books has its row free, and the webhook has    *)
(* put on the books all the entries before the one it is at.                 *)
Ordered ==
  /\ \A c \in Cancel : Made(c) => cancels[c].order # 0
  /\ \A c, d \in Cancel : c < d /\ Made(d) => cancels[c].order < cancels[d].order
Awaited == \A c \in Cancel : Made(c) => On(c) \/ refund[cancels[c].order].key = 0
LastOpen ==
  \A r \in Refund : refund[r].status = "PENDING" => \A c \in Cancel : cancels[c].order <= r
OwnKeys ==
  \A r \in Refund : /\ refund[r].status \in {"PENDING", "REFUNDED"} /\ refund[r].key # 0
                    => cancels[refund[r].key].order = r
HookCalm ==
  /\ Working => \A c \in Cancel : c < hook.entry => On(c)
  /\ hook.at \in {"find", "link"} => ~On(hook.entry)
  /\ hook.at = "link" => /\ refund[hook.row].key = 0
                         /\ hook.row <= cancels[hook.entry].order
Calm == Ordered /\ Awaited /\ LastOpen /\ OwnKeys /\ HookCalm

BooksInv ==
  /\ RefundTypeOK /\ Rows /\ Gateway /\ Admins /\ HookFits
  /\ ~stray /\ ~crossed => Calm

(* The payment keeps to its refunds outside a webhook's transaction, and is  *)
(* PAID no more only if something counts.                                    *)
PaidFits ==
  /\ paid # "PAID" => \E r \in Refund : refund[r].status = "REFUNDED"
  /\ StatusFollowsRefunds

------------------------------------------------------------------------------
(* Sums and first rows.                                                      *)

(* The order of the numbers has no infinite descent.                         *)
Less == {ss \in Nat \X Nat : ss[1] < ss[2]}
LEMMA LessWF == IsWellFoundedOn(Less, Nat)
BY NatLessThanWellFounded DEF OpToRel, Less

(* So a set of them that is not empty has a least member.                    *)
LEMMA Least ==
  ASSUME NEW S \in SUBSET Nat, S # {}
  PROVE  Min(S) \in S /\ \A x \in S : Min(S) <= x
<1>1. \A x, y \in Nat : x < y => <<x, y>> \in Less
  <2> TAKE x, y \in Nat
  <2> HAVE x < y
  <2>1. <<x, y>> \in Nat \X Nat
    OBVIOUS
  <2>2. <<x, y>>[1] = x /\ <<x, y>>[2] = y
    OBVIOUS
  <2>3. <<x, y>>[1] < <<x, y>>[2]
    BY <2>2
  <2> QED BY <2>1, <2>3, Zenon DEF Less
<1>2. PICK m \in S : \A y \in S : ~(<<y, m>> \in Less)
  BY LessWF, WFMin
<1> DEFINE IsLeast(x) == \A y \in S : x =< y
<1>3. IsLeast(m)
  <2> TAKE y \in S
  <2>1. ~(y < m)
    BY <1>1, <1>2, Zenon
  <2>2. y \in Nat /\ m \in Nat
    OBVIOUS
  <2> QED BY <2>1, <2>2
<1>4. Min(S) = CHOOSE x \in S : IsLeast(x)
  BY DEF Min
<1> HIDE DEF IsLeast
<1>5. Min(S) \in S /\ IsLeast(Min(S))
  BY <1>3, <1>4
<1> QED BY <1>5 DEF IsLeast

(* A set that is the first k of n has k members.                             *)
LEMMA FirstOf ==
  ASSUME NEW n \in Nat, NEW k \in 0..n, NEW S \in SUBSET (1..n), \A i \in 1..n : i \in S <=> i <= k
  PROVE  Cardinality(S) = k
<1>1. \A i \in S : i \in 1..k
  OBVIOUS
<1>2. \A i \in 1..k : i \in S
  <2> TAKE i \in 1..k
  <2>1. i \in 1..n /\ i <= k
    OBVIOUS
  <2> QED BY <2>1
<1>3. S = 1..k
  BY <1>1, <1>2
<1> QED BY <1>3, FS_Interval

(* The sum of an amount per row is a number, and zero only if all are.       *)
LEMMA Sums ==
  ASSUME NEW N \in Nat, NEW amounts \in [1..N -> Nat]
  PROVE  /\ Total(amounts, N) \in Nat
         /\ Total(amounts, N) = 0 <=> \A i \in 1..N : amounts[i] = 0
<1> DEFINE IsSum(g, n) == g = [i \in 0..n |-> IF i = 0 THEN 0 ELSE g[i - 1] + amounts[i]]
           Bad == {n \in 0..N : ~\E g : IsSum(g, n)}
<1>0. \A n \in 0..N : n \in Bad \/ \E g : IsSum(g, n)
  OBVIOUS
<1>1. Bad = {}
  <2> SUFFICES ASSUME Bad # {} PROVE FALSE
    OBVIOUS
  <2>1. Bad \in SUBSET Nat
    OBVIOUS
  <2>3. \A n \in Bad : n \in 0..N /\ ~\E g : IsSum(g, n)
    OBVIOUS
  <2> HIDE DEF Bad, IsSum
  <2>4. PICK m \in Bad : \A x \in Bad : m <= x
    BY <2>1, Least
  <2>5. CASE m = 0
    <3> DEFINE z == [i \in 0..0 |-> 0]
    <3>1. \A i \in 0..0 : ~(i = 0) => FALSE
      OBVIOUS
    <3>2. z = [i \in 0..0 |-> IF i = 0 THEN 0 ELSE z[i - 1] + amounts[i]]
      BY <3>1
    <3>3. IsSum(z, 0)
      BY <3>2 DEF IsSum
    <3> QED BY <2>3, <2>5, <3>3
  <2>6. CASE m # 0
    <3>1. m \in 1..N /\ m - 1 \in 0..N /\ m - 1 \notin Bad
      BY <2>3, <2>4, <2>6
    <3>2. PICK g : IsSum(g, m - 1)
      BY <1>0, <3>1
    <3> DEFINE h == [i \in 0..m |-> IF i = m THEN g[m - 1] + amounts[m] ELSE g[i]]
    <3>3. \A i \in 0..(m - 1) : g[i] = IF i = 0 THEN 0 ELSE g[i - 1] + amounts[i]
      BY <3>2 DEF IsSum
    <3>4. \A i \in 0..m : h[i] = IF i = 0 THEN 0 ELSE h[i - 1] + amounts[i]
      <4> TAKE i \in 0..m
      <4>1. CASE i = m
        <5>1. i - 1 \in 0..m /\ i - 1 # m /\ i # 0
          BY <3>1, <4>1
        <5> QED BY <5>1, <4>1
      <4>2. CASE i # m
        <5>1. i \in 0..(m - 1) /\ (i # 0 => i - 1 \in 0..m /\ i - 1 # m)
          BY <3>1, <4>2
        <5>2. h[i] = g[i] /\ (i # 0 => h[i - 1] = g[i - 1])
          BY <5>1, <4>2
        <5> QED BY <5>1, <5>2, <3>3
      <4> QED BY <4>1, <4>2
    <3>5. h = [i \in 0..m |-> h[i]]
      OBVIOUS
    <3> HIDE DEF h
    <3>6. h = [i \in 0..m |-> IF i = 0 THEN 0 ELSE h[i - 1] + amounts[i]]
      BY <3>4, <3>5
    <3>7. IsSum(h, m)
      BY <3>6 DEF IsSum
    <3> QED BY <2>3, <3>7
  <2> QED BY <2>5, <2>6
<1> DEFINE sum == CHOOSE g : IsSum(g, N)
<1>2. Total(amounts, N) = sum[N]
  BY Zenon DEF Total
<1>3. IsSum(sum, N)
  <2> HIDE DEF IsSum, Bad
  <2>1. N \in 0..N
    OBVIOUS
  <2>2. \E g : IsSum(g, N)
    BY <1>0, <1>1, <2>1
  <2> QED BY <2>2
<1>4. \A i \in 0..N : sum[i] = IF i = 0 THEN 0 ELSE sum[i - 1] + amounts[i]
  <2> HIDE DEF sum
  <2> QED BY <1>3
<1> HIDE DEF sum, IsSum, Bad
<1>5. \A i \in 1..N : i - 1 \in 0..N /\ sum[i] = sum[i - 1] + amounts[i] /\ amounts[i] \in Nat
  BY <1>4
<1>6. \A i \in 0..N : sum[i] \in Nat
  <2> DEFINE Off == {i \in 0..N : sum[i] \notin Nat}
  <2> SUFFICES ASSUME Off # {} PROVE FALSE
    OBVIOUS
  <2>1. Off \in SUBSET Nat
    OBVIOUS
  <2>2. \A i \in 0..N : i \in Off <=> sum[i] \notin Nat
    OBVIOUS
  <2>3. Off \subseteq 0..N
    OBVIOUS
  <2> HIDE DEF Off
  <2>4. PICK m \in Off : \A x \in Off : m <= x
    BY <2>1, Least
  <2>5. m \in 1..N
    BY <2>2, <2>3, <1>4
  <2>6. m - 1 \in 0..N /\ m - 1 \notin Off
    BY <2>4, <2>5
  <2>7. sum[m - 1] \in Nat
    BY <2>2, <2>6
  <2>8. sum[m] \in Nat
    BY <1>5, <2>5, <2>7
  <2> QED BY <2>2, <2>3, <2>4, <2>8
<1>7. ASSUME \A i \in 1..N : amounts[i] = 0 PROVE sum[N] = 0
  <2> DEFINE Off == {i \in 0..N : sum[i] # 0}
  <2> SUFFICES ASSUME Off # {} PROVE FALSE
    OBVIOUS
  <2>1. Off \in SUBSET Nat
    OBVIOUS
  <2>2. \A i \in 0..N : i \in Off <=> sum[i] # 0
    OBVIOUS
  <2>3. Off \subseteq 0..N
    OBVIOUS
  <2> HIDE DEF Off
  <2>4. PICK m \in Off : \A x \in Off : m <= x
    BY <2>1, Least
  <2>5. m \in 1..N
    BY <2>2, <2>3, <1>4
  <2>6. m - 1 \in 0..N /\ m - 1 \notin Off
    BY <2>4, <2>5
  <2>7. sum[m - 1] = 0
    BY <2>2, <2>6
  <2> QED BY <1>5, <1>7, <2>2, <2>3, <2>5, <2>7
<1>8. ASSUME NEW k \in 1..N, amounts[k] # 0 PROVE sum[N] # 0
  <2> DEFINE Off == {i \in k..N : sum[i] = 0}
  <2> SUFFICES ASSUME Off # {} PROVE FALSE
    OBVIOUS
  <2>1. Off \in SUBSET Nat
    OBVIOUS
  <2>2. \A i \in k..N : i \in Off <=> sum[i] = 0
    OBVIOUS
  <2>3. Off \subseteq k..N
    OBVIOUS
  <2> HIDE DEF Off
  <2>4. PICK m \in Off : \A x \in Off : m <= x
    BY <2>1, Least
  <2>5. m \in 1..N /\ m - 1 \in 0..N /\ sum[m] = 0 /\ k <= m
    BY <2>2, <2>3
  <2>6. sum[m - 1] \in Nat /\ amounts[m] \in Nat /\ sum[m] = sum[m - 1] + amounts[m]
    BY <1>5, <1>6, <2>5
  <2>7. amounts[m] = 0 /\ sum[m - 1] = 0
    BY <2>5, <2>6
  <2>8. m # k
    BY <1>8, <2>7
  <2>9. m - 1 \in k..N /\ m - 1 \notin Off
    BY <2>4, <2>5, <2>8
  <2> QED BY <2>2, <2>7, <2>9
<1> QED BY <1>2, <1>6, <1>7, <1>8

------------------------------------------------------------------------------
(* Where the next row and the next cancellation go.                          *)

LEMMA Fields ==
  ASSUME RefundTypeOK
  PROVE  /\ \A r \in Refund : /\ refund[r].status \in {"NONE", "PENDING", "REFUNDED", "FAILED"}
                              /\ refund[r].amount \in 0..Price /\ refund[r].key \in 0..MaxCancel
         /\ \A c \in Cancel : cancels[c].amount \in 0..Price /\ cancels[c].order \in 0..MaxRefund
         /\ \A a \in Admin :
              /\ admin[a].at \in {"idle", "cancel", "refuse", "confirm", "patch"}
              /\ admin[a].row \in 0..MaxRefund /\ admin[a].key \in 0..MaxCancel
         /\ hook.at \in {"idle", "check", "find", "link", "close"}
         /\ hook.entry \in 0..MaxCancel /\ hook.last \in 0..MaxCancel /\ hook.row \in 0..MaxRefund
BY DEF RefundTypeOK, RefundRow, Cancellation, AdminState, HookState

LEMMA NextRow ==
  ASSUME RefundTypeOK, RowsPrefix
  PROVE  /\ NextRefund(refund) \in 1..(MaxRefund + 1)
         /\ \A r \in Refund : refund[r].status # "NONE" <=> r < NextRefund(refund)
<1> USE RefundAssumption
<1>1. PICK k \in 0..MaxRefund : \A r \in Refund : refund[r].status # "NONE" <=> r <= k
  BY DEF RowsPrefix
<1> DEFINE S == {r \in Refund : refund[r].status # "NONE"}
<1>2. S \in SUBSET (1..MaxRefund) /\ \A i \in 1..MaxRefund : i \in S <=> i <= k
  BY <1>1 DEF Refund
<1>3. NextRefund(refund) = 1 + Cardinality(S)
  BY DEF NextRefund
<1> HIDE DEF S
<1>4. Cardinality(S) = k
  BY <1>2, FirstOf
<1>5. k \in Nat /\ k <= MaxRefund /\ \A r \in Refund : r \in Nat
  BY DEF Refund
<1> QED BY <1>1, <1>3, <1>4, <1>5

LEMMA NextMade ==
  ASSUME RefundTypeOK, CancelsPrefix
  PROVE  /\ NextCancel \in 1..(MaxCancel + 1)
         /\ \A c \in Cancel : Made(c) <=> c < NextCancel
<1> USE RefundAssumption
<1>1. PICK k \in 0..MaxCancel : \A c \in Cancel : Made(c) <=> c <= k
  BY DEF CancelsPrefix
<1> DEFINE S == {c \in Cancel : cancels[c] # NoCancel}
<1>2. S \in SUBSET (1..MaxCancel) /\ \A i \in 1..MaxCancel : i \in S <=> i <= k
  BY <1>1 DEF Cancel, Made
<1>3. NextCancel = 1 + Cardinality(S)
  BY DEF NextCancel
<1> HIDE DEF S
<1>4. Cardinality(S) = k
  BY <1>2, FirstOf
<1>5. k \in Nat /\ k <= MaxCancel /\ \A c \in Cancel : c \in Nat
  BY DEF Cancel
<1> QED BY <1>1, <1>3, <1>4, <1>5

LEMMA BooksInit == RefundInit => BooksInv
<1> SUFFICES ASSUME RefundInit PROVE BooksInv
  OBVIOUS
<1> USE RefundAssumption
<1>1. /\ \A r \in Refund : refund[r] = NoRow
      /\ \A c \in Cancel : cancels[c] = NoCancel
      /\ \A a \in Admin : admin[a] = NoAdmin
      /\ hook = NoHook /\ paid = "PAID"
  BY DEF RefundInit
<1>2. RefundTypeOK
  <2>1. NoRow \in RefundRow /\ NoCancel \in Cancellation
    BY DEF NoRow, RefundRow, NoCancel, Cancellation
  <2>2. NoAdmin \in AdminState /\ NoHook \in HookState
    BY DEF NoAdmin, AdminState, NoHook, HookState
  <2>3. refund \in [Refund -> RefundRow] /\ cancels \in [Cancel -> Cancellation]
    BY <2>1 DEF RefundInit
  <2>4. admin \in [Admin -> AdminState] /\ hook \in HookState
    BY <2>2 DEF RefundInit
  <2>5. paid = "PAID" /\ refundFaults \in 0..MaxRefundFaults
    BY DEF RefundInit
  <2>6. stray \in BOOLEAN /\ crossed \in BOOLEAN /\ unrepaired \in BOOLEAN
    BY Zenon DEF RefundInit
  <2> QED BY <2>3, <2>4, <2>5, <2>6 DEF RefundTypeOK
<1>3. Rows
  BY <1>1 DEF Rows, RowsPrefix, RowFits, OnePending, NoRow, Refund
<1>4. Gateway
  BY <1>1 DEF Gateway, CancelsPrefix, CancelFits, NoCancel, Cancel, Made
<1>5. Admins
  BY <1>1 DEF Admins, AdminFits, OwnRows, NoAdmin
<1>6. HookFits
  BY <1>1 DEF HookFits, Working, NoHook
<1>7. Calm
  <2>1. \A c \in Cancel : ~Made(c) /\ cancels[c].order = 0
    BY <1>1 DEF Made, NoCancel
  <2>2. Ordered /\ Awaited
    BY <2>1 DEF Ordered, Awaited
  <2>3. LastOpen /\ OwnKeys
    BY <1>1 DEF LastOpen, OwnKeys, NoRow
  <2>4. HookCalm
    BY <1>1 DEF HookCalm, Working, NoHook
  <2> QED BY <2>2, <2>3, <2>4 DEF Calm
<1> QED BY <1>2, <1>3, <1>4, <1>5, <1>6, <1>7 DEF BooksInv

------------------------------------------------------------------------------
(* An administrator goes on, or leaves.                                      *)
LEMMA AdminsKept ==
  ASSUME RefundTypeOK, Admins, NEW a \in Admin, admin[a].at # "idle", cancels' = cancels,
         \A r \in Refund : refund[r].status # "NONE" => refund'[r].status # "NONE",
         \A b \in Admin \ {a} : admin'[b] = admin[b],
         \/ admin'[a] = NoAdmin
         \/ /\ admin'[a].row = admin[a].row /\ admin'[a].at # "cancel"
            /\ admin'[a].at \in {"confirm", "patch"} =>
                 admin[a].at \in {"confirm", "patch"} /\ admin'[a].key = admin[a].key
  PROVE  Admins'
<1>1. \A b \in Admin : admin[b].at # "idle" => admin[b].row \in Refund
  BY Fields, RefundAssumption DEF Admins, AdminFits, Refund
<1>2. AdminFits'
  <2> SUFFICES ASSUME NEW b \in Admin
               PROVE  /\ admin'[b].at # "idle" =>
                           admin'[b].row # 0 /\ refund'[admin'[b].row].status # "NONE"
                      /\ admin'[b].at \in {"confirm", "patch"} =>
                           /\ admin'[b].key # 0 /\ Made(admin'[b].key)
                           /\ cancels[admin'[b].key].order = admin'[b].row
                      /\ admin'[b].at = "cancel" =>
                           \A c \in Cancel : cancels[c].order # admin'[b].row
    BY DEF AdminFits, Made
  <2>1. CASE b # a
    BY <2>1, <1>1 DEF Admins, AdminFits
  <2>2. CASE b = a
    BY <2>2, <1>1 DEF Admins, AdminFits, NoAdmin
  <2> QED BY <2>1, <2>2
<1>3. OwnRows'
  <2> SUFFICES ASSUME NEW b \in Admin, NEW d \in Admin, b # d,
                      admin'[b].at # "idle", admin'[d].at # "idle"
               PROVE  admin'[b].row # admin'[d].row
    BY DEF OwnRows
  <2>1. admin[b].at # "idle" /\ admin'[b].row = admin[b].row
    BY DEF NoAdmin
  <2>2. admin[d].at # "idle" /\ admin'[d].row = admin[d].row
    BY DEF NoAdmin
  <2> QED BY <2>1, <2>2 DEF Admins, OwnRows
<1> QED BY <1>2, <1>3 DEF Admins

(* The others notice nothing.                                                *)
LEMMA AdminsSame ==
  ASSUME RefundTypeOK, Admins, cancels' = cancels, admin' = admin,
         \A r \in Refund : refund[r].status # "NONE" => refund'[r].status # "NONE"
  PROVE  Admins'
<1>1. \A b \in Admin : admin[b].at # "idle" => admin[b].row \in Refund
  BY Fields, RefundAssumption DEF Admins, AdminFits, Refund
<1> QED BY <1>1 DEF Admins, AdminFits, OwnRows, Made

------------------------------------------------------------------------------
(* A row that is PENDING is settled: without a result, or for a cancellation *)
(* made for it.                                                              *)
SettlesRow(r, status, key) ==
  /\ refund[r].status = "PENDING"
  /\ refund' \in [Refund -> RefundRow]
  /\ \A q \in Refund \ {r} : refund'[q] = refund[q]
  /\ refund'[r].status = status /\ refund'[r].key = key /\ refund'[r].amount = refund[r].amount
  /\ \/ status = "FAILED" /\ key = refund[r].key
     \/ status = "REFUNDED" /\ key # 0 /\ Made(key) /\ cancels[key].order = r
  /\ key \in 0..MaxCancel
  /\ UNCHANGED <<cancels, hook, stray>>

LEMMA SettledRows ==
  ASSUME BooksInv, NEW r \in Refund, NEW status, NEW key, SettlesRow(r, status, key)
  PROVE  Rows' /\ Gateway' /\ HookFits'
<1> USE RefundAssumption
<1>1. \A q \in Refund : /\ refund'[q].status # "NONE" <=> refund[q].status # "NONE"
                        /\ refund'[q].amount = refund[q].amount
                        /\ refund'[q].status = "PENDING" => refund[q].status = "PENDING"
  BY DEF SettlesRow
<1>2. \A c \in Cancel : cancels[c].order # 0 => cancels[c].order \in Refund
  BY Fields DEF BooksInv, Refund
<1>3. cancels' = cancels /\ hook' = hook
  BY DEF SettlesRow
<1>4. RowsPrefix'
  BY <1>1 DEF BooksInv, Rows, RowsPrefix
<1>5. OnePending'
  BY <1>1 DEF BooksInv, Rows, OnePending
<1>6. Gateway'
  BY <1>1, <1>2, <1>3 DEF BooksInv, Gateway, CancelsPrefix, CancelFits, Made
<1>7. HookFits'
  <2>1. hook.at = "link" /\ hook.row # 0 => hook.row \in Refund
    BY Fields DEF BooksInv, Refund
  <2> QED BY <1>1, <1>3, <2>1 DEF BooksInv, HookFits, Working, Made
<1>8. RowFits'
  <2> SUFFICES ASSUME NEW q \in Refund
               PROVE  /\ refund'[q].status = "NONE" => refund'[q].key = 0
                      /\ refund'[q].status # "NONE" => refund'[q].amount > 0
                      /\ refund'[q].key # 0 => /\ Made(refund'[q].key)
                                               /\ cancels[refund'[q].key].amount = refund'[q].amount
                      /\ refund'[q].status = "REFUNDED" => refund'[q].key # 0
    BY <1>3 DEF RowFits, Made
  <2>1. CASE q # r
    BY <2>1 DEF SettlesRow, BooksInv, Rows, RowFits
  <2>2. CASE q = r
    <3>1. key # 0 => key \in Cancel
      BY DEF SettlesRow, Cancel
    <3>2. key # 0 => Made(key) /\ cancels[key].amount = refund[r].amount
      <4>1. CASE key = refund[r].key
        BY <4>1 DEF BooksInv, Rows, RowFits
      <4>2. CASE key # refund[r].key
        BY <4>2, <3>1 DEF SettlesRow, BooksInv, Gateway, CancelFits, Refund
      <4> QED BY <4>1, <4>2
    <3> QED BY <2>2, <3>2 DEF SettlesRow, BooksInv, Rows, RowFits
  <2> QED BY <2>1, <2>2
<1> QED BY <1>4, <1>5, <1>6, <1>7, <1>8 DEF Rows

LEMMA SettledCalm ==
  ASSUME BooksInv, NEW r \in Refund, NEW status, NEW key, SettlesRow(r, status, key), Calm,
         key = refund[r].key \/ hook.at \notin {"find", "link"}
  PROVE  Calm'
<1> USE RefundAssumption
<1>1. /\ \A q \in Refund \ {r} : refund'[q] = refund[q]
      /\ cancels' = cancels /\ hook' = hook /\ refund'[r].key = key
      /\ refund[r].status = "PENDING" /\ refund'[r].status # "PENDING"
  BY DEF SettlesRow
<1>2. \A c, d \in Cancel : Made(c) /\ Made(d) /\ cancels[c].order = cancels[d].order => c = d
  <2>1. \A c \in Cancel : c \in Nat /\ cancels[c].order \in Nat
    BY Fields DEF BooksInv, Cancel
  <2> QED BY <2>1 DEF Calm, Ordered
<1>3. refund[r].key = 0 \/ key = refund[r].key
  <2> SUFFICES ASSUME refund[r].key # 0, status = "REFUNDED" PROVE key = refund[r].key
    BY DEF SettlesRow
  <2>1. refund[r].key \in Cancel /\ Made(refund[r].key) /\ cancels[refund[r].key].order = r
    BY Fields, <1>1 DEF BooksInv, Cancel, Rows, RowFits, Calm, OwnKeys
  <2>2. key \in Cancel /\ Made(key) /\ cancels[key].order = r
    BY DEF SettlesRow, Cancel
  <2> QED BY <1>2, <2>1, <2>2
<1>4. \A c \in Cancel : On(c) => On(c)'
  <2> SUFFICES ASSUME NEW c \in Cancel, NEW q \in Refund, refund[q].key = c
               PROVE  refund'[q].key = c
    BY DEF On
  <2> QED BY <1>1, <1>3 DEF Cancel
<1>5. Ordered'
  BY <1>1 DEF Calm, Ordered, Made
<1>6. LastOpen'
  BY <1>1 DEF Calm, LastOpen
<1>7. OwnKeys'
  <2> SUFFICES ASSUME NEW q \in Refund, refund'[q].status \in {"PENDING", "REFUNDED"},
                      refund'[q].key # 0
               PROVE  cancels[refund'[q].key].order = q
    BY <1>1 DEF OwnKeys
  <2> QED BY <1>1 DEF SettlesRow, Calm, OwnKeys
<1>8. Awaited'
  <2> SUFFICES ASSUME NEW c \in Cancel, Made(c), ~On(c)'
               PROVE  refund'[cancels[c].order].key = 0
    BY <1>1 DEF Awaited, Made
  <2>1. refund[cancels[c].order].key = 0
    BY <1>4 DEF Calm, Awaited
  <2>2. CASE cancels[c].order # r
    <3>1. cancels[c].order \in Refund
      BY Fields DEF BooksInv, Refund, Calm, Ordered
    <3> QED BY <2>1, <2>2, <3>1, <1>1
  <2>3. CASE cancels[c].order = r
    <3>1. SUFFICES ASSUME key # 0 PROVE FALSE
      BY <2>3, <1>1
    <3>2. key # refund[r].key
      BY <2>1, <2>3, <3>1
    <3>3. key \in Cancel /\ Made(key) /\ cancels[key].order = r
      BY <3>1, <3>2 DEF SettlesRow, Cancel
    <3>4. key = c
      BY <1>2, <3>3, <2>3
    <3>5. On(c)'
      BY <3>4, <1>1 DEF On
    <3> QED BY <3>5
  <2> QED BY <2>2, <2>3
<1>9. HookCalm'
  <2>1. Working => \A c \in Cancel : c < hook.entry => On(c)'
    BY <1>4 DEF Calm, HookCalm
  <2>2. CASE hook.at \notin {"find", "link"}
    BY <2>1, <2>2, <1>1 DEF HookCalm, Working, On
  <2>3. CASE key = refund[r].key
    <3>1. \A q \in Refund : refund'[q].key = refund[q].key
      BY <1>1, <2>3
    <3>2. hook.at = "link" => hook.row \in Refund
      BY Fields DEF BooksInv, HookFits, Refund
    <3> QED BY <3>1, <3>2, <1>1 DEF Calm, HookCalm, Working, On
  <2> QED BY <2>2, <2>3
<1> QED BY <1>5, <1>6, <1>7, <1>8, <1>9 DEF Calm

(* A step that leaves the books, the gateway and the webhook alone.          *)
LEMMA BooksSame ==
  ASSUME BooksInv, UNCHANGED <<refund, cancels, hook, stray, crossed>>, RefundTypeOK', Admins'
  PROVE  BooksInv'
<1>1. Rows' /\ Gateway' /\ HookFits'
  BY DEF BooksInv, Rows, RowsPrefix, RowFits, OnePending, Gateway, CancelsPrefix, CancelFits,
         HookFits, Made, Working
<1>2. Calm => Calm'
  BY DEF Calm, Ordered, Awaited, LastOpen, OwnKeys, HookCalm, Made, On, Working
<1> QED BY <1>1, <1>2 DEF BooksInv

(* What the three conditional writes make of a row that is PENDING.          *)
LEMMA SetPendingDoes ==
  ASSUME RefundTypeOK, NEW r \in Refund, refund[r].status = "PENDING",
         NEW status \in {"REFUNDED", "FAILED"}, NEW key \in 0..MaxCancel,
         refund' = SetPending(r, status, key)
  PROVE  /\ refund' \in [Refund -> RefundRow]
         /\ \A q \in Refund \ {r} : refund'[q] = refund[q]
         /\ refund'[r].status = status /\ refund'[r].amount = refund[r].amount
         /\ refund'[r].key = IF key = 0 THEN refund[r].key ELSE key
<1> DEFINE k == IF key = 0 THEN refund[r].key ELSE key
           row == [refund[r] EXCEPT !.status = status, !.key = k]
<1>1. k \in 0..MaxCancel
  BY Fields
<1>2. refund[r] \in RefundRow
  BY DEF RefundTypeOK
<1> HIDE DEF k
<1>3. row \in RefundRow /\ row.status = status /\ row.amount = refund[r].amount /\ row.key = k
  BY <1>1, <1>2 DEF RefundRow
<1>4. refund' = [refund EXCEPT ![r] = row]
  BY DEF SetPending, k, RefundTypeOK
<1> HIDE DEF row
<1>5. refund'[r] = row /\ refund' \in [Refund -> RefundRow]
      /\ \A q \in Refund \ {r} : refund'[q] = refund[q]
  BY <1>3, <1>4 DEF RefundTypeOK
<1> QED BY <1>3, <1>5 DEF k

LEMMA SettleBooks ==
  ASSUME BooksInv, NEW r \in Refund, NEW status, NEW key, SettlesRow(r, status, key),
         RefundTypeOK', Admins', crossed => crossed',
         key = refund[r].key \/ hook.at \notin {"find", "link"} \/ crossed'
  PROVE  BooksInv'
<1>1. ~stray' /\ ~crossed' => Calm'
  <2> SUFFICES ASSUME ~stray', ~crossed' PROVE Calm'
    OBVIOUS
  <2>1. Calm /\ (key = refund[r].key \/ hook.at \notin {"find", "link"})
    BY DEF SettlesRow, BooksInv
  <2> QED BY <2>1, SettledCalm
<1> QED BY <1>1, SettledRows DEF BooksInv

(* Whether the row is PENDING still or was settled by another, an            *)
(* administrator who writes its result leaves.                               *)
LEMMA ResultBooks ==
  ASSUME BooksInv, NEW a \in Admin, admin[a].at # "idle", AdminDone(a),
         NEW status, NEW key \in 0..MaxCancel,
         \/ status = "FAILED" /\ key = 0
         \/ status = "REFUNDED" /\ admin[a].at \in {"confirm", "patch"} /\ key = admin[a].key,
         refund' = SetPending(admin[a].row, status, key),
         UNCHANGED <<cancels, hook, stray>>, crossed => crossed',
         refund' = refund => crossed' = crossed,
         refund' # refund => status = "FAILED" \/ hook.at \notin {"find", "link"} \/ crossed',
         paid' \in {"PAID", "PARTIALLY_REFUNDED", "REFUNDED"}, refundFaults' = refundFaults,
         crossed' \in BOOLEAN, unrepaired' \in BOOLEAN
  PROVE  /\ BooksInv'
         /\ admin[a].row \in Refund
         /\ refund[admin[a].row].status = "PENDING" =>
              refund' # refund /\ \E k : SettlesRow(admin[a].row, status, k)
         /\ refund[admin[a].row].status # "PENDING" => refund' = refund
<1> DEFINE r == admin[a].row
           k == IF key = 0 THEN refund[r].key ELSE key
<1>1. r \in Refund /\ refund[r].status # "NONE"
  BY Fields DEF BooksInv, Admins, AdminFits, Refund
<1>2. /\ \A b \in Admin \ {a} : admin'[b] = admin[b]
      /\ admin'[a] = NoAdmin /\ admin' \in [Admin -> AdminState]
  BY RefundAssumption DEF AdminDone, BooksInv, RefundTypeOK, AdminState, NoAdmin
<1>3. status \in {"REFUNDED", "FAILED"} /\ refund' = SetPending(r, status, key)
  OBVIOUS
<1>4. status = "REFUNDED" => key # 0 /\ Made(key) /\ cancels[key].order = r
  BY DEF BooksInv, Admins, AdminFits
<1> HIDE DEF r
<1>5. CASE refund[r].status = "PENDING"
  <2>1. /\ refund' \in [Refund -> RefundRow]
        /\ \A q \in Refund \ {r} : refund'[q] = refund[q]
        /\ refund'[r].status = status /\ refund'[r].amount = refund[r].amount
        /\ refund'[r].key = k
    BY <1>1, <1>3, <1>5, SetPendingDoes DEF BooksInv
  <2>2. k \in 0..MaxCancel
    BY <1>1, Fields DEF BooksInv
  <2>3. SettlesRow(r, status, k)
    BY <1>4, <1>5, <2>1, <2>2 DEF SettlesRow
  <2>4. refund' # refund
    BY <1>3, <1>5, <2>1
  <2>5. \A q \in Refund : refund[q].status # "NONE" => refund'[q].status # "NONE"
    BY <1>3, <2>1
  <2>6. Admins'
    BY <1>2, <2>5, AdminsKept DEF BooksInv
  <2>7. RefundTypeOK'
    <3>1. stray' \in BOOLEAN
      BY DEF BooksInv, RefundTypeOK
    <3> QED BY <1>2, <2>1, <3>1 DEF BooksInv, RefundTypeOK
  <2>8. k = refund[r].key \/ hook.at \notin {"find", "link"} \/ crossed'
    BY <2>4
  <2> HIDE DEF k
  <2>9. BooksInv'
    BY <1>1, <2>3, <2>6, <2>7, <2>8, SettleBooks
  <2> QED BY <1>1, <1>5, <2>3, <2>4, <2>9 DEF r
<1>6. CASE refund[r].status # "PENDING"
  <2>1. refund' = refund
    BY <1>3, <1>6 DEF SetPending
  <2>2. Admins'
    BY <1>2, <2>1, AdminsKept DEF BooksInv
  <2>3. RefundTypeOK'
    <3>1. stray' \in BOOLEAN
      BY DEF BooksInv, RefundTypeOK
    <3> QED BY <1>2, <2>1, <3>1 DEF BooksInv, RefundTypeOK
  <2>4. BooksInv'
    BY <2>1, <2>2, <2>3, BooksSame
  <2> QED BY <1>1, <1>6, <2>1, <2>4 DEF r
<1> QED BY <1>5, <1>6

(* An administrator who only goes on, or dies.                               *)
LEMMA GoesOn ==
  ASSUME BooksInv, NEW a \in Admin, admin[a].at # "idle",
         UNCHANGED <<refund, paid, cancels, hook, stray, crossed, unrepaired>>,
         refundFaults' \in 0..MaxRefundFaults,
         \/ AdminDone(a)
         \/ admin' = [admin EXCEPT ![a].at = "refuse"]
         \/ admin[a].at = "confirm" /\ admin' = [admin EXCEPT ![a].at = "patch"]
  PROVE  BooksInv'
<1>1. /\ \A b \in Admin \ {a} : admin'[b] = admin[b]
      /\ admin' \in [Admin -> AdminState]
      /\ \/ admin'[a] = NoAdmin
         \/ admin'[a].row = admin[a].row /\ admin'[a].at = "refuse"
         \/ /\ admin[a].at = "confirm" /\ admin'[a].at = "patch"
            /\ admin'[a].row = admin[a].row /\ admin'[a].key = admin[a].key
  BY RefundAssumption DEF AdminDone, BooksInv, RefundTypeOK, AdminState, NoAdmin
<1>2. Admins'
  BY <1>1, AdminsKept DEF BooksInv
<1>3. RefundTypeOK'
  BY <1>1 DEF BooksInv, RefundTypeOK
<1> QED BY <1>2, <1>3, BooksSame

LEMMA FaultCounted ==
  ASSUME BooksInv, RefundFault
  PROVE  refundFaults' \in 0..MaxRefundFaults
BY RefundAssumption DEF RefundFault, BooksInv, RefundTypeOK

LEMMA RefuseRefundBooks == ASSUME BooksInv, NEW a \in Admin, RefuseRefund(a) PROVE BooksInv'
<1>1. /\ admin[a].at # "idle" /\ AdminDone(a) /\ refund' = SetPending(admin[a].row, "FAILED", 0)
      /\ UNCHANGED <<paid, cancels, hook, stray, crossed, unrepaired, refundFaults>>
  BY DEF RefuseRefund, AdminAt
<1>2. 0 \in 0..MaxCancel
  BY RefundAssumption
<1>3. /\ paid' \in {"PAID", "PARTIALLY_REFUNDED", "REFUNDED"}
      /\ crossed' \in BOOLEAN /\ unrepaired' \in BOOLEAN
  BY <1>1 DEF BooksInv, RefundTypeOK
<1> QED BY <1>1, <1>2, <1>3, ResultBooks

LEMMA ConfirmRefundBooks == ASSUME BooksInv, NEW a \in Admin, ConfirmRefund(a) PROVE BooksInv'
<1>1. /\ admin[a].at = "confirm" /\ hook.at = "idle"
      /\ UNCHANGED <<cancels, hook, stray, crossed, unrepaired, refundFaults>>
  BY DEF ConfirmRefund, AdminAt, PaymentFree
<1>2. crossed' \in BOOLEAN /\ unrepaired' \in BOOLEAN
  BY <1>1 DEF BooksInv, RefundTypeOK
<1>3. CASE refund[admin[a].row].status = "PENDING"
  <2>1. /\ AdminDone(a) /\ refund' = SetPending(admin[a].row, "REFUNDED", admin[a].key)
        /\ paid' = StatusFor(Counted(refund'))
    BY <1>3 DEF ConfirmRefund
  <2>2. paid' \in {"PAID", "PARTIALLY_REFUNDED", "REFUNDED"}
    BY <2>1 DEF StatusFor
  <2>3. admin[a].key \in 0..MaxCancel
    BY Fields DEF BooksInv
  <2> QED BY <1>1, <1>2, <2>1, <2>2, <2>3, ResultBooks
<1>4. CASE refund[admin[a].row].status # "PENDING"
  <2>1. admin' = [admin EXCEPT ![a].at = "patch"] /\ UNCHANGED <<refund, paid>>
    BY <1>4 DEF ConfirmRefund
  <2>2. refundFaults' \in 0..MaxRefundFaults
    BY <1>1 DEF BooksInv, RefundTypeOK
  <2> QED BY <1>1, <2>1, <2>2, GoesOn
<1> QED BY <1>3, <1>4

LEMMA PatchRefundBooks == ASSUME BooksInv, NEW a \in Admin, PatchRefund(a) PROVE BooksInv'
<1>1. /\ admin[a].at = "patch" /\ AdminDone(a)
      /\ refund' = SetPending(admin[a].row, "REFUNDED", admin[a].key)
      /\ UNCHANGED <<paid, cancels, hook, stray, refundFaults>>
  BY DEF PatchRefund, AdminAt
<1>2. crossed' \in BOOLEAN /\ unrepaired' \in BOOLEAN
  BY Zenon DEF PatchRefund
<1>3. crossed => crossed'
  BY DEF PatchRefund
<1>4. refund' # refund => hook.at \notin {"find", "link"} \/ crossed'
  BY DEF PatchRefund
<1>5. refund' = refund => crossed' = crossed
  <2>1. refund' = refund => crossed' = (crossed \/ FALSE)
    BY DEF PatchRefund
  <2>2. crossed \in BOOLEAN
    BY DEF BooksInv, RefundTypeOK
  <2> QED BY <2>1, <2>2, Zenon
<1>6. admin[a].key \in 0..MaxCancel /\ paid' \in {"PAID", "PARTIALLY_REFUNDED", "REFUNDED"}
  BY <1>1, Fields DEF BooksInv, RefundTypeOK
<1> QED BY <1>1, <1>2, <1>3, <1>4, <1>5, <1>6, ResultBooks

LEMMA ResolveStaleBooks == ASSUME BooksInv, NEW r \in Refund, ResolveStaleRefund(r) PROVE BooksInv'
<1>1. UNCHANGED <<paid, cancels, admin, hook, stray, crossed, unrepaired, refundFaults>>
  BY DEF ResolveStaleRefund
<1>2. SettlesRow(r, "FAILED", refund[r].key)
  <2> DEFINE row == [refund[r] EXCEPT !.status = "FAILED"]
  <2>1. /\ row \in RefundRow /\ row.status = "FAILED"
        /\ row.amount = refund[r].amount /\ row.key = refund[r].key
    BY DEF BooksInv, RefundTypeOK, RefundRow
  <2>2. refund[r].status = "PENDING" /\ refund' = [refund EXCEPT ![r] = row]
    BY DEF ResolveStaleRefund
  <2> HIDE DEF row
  <2>3. /\ refund' \in [Refund -> RefundRow] /\ refund'[r] = row
        /\ \A q \in Refund \ {r} : refund'[q] = refund[q]
    BY <2>1, <2>2 DEF BooksInv, RefundTypeOK
  <2> QED BY <1>1, <2>1, <2>2, <2>3, Fields DEF SettlesRow, BooksInv
<1>3. \A q \in Refund : refund[q].status # "NONE" => refund'[q].status # "NONE"
  BY <1>2 DEF SettlesRow
<1>4. Admins'
  BY <1>1, <1>3, AdminsSame DEF BooksInv
<1>5. RefundTypeOK'
  BY <1>1, <1>2 DEF SettlesRow, BooksInv, RefundTypeOK
<1> QED BY <1>1, <1>2, <1>4, <1>5, SettleBooks

------------------------------------------------------------------------------
(* A row is added to the books: the one after the last.                      *)
AddsRow(row) ==
  /\ NextRefund(refund) \in Refund
  /\ refund' = [refund EXCEPT ![NextRefund(refund)] = row]
  /\ row \in RefundRow /\ row.status \in {"PENDING", "REFUNDED"} /\ row.amount > 0
  /\ cancels' = cancels

LEMMA NewRow ==
  ASSUME BooksInv, NEW row, AddsRow(row)
  PROVE  /\ refund' \in [Refund -> RefundRow]
         /\ refund'[NextRefund(refund)] = row
         /\ \A q \in Refund \ {NextRefund(refund)} : refund'[q] = refund[q]
         /\ refund[NextRefund(refund)].status = "NONE" /\ refund[NextRefund(refund)].key = 0
         /\ \A q \in Refund : refund[q].status # "NONE" =>
              q < NextRefund(refund) /\ refund'[q] = refund[q]
         /\ \A c \in Cancel : On(c) => On(c)'
         /\ RowsPrefix' /\ Gateway'
<1> DEFINE n == NextRefund(refund)
<1>1. n \in 1..(MaxRefund + 1) /\ \A q \in Refund : refund[q].status # "NONE" <=> q < n
  BY NextRow DEF BooksInv, Rows
<1>2. n \in Refund /\ refund' = [refund EXCEPT ![n] = row] /\ row \in RefundRow
  BY DEF AddsRow
<1> HIDE DEF n
<1>3. /\ refund' \in [Refund -> RefundRow] /\ refund'[n] = row
      /\ \A q \in Refund \ {n} : refund'[q] = refund[q]
  BY <1>2 DEF BooksInv, RefundTypeOK
<1>4. refund[n].status = "NONE" /\ refund[n].key = 0
  BY <1>1, <1>2, RefundAssumption DEF BooksInv, Rows, RowFits, Refund
<1>5. \A q \in Refund : refund[q].status # "NONE" => q < n /\ refund'[q] = refund[q]
  BY <1>1, <1>3, <1>4
<1>6. \A c \in Cancel : On(c) => On(c)'
  <2> SUFFICES ASSUME NEW c \in Cancel, NEW q \in Refund, refund[q].key = c
               PROVE  refund'[q].key = c
    BY DEF On
  <2>1. q # n
    BY <1>4 DEF Cancel
  <2> QED BY <1>3, <2>1
<1>7. RowsPrefix'
  <2>1. \A q \in Refund : refund'[q].status # "NONE" <=> q <= n
    <3> TAKE q \in Refund
    <3>1. q \in Int /\ n \in Int
      BY <1>1 DEF Refund
    <3>2. CASE q = n
      BY <3>1, <3>2, <1>3 DEF AddsRow
    <3>3. CASE q # n
      BY <3>1, <3>3, <1>1, <1>3
    <3> QED BY <3>2, <3>3
  <2>2. n \in 0..MaxRefund
    BY <1>2, RefundAssumption DEF Refund
  <2> QED BY <2>1, <2>2 DEF RowsPrefix
<1>8. Gateway'
  <2>1. \A c \in Cancel : cancels[c].order # 0 => cancels[c].order \in Refund
    BY Fields, RefundAssumption DEF BooksInv, Refund
  <2>2. cancels' = cancels
    BY DEF AddsRow
  <2> QED BY <1>5, <2>1, <2>2 DEF BooksInv, Gateway, CancelsPrefix, CancelFits, Made
<1> QED BY <1>3, <1>4, <1>5, <1>6, <1>7, <1>8 DEF n

LEMMA PrepareRefundBooks ==
  ASSUME BooksInv, NEW a \in Admin, NEW amount \in 1..Price, PrepareRefund(a, amount)
  PROVE  BooksInv'
<1> DEFINE n == NextRefund(refund)
           row == [NoRow EXCEPT !.status = "PENDING", !.amount = amount]
<1>1. /\ n <= MaxRefund /\ refund' = [refund EXCEPT ![n] = row]
      /\ admin' = [admin EXCEPT ![a] = [at |-> "cancel", row |-> n, key |-> 0]]
      /\ admin[a].at = "idle" /\ hook.at = "idle"
      /\ UNCHANGED <<paid, cancels, hook, stray, crossed, unrepaired, refundFaults>>
  BY DEF PrepareRefund, AdminAt, PaymentFree
<1>2. \A q \in Refund : refund[q].status # "PENDING"
  BY DEF PrepareRefund, Unconfirmed
<1>3. row \in RefundRow /\ row.status = "PENDING" /\ row.amount > 0 /\ row.key = 0
  <2>1. NoRow \in RefundRow /\ NoRow.key = 0
    BY RefundAssumption DEF NoRow, RefundRow
  <2>2. amount \in 0..Price /\ amount > 0
    BY RefundAssumption
  <2> QED BY <2>1, <2>2 DEF RefundRow
<1>4. n \in Refund
  BY <1>1, NextRow, RefundAssumption DEF BooksInv, Rows, Refund
<1> HIDE DEF row
<1>5. AddsRow(row)
  BY <1>1, <1>3, <1>4 DEF AddsRow
<1>6. /\ refund' \in [Refund -> RefundRow] /\ refund'[n] = row
      /\ \A q \in Refund \ {n} : refund'[q] = refund[q]
      /\ refund[n].status = "NONE"
      /\ \A q \in Refund : refund[q].status # "NONE" => q < n /\ refund'[q] = refund[q]
      /\ \A c \in Cancel : On(c) => On(c)'
      /\ RowsPrefix' /\ Gateway'
  BY <1>5, NewRow
<1> HIDE DEF n
<1>7. /\ admin' \in [Admin -> AdminState] /\ \A b \in Admin \ {a} : admin'[b] = admin[b]
      /\ admin'[a].at = "cancel" /\ admin'[a].row = n
  BY <1>1, <1>4, RefundAssumption DEF BooksInv, RefundTypeOK, AdminState, Refund
<1>8. RefundTypeOK'
  BY <1>1, <1>6, <1>7 DEF BooksInv, RefundTypeOK
<1>9. \A c \in Cancel : cancels[c].order # 0 => /\ cancels[c].order \in Refund
                                                /\ refund[cancels[c].order].status # "NONE"
  BY Fields DEF BooksInv, Gateway, CancelFits, Refund
<1>10. Rows'
  <2>1. RowFits'
    BY <1>1, <1>3, <1>6 DEF BooksInv, Rows, RowFits, Made
  <2>2. OnePending'
    BY <1>2, <1>6 DEF OnePending
  <2> QED BY <1>6, <2>1, <2>2 DEF Rows
<1>11. Admins'
  <2>1. \A b \in Admin \ {a} : admin[b].at # "idle" =>
          admin[b].row \in Refund /\ refund[admin[b].row].status # "NONE" /\ admin[b].row # n
    BY Fields, <1>6 DEF BooksInv, Admins, AdminFits, Refund
  <2>2. \A c \in Cancel : cancels[c].order # n
    BY <1>4, <1>6, <1>9 DEF Refund
  <2>3. AdminFits'
    <3> SUFFICES ASSUME NEW b \in Admin
                 PROVE  /\ admin'[b].at # "idle" =>
                             admin'[b].row # 0 /\ refund'[admin'[b].row].status # "NONE"
                        /\ admin'[b].at \in {"confirm", "patch"} =>
                             /\ admin'[b].key # 0 /\ Made(admin'[b].key)
                             /\ cancels[admin'[b].key].order = admin'[b].row
                        /\ admin'[b].at = "cancel" =>
                             \A c \in Cancel : cancels[c].order # admin'[b].row
      BY <1>1 DEF AdminFits, Made
    <3>1. CASE b = a
      BY <3>1, <1>3, <1>4, <1>6, <1>7, <2>2 DEF Refund
    <3>2. CASE b # a
      BY <3>2, <1>6, <1>7, <2>1 DEF BooksInv, Admins, AdminFits
    <3> QED BY <3>1, <3>2
  <2>4. OwnRows'
    BY <1>7, <2>1 DEF BooksInv, Admins, OwnRows
  <2> QED BY <2>3, <2>4 DEF Admins
<1>12. HookFits'
  BY <1>1 DEF HookFits, Working
<1>13. ASSUME Calm PROVE Calm'
  <2>1. Ordered' /\ HookCalm'
    BY <1>1, <1>13 DEF Calm, Ordered, HookCalm, Working, Made
  <2>2. Awaited'
    BY <1>1, <1>6, <1>9, <1>13 DEF Calm, Ordered, Awaited, Made
  <2>3. LastOpen'
    <3> SUFFICES ASSUME NEW q \in Refund, refund'[q].status = "PENDING", NEW c \in Cancel
                 PROVE  cancels[c].order <= q
      BY <1>1 DEF LastOpen
    <3>1. q = n
      BY <1>2, <1>6
    <3>2. CASE cancels[c].order = 0
      BY <3>2 DEF Refund
    <3>3. CASE cancels[c].order # 0
      BY <3>1, <3>3, <1>4, <1>6, <1>9 DEF Refund
    <3> QED BY <3>2, <3>3
  <2>4. OwnKeys'
    BY <1>1, <1>3, <1>6, <1>13 DEF Calm, OwnKeys
  <2> QED BY <2>1, <2>2, <2>3, <2>4 DEF Calm
<1> QED BY <1>1, <1>6, <1>8, <1>10, <1>11, <1>12, <1>13 DEF BooksInv

------------------------------------------------------------------------------
(* The gateway makes a cancellation, for an administrator or from the        *)
(* console.                                                                  *)
LEMMA NewCancel ==
  ASSUME BooksInv, NEW amount \in 1..Price, NEW order \in 0..MaxRefund, MakeCancel(amount, order),
         order # 0 => refund[order].status # "NONE" /\ refund[order].amount = amount,
         refund' = refund, hook' = hook, crossed' = crossed
  PROVE  /\ NextCancel \in Cancel /\ ~Made(NextCancel)
         /\ cancels' \in [Cancel -> Cancellation]
         /\ cancels'[NextCancel].order = order /\ cancels'[NextCancel] # NoCancel
         /\ \A c \in Cancel \ {NextCancel} : cancels'[c] = cancels[c]
         /\ Rows' /\ Gateway' /\ HookFits'
         /\ Calm /\ order # 0 /\ refund[order].status = "PENDING"
            /\ (\A c \in Cancel : cancels[c].order # order) => Calm'
<1> DEFINE n == NextCancel
<1>1. n <= MaxCancel /\ cancels' = [cancels EXCEPT ![n] = [amount |-> amount, order |-> order]]
  BY DEF MakeCancel
<1>2. n \in Cancel /\ \A c \in Cancel : Made(c) <=> c < n
  BY <1>1, NextMade, RefundAssumption DEF BooksInv, Gateway, Cancel
<1> HIDE DEF n
<1>3. /\ cancels' \in [Cancel -> Cancellation]
      /\ cancels'[n].order = order /\ cancels'[n].amount = amount
      /\ \A c \in Cancel \ {n} : cancels'[c] = cancels[c]
  BY <1>1, <1>2, RefundAssumption DEF BooksInv, RefundTypeOK, Cancellation
<1>4. ~Made(n) /\ cancels'[n] # NoCancel /\ \A c \in Cancel : Made(c)' <=> c <= n
  <2>1. ~Made(n) /\ cancels'[n] # NoCancel
    BY <1>2, <1>3 DEF NoCancel, Cancel
  <2>2. \A c \in Cancel \ {n} : Made(c)' <=> Made(c)
    BY <1>3 DEF Made
  <2>3. \A c \in Cancel : Made(c)' <=> c <= n
    <3> TAKE c \in Cancel
    <3>1. c \in Nat /\ n \in Nat
      BY <1>2 DEF Cancel
    <3>2. CASE c = n
      BY <2>1, <3>1, <3>2 DEF Made
    <3>3. CASE c # n
      BY <1>2, <2>2, <3>1, <3>3
    <3> QED BY <3>2, <3>3
  <2> QED BY <2>1, <2>3
<1>5. \A c \in Cancel : Made(c) => c # n /\ cancels'[c] = cancels[c]
  BY <1>3, <1>4
<1>6. Rows'
  <2>1. \A r \in Refund : refund[r].key # 0 => refund[r].key \in Cancel
    BY Fields DEF BooksInv, Cancel
  <2>2. RowFits'
    BY <1>4, <1>5, <2>1 DEF BooksInv, Rows, RowFits, Made
  <2> QED BY <2>2 DEF BooksInv, Rows, RowsPrefix, OnePending
<1>7. Gateway'
  <2>1. CancelsPrefix'
    <3>1. n \in 0..MaxCancel
      BY <1>2, RefundAssumption DEF Cancel
    <3> QED BY <1>4, <3>1 DEF CancelsPrefix
  <2>2. CancelFits'
    <3> SUFFICES ASSUME NEW c \in Cancel
                 PROVE  /\ Made(c)' => cancels'[c].amount > 0
                        /\ cancels'[c].order # 0 =>
                             /\ refund[cancels'[c].order].status # "NONE"
                             /\ cancels'[c].amount = refund[cancels'[c].order].amount
      BY DEF CancelFits
    <3>1. CASE c = n
      BY <3>1, <1>3
    <3>2. CASE c # n
      BY <3>2, <1>3 DEF BooksInv, Gateway, CancelFits, Made
    <3> QED BY <3>1, <3>2
  <2> QED BY <2>1, <2>2 DEF Gateway
<1>8. ASSUME Working
      PROVE  /\ hook.entry \in Cancel /\ hook.last \in Cancel
             /\ Made(hook.entry) /\ Made(hook.last)
  <2>1. /\ hook.entry # 0 /\ hook.entry <= hook.last /\ Made(hook.last)
        /\ hook.entry \in 0..MaxCancel /\ hook.last \in 0..MaxCancel
    BY <1>8, Fields DEF BooksInv, HookFits
  <2>2. hook.entry \in Cancel /\ hook.last \in Cancel
    BY <2>1, RefundAssumption DEF Cancel
  <2>3. hook.last < n
    BY <1>2, <2>1, <2>2
  <2>4. hook.entry < n
    BY <1>2, <2>1, <2>2, <2>3 DEF Cancel
  <2> QED BY <1>2, <2>1, <2>2, <2>4
<1>9. HookFits'
  BY <1>4, <1>5, <1>8 DEF BooksInv, HookFits, Working, Made
<1>10. ASSUME Calm, order # 0, refund[order].status = "PENDING",
              \A c \in Cancel : cancels[c].order # order
       PROVE  Calm'
  <2>1. order \in Refund
    BY <1>10 DEF Refund
  <2>2. \A c \in Cancel : cancels[c].order \in Nat /\ cancels[c].order < order
    BY Fields, <1>10, <2>1 DEF BooksInv, Calm, LastOpen, Refund
  <2>3. Ordered'
    <3>1. \A c \in Cancel : Made(c)' => cancels'[c].order # 0
      BY <1>3, <1>10 DEF Calm, Ordered, Made
    <3>2. ASSUME NEW c \in Cancel, NEW d \in Cancel, c < d, Made(d)'
          PROVE  cancels'[c].order < cancels'[d].order
      <4>1. c # n
        BY <1>2, <1>4, <3>2 DEF Cancel
      <4>2. CASE d = n
        BY <4>1, <4>2, <1>3, <2>2
      <4>3. CASE d # n
        BY <4>1, <4>3, <1>3, <1>10, <3>2 DEF Calm, Ordered, Made
      <4> QED BY <4>2, <4>3
    <3> QED BY <3>1, <3>2 DEF Ordered
  <2>4. refund[order].key = 0
    <3> SUFFICES ASSUME refund[order].key # 0 PROVE FALSE
      OBVIOUS
    <3>1. refund[order].key \in Cancel /\ cancels[refund[order].key].order = order
      BY Fields, <1>10, <2>1 DEF BooksInv, Calm, OwnKeys, Cancel
    <3> QED BY <3>1, <1>10
  <2>5. Awaited'
    BY <1>3, <1>10, <2>4 DEF Calm, Awaited, Made, On
  <2>6. LastOpen'
    <3> SUFFICES ASSUME NEW r \in Refund, refund[r].status = "PENDING", NEW c \in Cancel
                 PROVE  cancels'[c].order <= r
      BY DEF LastOpen
    <3>1. r = order
      BY <1>10, <2>1 DEF BooksInv, Rows, OnePending
    <3>2. CASE c = n
      BY <3>1, <3>2, <1>3
    <3>3. CASE c # n
      BY <3>3, <1>3, <1>10 DEF Calm, LastOpen
    <3> QED BY <3>2, <3>3
  <2>7. OwnKeys'
    <3> SUFFICES ASSUME NEW r \in Refund, refund[r].status \in {"PENDING", "REFUNDED"},
                        refund[r].key # 0
                 PROVE  cancels'[refund[r].key].order = r
      BY DEF OwnKeys
    <3>1. refund[r].key \in Cancel /\ Made(refund[r].key)
      BY Fields DEF BooksInv, Rows, RowFits, Cancel
    <3> QED BY <3>1, <1>5, <1>10 DEF Calm, OwnKeys
  <2>8. HookCalm'
    BY <1>5, <1>8, <1>10 DEF Calm, HookCalm, Working, On
  <2> QED BY <2>3, <2>5, <2>6, <2>7, <2>8 DEF Calm
<1> QED BY <1>2, <1>3, <1>4, <1>6, <1>7, <1>9, <1>10 DEF n

LEMMA CancelPaymentBooks == ASSUME BooksInv, NEW a \in Admin, CancelPayment(a) PROVE BooksInv'
<1> DEFINE r == admin[a].row
           n == NextCancel
<1>1. /\ admin[a].at = "cancel" /\ MakeCancel(refund[r].amount, r)
      /\ UNCHANGED <<refund, paid, hook, crossed, unrepaired>>
      /\ \/ admin' = [admin EXCEPT ![a].at = "confirm", ![a].key = n] /\ UNCHANGED refundFaults
         \/ RefundFault /\ admin' = [admin EXCEPT ![a].at = "refuse"]
  BY DEF CancelPayment, AdminAt
<1>2. r \in Refund /\ r # 0 /\ r \in 0..MaxRefund /\ refund[r].status # "NONE"
  BY <1>1, Fields DEF BooksInv, Admins, AdminFits, Refund
<1>3. refund[r].amount \in 1..Price
  BY <1>2, Fields, RefundAssumption DEF BooksInv, Rows, RowFits
<1>4. ~stray' => ~stray /\ refund[r].status = "PENDING"
  BY DEF CancelPayment
<1>5. stray' \in BOOLEAN
  BY Zenon DEF CancelPayment
<1>6. \A c \in Cancel : cancels[c].order # r
  BY <1>1 DEF BooksInv, Admins, AdminFits
<1> HIDE DEF r
<1>7. /\ n \in Cancel /\ ~Made(n) /\ cancels' \in [Cancel -> Cancellation]
      /\ cancels'[n].order = r /\ cancels'[n] # NoCancel
      /\ \A c \in Cancel \ {n} : cancels'[c] = cancels[c]
      /\ Rows' /\ Gateway' /\ HookFits'
      /\ Calm /\ refund[r].status = "PENDING" => Calm'
  BY <1>1, <1>2, <1>3, <1>6, NewCancel
<1> HIDE DEF n
<1>8. ~stray' /\ ~crossed' => Calm'
  BY <1>1, <1>4, <1>7 DEF BooksInv
<1>9. /\ \A b \in Admin \ {a} : admin'[b] = admin[b]
      /\ admin' \in [Admin -> AdminState] /\ admin'[a].row = r
      /\ \/ admin'[a].at = "confirm" /\ admin'[a].key = n
         \/ admin'[a].at = "refuse"
  <2>1. /\ admin \in [Admin -> AdminState] /\ admin[a] \in AdminState
        /\ admin[a].row = r /\ n \in 0..MaxCancel
    BY <1>7, RefundAssumption DEF BooksInv, RefundTypeOK, Cancel, r
  <2>2. CASE admin' = [admin EXCEPT ![a].at = "confirm", ![a].key = n]
    <3> DEFINE v == [admin[a] EXCEPT !.at = "confirm", !.key = n]
    <3>1. v \in AdminState /\ v.at = "confirm" /\ v.key = n /\ v.row = r
      BY <2>1 DEF AdminState
    <3>2. admin' = [admin EXCEPT ![a] = v]
      BY <2>1, <2>2
    <3> HIDE DEF v
    <3> QED BY <2>1, <3>1, <3>2
  <2>3. CASE admin' = [admin EXCEPT ![a].at = "refuse"]
    BY <2>1, <2>3 DEF AdminState
  <2> QED BY <1>1, <2>2, <2>3
<1>10. refundFaults' \in 0..MaxRefundFaults
  BY <1>1, FaultCounted DEF BooksInv, RefundTypeOK
<1>11. RefundTypeOK'
  BY <1>1, <1>5, <1>7, <1>9, <1>10 DEF BooksInv, RefundTypeOK
<1>12. Admins'
  <2>1. AdminFits'
    <3> SUFFICES ASSUME NEW b \in Admin
                 PROVE  /\ admin'[b].at # "idle" =>
                             admin'[b].row # 0 /\ refund[admin'[b].row].status # "NONE"
                        /\ admin'[b].at \in {"confirm", "patch"} =>
                             /\ admin'[b].key # 0 /\ cancels'[admin'[b].key] # NoCancel
                             /\ cancels'[admin'[b].key].order = admin'[b].row
                        /\ admin'[b].at = "cancel" =>
                             \A c \in Cancel : cancels'[c].order # admin'[b].row
      BY <1>1 DEF AdminFits, Made
    <3>1. CASE b = a
      BY <3>1, <1>2, <1>7, <1>9 DEF Cancel
    <3>2. CASE b # a
      <4>1. admin'[b] = admin[b] /\ admin[b].key \in 0..MaxCancel
        BY <3>2, <1>9, Fields DEF BooksInv
      <4>2. admin[b].at # "idle" => admin[b].row # r
        BY <3>2, <1>1 DEF BooksInv, Admins, OwnRows, r
      <4>3. admin[b].at \in {"confirm", "patch"} =>
              /\ admin[b].key \in Cancel /\ admin[b].key # n
              /\ Made(admin[b].key) /\ cancels[admin[b].key].order = admin[b].row
        BY <4>1, <1>7 DEF BooksInv, Admins, AdminFits, Cancel
      <4>4. admin[b].at = "cancel" => \A c \in Cancel : cancels'[c].order # admin[b].row
        BY <4>2, <1>7 DEF BooksInv, Admins, AdminFits
      <4> QED BY <4>1, <4>3, <4>4, <1>7 DEF BooksInv, Admins, AdminFits, Made
    <3> QED BY <3>1, <3>2
  <2>2. OwnRows'
    BY <1>1, <1>9 DEF BooksInv, Admins, OwnRows, r
  <2> QED BY <2>1, <2>2 DEF Admins
<1> QED BY <1>7, <1>8, <1>11, <1>12 DEF BooksInv

LEMMA ConsoleCancelBooks ==
  ASSUME BooksInv, NEW amount \in 1..Price, ConsoleCancel(amount)
  PROVE  BooksInv'
<1> DEFINE n == NextCancel
<1>1. /\ MakeCancel(amount, 0) /\ stray'
      /\ UNCHANGED <<refund, paid, admin, hook, crossed, unrepaired, refundFaults>>
  BY DEF ConsoleCancel
<1>2. stray' \in BOOLEAN
  BY Zenon DEF ConsoleCancel
<1>3. 0 \in 0..MaxRefund
  BY RefundAssumption
<1>4. /\ n \in Cancel /\ ~Made(n) /\ cancels' \in [Cancel -> Cancellation]
      /\ cancels'[n].order = 0
      /\ \A c \in Cancel \ {n} : cancels'[c] = cancels[c]
      /\ Rows' /\ Gateway' /\ HookFits'
  BY <1>1, <1>3, NewCancel
<1> HIDE DEF n
<1>5. RefundTypeOK'
  BY <1>1, <1>2, <1>4 DEF BooksInv, RefundTypeOK
<1>6. Admins'
  <2>1. AdminFits'
    <3> SUFFICES ASSUME NEW b \in Admin
                 PROVE  /\ admin[b].at # "idle" =>
                             admin[b].row # 0 /\ refund[admin[b].row].status # "NONE"
                        /\ admin[b].at \in {"confirm", "patch"} =>
                             /\ admin[b].key # 0 /\ cancels'[admin[b].key] # NoCancel
                             /\ cancels'[admin[b].key].order = admin[b].row
                        /\ admin[b].at = "cancel" =>
                             \A c \in Cancel : cancels'[c].order # admin[b].row
      BY <1>1 DEF AdminFits, Made
    <3>1. admin[b].key \in 0..MaxCancel
      BY Fields DEF BooksInv
    <3>2. admin[b].at \in {"confirm", "patch"} =>
            admin[b].key \in Cancel /\ admin[b].key # n /\ Made(admin[b].key)
      BY <3>1, <1>4 DEF BooksInv, Admins, AdminFits, Cancel
    <3>3. admin[b].at = "cancel" => \A c \in Cancel : cancels'[c].order # admin[b].row
      BY <1>4 DEF BooksInv, Admins, AdminFits
    <3> QED BY <3>2, <3>3, <1>4 DEF BooksInv, Admins, AdminFits, Made
  <2>2. OwnRows'
    BY <1>1 DEF BooksInv, Admins, OwnRows
  <2> QED BY <2>1, <2>2 DEF Admins
<1> QED BY <1>1, <1>4, <1>5, <1>6 DEF BooksInv

------------------------------------------------------------------------------
(* The webhook.  What it finds about an entry, and how it goes on.           *)
LEMMA AtEntry ==
  ASSUME BooksInv, Working
  PROVE  /\ hook.entry \in Cancel /\ hook.last \in Cancel /\ hook.entry <= hook.last
         /\ Made(hook.entry) /\ Made(hook.last)
         /\ cancels[hook.entry].amount \in 1..Price
<1> USE RefundAssumption
<1>1. /\ hook.entry # 0 /\ hook.entry <= hook.last /\ Made(hook.last)
      /\ hook.entry \in 0..MaxCancel /\ hook.last \in 0..MaxCancel
  BY Fields DEF BooksInv, HookFits
<1>2. hook.entry \in Cancel /\ hook.last \in Cancel
  BY <1>1 DEF Cancel
<1>3. hook.last < NextCancel /\ NextCancel \in Nat
  BY <1>1, <1>2, NextMade DEF BooksInv, Gateway
<1>4. hook.entry < NextCancel
  BY <1>1, <1>2, <1>3 DEF Cancel
<1>5. Made(hook.entry)
  BY <1>2, <1>4, NextMade DEF BooksInv, Gateway
<1>6. cancels[hook.entry].amount \in 1..Price
  BY <1>2, <1>5, Fields DEF BooksInv, Gateway, CancelFits
<1> QED BY <1>1, <1>2, <1>5, <1>6

(* The entry is done with: the next one, or the end.                         *)
LEMMA EntryDone ==
  ASSUME BooksInv, Working, hook' = NextEntry, cancels' = cancels
  PROVE  /\ hook' \in HookState /\ HookFits'
         /\ /\ Calm /\ \E r \in Refund : refund'[r].key = hook.entry
            /\ \A c \in Cancel : On(c) => On(c)'
            => HookCalm'
<1> USE RefundAssumption
<1>1. /\ hook.entry \in Cancel /\ hook.last \in Cancel /\ hook.entry <= hook.last
      /\ Made(hook.last)
  BY AtEntry
<1>2. CASE hook.entry = hook.last
  <2>1. hook'.at = "close" /\ hook' \in HookState
    BY <1>2 DEF NextEntry, NoHook, HookState
  <2> QED BY <2>1 DEF HookFits, HookCalm, Working
<1>3. CASE hook.entry # hook.last
  <2>1. /\ hook' = [hook EXCEPT !.at = "check", !.entry = hook.entry + 1, !.row = 0]
        /\ hook.entry + 1 \in 0..MaxCancel /\ hook.entry + 1 <= hook.last /\ hook.entry + 1 # 0
    BY <1>1, <1>3 DEF NextEntry, Cancel
  <2>2. /\ hook'.at = "check" /\ hook'.entry = hook.entry + 1 /\ hook'.last = hook.last
        /\ hook' \in HookState
    <3> DEFINE next == [hook EXCEPT !.at = "check", !.entry = hook.entry + 1, !.row = 0]
    <3>1. hook \in HookState /\ 0 \in 0..MaxRefund
      BY DEF BooksInv, RefundTypeOK
    <3>2. /\ next.at = "check" /\ next.entry = hook.entry + 1 /\ next.last = hook.last
          /\ next \in HookState
      BY <2>1, <3>1 DEF HookState
    <3> QED BY <2>1, <3>2
  <2>3. HookFits'
    BY <1>1, <2>1, <2>2 DEF HookFits, Working, Made
  <2>4. ASSUME Calm, \A c \in Cancel : On(c) => On(c)',
               NEW r \in Refund, refund'[r].key = hook.entry
        PROVE  HookCalm'
    <3>1. ASSUME NEW c \in Cancel, c < hook.entry + 1 PROVE On(c)'
      <4>1. CASE c = hook.entry
        BY <4>1, <2>4 DEF On
      <4>2. CASE c # hook.entry
        BY <4>2, <3>1, <2>4, <1>1 DEF Calm, HookCalm, Cancel
      <4> QED BY <4>1, <4>2
    <3> QED BY <3>1, <2>2 DEF HookCalm, Working
  <2> QED BY <2>2, <2>3, <2>4
<1> QED BY <1>2, <1>3

LEMMA ReceiveWebhookBooks == ASSUME BooksInv, NEW m \in Cancel, ReceiveWebhook(m) PROVE BooksInv'
<1>1. /\ m \in 1..(NextCancel - 1)
      /\ hook' = [at |-> "check", entry |-> 1, last |-> m, row |-> 0]
      /\ UNCHANGED <<refund, paid, cancels, admin, stray, crossed, unrepaired, refundFaults>>
  BY DEF ReceiveWebhook
<1>2. 1 \in 0..MaxCancel /\ m \in 0..MaxCancel /\ 1 <= m /\ 0 \in 0..MaxRefund
  BY RefundAssumption DEF Cancel
<1>3. Made(m)
  BY <1>1, NextMade DEF BooksInv, Gateway
<1>4. RefundTypeOK'
  BY <1>1, <1>2 DEF BooksInv, RefundTypeOK, HookState
<1>5. HookFits'
  BY <1>1, <1>2, <1>3 DEF HookFits, Working, Made
<1>6. Rows' /\ Gateway' /\ Admins'
  BY <1>1, AdminsSame DEF BooksInv, Rows, RowsPrefix, RowFits, OnePending, Gateway,
     CancelsPrefix, CancelFits, Made
<1>7. Calm => Calm'
  <2>1. HookCalm'
    BY <1>1 DEF HookCalm, Working, Cancel
  <2> QED BY <1>1, <2>1 DEF Calm, Ordered, Awaited, LastOpen, OwnKeys, Made, On
<1> QED BY <1>1, <1>4, <1>5, <1>6, <1>7 DEF BooksInv

LEMMA CheckEntryBooks == ASSUME BooksInv, CheckEntry PROVE BooksInv'
<1>1. /\ hook.at = "check" /\ Working
      /\ UNCHANGED <<refund, paid, cancels, admin, stray, crossed, unrepaired, refundFaults>>
  BY DEF CheckEntry, Working
<1>2. Rows' /\ Gateway' /\ Admins'
  BY <1>1, AdminsSame DEF BooksInv, Rows, RowsPrefix, RowFits, OnePending, Gateway,
     CancelsPrefix, CancelFits, Made
<1>3. Calm => (Ordered /\ Awaited /\ LastOpen /\ OwnKeys)'
  BY <1>1 DEF Calm, Ordered, Awaited, LastOpen, OwnKeys, Made, On
<1>4. \A c \in Cancel : On(c) => On(c)'
  BY <1>1 DEF On
<1>5. CASE \E r \in Refund : refund[r].key = hook.entry
  <2>1. hook' = NextEntry
    BY <1>5 DEF CheckEntry
  <2>2. hook' \in HookState /\ HookFits' /\ (Calm => HookCalm')
    BY <1>1, <1>4, <1>5, <2>1, EntryDone
  <2>3. RefundTypeOK'
    BY <1>1, <2>2 DEF BooksInv, RefundTypeOK
  <2> QED BY <1>1, <1>2, <1>3, <2>2, <2>3 DEF BooksInv, Calm
<1>6. CASE ~\E r \in Refund : refund[r].key = hook.entry
  <2>1. hook' = [hook EXCEPT !.at = "find"]
    BY <1>6 DEF CheckEntry
  <2>2. /\ hook' \in HookState /\ hook'.at = "find"
        /\ hook'.entry = hook.entry /\ hook'.last = hook.last
    BY <2>1 DEF BooksInv, RefundTypeOK, HookState
  <2>3. HookFits'
    BY <1>1, <2>2 DEF BooksInv, HookFits, Working, Made
  <2>4. Calm => HookCalm'
    BY <1>1, <1>6, <2>2 DEF Calm, HookCalm, Working, On
  <2>5. RefundTypeOK'
    BY <1>1, <2>2 DEF BooksInv, RefundTypeOK
  <2> QED BY <1>1, <1>2, <1>3, <2>3, <2>4, <2>5 DEF BooksInv, Calm
<1> QED BY <1>5, <1>6

(* While Calm, the row the cancellation was made for can be linked.          *)
LEMMA MakerLinkable ==
  ASSUME BooksInv, Calm, hook.at = "find"
  PROVE  cancels[hook.entry].order \in Linkable(hook.entry)
<1>1. hook.entry \in Cancel /\ Made(hook.entry) /\ ~On(hook.entry)
  BY AtEntry DEF Working, Calm, HookCalm
<1>2. /\ cancels[hook.entry].order # 0 /\ cancels[hook.entry].order \in Refund
      /\ refund[cancels[hook.entry].order].status # "NONE"
      /\ cancels[hook.entry].amount = refund[cancels[hook.entry].order].amount
      /\ refund[cancels[hook.entry].order].key = 0
  BY <1>1, Fields DEF BooksInv, Gateway, CancelFits, Calm, Ordered, Awaited, Refund
<1> QED BY <1>2 DEF Linkable

CancelRow(amount, key) == [NoRow EXCEPT !.status = "REFUNDED", !.amount = amount, !.key = key]
LEMMA CancelRowFits ==
  ASSUME NEW amount \in 1..Price, NEW key \in 0..MaxCancel
  PROVE  /\ CancelRow(amount, key) \in RefundRow
         /\ CancelRow(amount, key).status = "REFUNDED" /\ CancelRow(amount, key).key = key
         /\ CancelRow(amount, key).amount = amount /\ CancelRow(amount, key).amount > 0
<1>1. NoRow \in RefundRow /\ amount \in 0..Price /\ amount > 0
  BY RefundAssumption DEF NoRow, RefundRow
<1>2. CancelRow(amount, key) \in RefundRow
  BY <1>1 DEF CancelRow, RefundRow
<1>3. /\ CancelRow(amount, key).status = "REFUNDED" /\ CancelRow(amount, key).key = key
      /\ CancelRow(amount, key).amount = amount
  BY <1>1 DEF CancelRow, RefundRow
<1> QED BY <1>1, <1>2, <1>3

LEMMA FindUnlinkedBooks == ASSUME BooksInv, FindUnlinked PROVE BooksInv'
<1> USE RefundAssumption
<1>1. /\ hook.at = "find" /\ Working
      /\ UNCHANGED <<paid, cancels, admin, stray, crossed, unrepaired, refundFaults>>
  BY DEF FindUnlinked, Working
<1>2. CASE Linkable(hook.entry) # {} /\ refund' = refund
           /\ hook' = [hook EXCEPT !.at = "link", !.row = Min(Linkable(hook.entry))]
  <2> DEFINE r == Min(Linkable(hook.entry))
  <2>1. Linkable(hook.entry) \in SUBSET Nat
    BY DEF Linkable, Refund
  <2>2. r \in Linkable(hook.entry) /\ \A x \in Linkable(hook.entry) : r <= x
    BY <1>2, <2>1, Least
  <2>3. /\ r \in Refund /\ r # 0 /\ r \in 0..MaxRefund
        /\ refund[r].status # "NONE" /\ refund[r].key = 0
        /\ refund[r].amount = cancels[hook.entry].amount
    <3>1. /\ r \in Refund /\ refund[r].status # "NONE" /\ refund[r].key = 0
          /\ refund[r].amount = cancels[hook.entry].amount
      BY <2>2 DEF Linkable
    <3> HIDE DEF r
    <3>2. r # 0 /\ r \in 0..MaxRefund
      BY <3>1 DEF Refund
    <3> QED BY <3>1, <3>2
  <2>4. hook' = [hook EXCEPT !.at = "link", !.row = r] /\ hook \in HookState
    BY <1>2 DEF BooksInv, RefundTypeOK
  <2> HIDE DEF r
  <2>5. /\ hook' \in HookState /\ hook'.at = "link" /\ hook'.row = r
        /\ hook'.entry = hook.entry /\ hook'.last = hook.last
    BY <2>3, <2>4 DEF HookState
  <2>6. Rows' /\ Gateway' /\ Admins'
    BY <1>1, <1>2, AdminsSame DEF BooksInv, Rows, RowsPrefix, RowFits, OnePending, Gateway,
       CancelsPrefix, CancelFits, Made
  <2>7. RefundTypeOK'
    BY <1>1, <1>2, <2>5 DEF BooksInv, RefundTypeOK
  <2>8. HookFits'
    BY <1>1, <1>2, <2>3, <2>5 DEF BooksInv, HookFits, Working, Made
  <2>9. ASSUME Calm PROVE Calm'
    <3>1. r <= cancels[hook.entry].order
      BY <1>1, <2>2, <2>9, MakerLinkable
    <3>2. HookCalm'
      BY <1>1, <1>2, <2>3, <2>5, <2>9, <3>1 DEF Calm, HookCalm, Working, On
    <3> QED BY <1>1, <1>2, <2>9, <3>2 DEF Calm, Ordered, Awaited, LastOpen, OwnKeys, Made, On
  <2> QED BY <1>1, <2>6, <2>7, <2>8, <2>9 DEF BooksInv
<1>3. CASE /\ Linkable(hook.entry) = {} /\ NextRefund(refund) <= MaxRefund /\ hook' = NextEntry
           /\ refund' = [refund EXCEPT ![NextRefund(refund)] =
                [NoRow EXCEPT !.status = "REFUNDED", !.amount = cancels[hook.entry].amount,
                              !.key = hook.entry]]
  <2> DEFINE n == NextRefund(refund)
             row == CancelRow(cancels[hook.entry].amount, hook.entry)
  <2>1. ~Calm
    BY <1>1, <1>3, MakerLinkable
  <2>2. /\ hook.entry \in Cancel /\ Made(hook.entry) /\ hook.entry \in 0..MaxCancel
        /\ cancels[hook.entry].amount \in 1..Price /\ cancels[hook.entry].amount \in 0..Price
    BY <1>1, AtEntry DEF Cancel
  <2>3. /\ row \in RefundRow /\ row.status = "REFUNDED" /\ row.key = hook.entry
        /\ row.amount = cancels[hook.entry].amount /\ row.amount > 0
    BY <2>2, CancelRowFits
  <2>4. n \in Refund
    BY <1>3, NextRow DEF BooksInv, Rows, Refund
  <2>5. refund' = [refund EXCEPT ![n] = row]
    BY <1>3 DEF CancelRow
  <2> HIDE DEF row
  <2>6. AddsRow(row)
    BY <1>1, <2>3, <2>4, <2>5 DEF AddsRow
  <2>7. /\ refund' \in [Refund -> RefundRow] /\ refund'[n] = row
        /\ \A q \in Refund \ {n} : refund'[q] = refund[q]
        /\ \A q \in Refund : refund[q].status # "NONE" => refund'[q] = refund[q]
        /\ \A c \in Cancel : On(c) => On(c)'
        /\ RowsPrefix' /\ Gateway'
    BY <2>6, NewRow
  <2> HIDE DEF n
  <2>8. Rows'
    <3>1. RowFits'
      <4> SUFFICES ASSUME NEW q \in Refund
                   PROVE  /\ refund'[q].status = "NONE" => refund'[q].key = 0
                          /\ refund'[q].status # "NONE" => refund'[q].amount > 0
                          /\ refund'[q].key # 0 => /\ Made(refund'[q].key)
                                                   /\ cancels[refund'[q].key].amount = refund'[q].amount
                          /\ refund'[q].status = "REFUNDED" => refund'[q].key # 0
        BY <1>1 DEF RowFits, Made
      <4>1. CASE q = n
        BY <4>1, <2>2, <2>3, <2>7 DEF Cancel
      <4>2. CASE q # n
        BY <4>2, <2>7 DEF BooksInv, Rows, RowFits
      <4> QED BY <4>1, <4>2
    <3>2. OnePending'
      BY <2>3, <2>7 DEF BooksInv, Rows, OnePending
    <3> QED BY <2>7, <3>1, <3>2 DEF Rows
  <2>9. Admins'
    BY <1>1, <2>7, AdminsSame DEF BooksInv
  <2>10. hook' \in HookState /\ HookFits'
    BY <1>1, <1>3, <2>7, EntryDone
  <2>11. RefundTypeOK'
    BY <1>1, <2>7, <2>10 DEF BooksInv, RefundTypeOK
  <2> QED BY <1>1, <2>1, <2>7, <2>8, <2>9, <2>10, <2>11 DEF BooksInv
<1> QED BY <1>2, <1>3 DEF FindUnlinked

LEMMA LinkRefundBooks == ASSUME BooksInv, LinkRefund PROVE BooksInv'
<1> USE RefundAssumption
<1> DEFINE r == hook.row
           e == hook.entry
           row == [refund[r] EXCEPT !.key = e]
<1>1. /\ hook.at = "link" /\ Working /\ hook' = NextEntry
      /\ UNCHANGED <<paid, cancels, admin, stray, crossed, unrepaired, refundFaults>>
  BY DEF LinkRefund, Working
<1>2. /\ r \in Refund /\ refund[r].status # "NONE" /\ refund[r].amount = cancels[e].amount
  BY <1>1, Fields DEF BooksInv, HookFits, Refund
<1>3. e \in Cancel /\ e \in 0..MaxCancel /\ e # 0 /\ Made(e)
  BY <1>1, AtEntry DEF Cancel
<1>4. /\ row \in RefundRow /\ row.key = e /\ row.status = refund[r].status
      /\ row.amount = refund[r].amount
  BY <1>2, <1>3 DEF BooksInv, RefundTypeOK, RefundRow
<1>5. refund' = [refund EXCEPT ![r] = row]
  BY DEF LinkRefund
<1>6. /\ Calm => refund[r].key = 0 /\ r <= cancels[e].order /\ ~On(e)
      /\ Calm => \A c \in Cancel : c < e => On(c)
  BY <1>1 DEF Calm, HookCalm
<1> HIDE DEF row
<1>7. /\ refund' \in [Refund -> RefundRow]
      /\ \A q \in Refund \ {r} : refund'[q] = refund[q]
      /\ refund'[r].key = e /\ refund'[r].status = refund[r].status
      /\ refund'[r].amount = refund[r].amount
  BY <1>2, <1>4, <1>5 DEF BooksInv, RefundTypeOK
<1>8. \A q \in Refund : refund'[q].status = refund[q].status /\ refund'[q].amount = refund[q].amount
  BY <1>7
<1>9. \A c \in Cancel : cancels[c].order # 0 => cancels[c].order \in Refund
  BY Fields DEF BooksInv, Refund
<1>10. Rows'
  <2>1. RowFits'
    <3> SUFFICES ASSUME NEW q \in Refund
                 PROVE  /\ refund'[q].status = "NONE" => refund'[q].key = 0
                        /\ refund'[q].status # "NONE" => refund'[q].amount > 0
                        /\ refund'[q].key # 0 => /\ Made(refund'[q].key)
                                                 /\ cancels[refund'[q].key].amount = refund'[q].amount
                        /\ refund'[q].status = "REFUNDED" => refund'[q].key # 0
      BY <1>1 DEF RowFits, Made
    <3>1. CASE q = r
      BY <3>1, <1>2, <1>3, <1>7 DEF BooksInv, Rows, RowFits
    <3>2. CASE q # r
      BY <3>2, <1>7 DEF BooksInv, Rows, RowFits
    <3> QED BY <3>1, <3>2
  <2> QED BY <1>8, <2>1 DEF BooksInv, Rows, RowsPrefix, OnePending
<1>11. Gateway'
  BY <1>1, <1>8, <1>9 DEF BooksInv, Gateway, CancelsPrefix, CancelFits, Made
<1>12. Admins'
  BY <1>1, <1>8, AdminsSame DEF BooksInv
<1>13. ASSUME Calm PROVE \A c \in Cancel : On(c) => On(c)'
  <2> SUFFICES ASSUME NEW c \in Cancel, NEW q \in Refund, refund[q].key = c
               PROVE  refund'[q].key = c
    BY DEF On
  <2>1. q # r
    BY <1>6, <1>13 DEF Cancel
  <2> QED BY <1>7, <2>1
<1>14. hook' \in HookState /\ HookFits'
  BY <1>1, EntryDone
<1>15. RefundTypeOK'
  BY <1>1, <1>7, <1>14 DEF BooksInv, RefundTypeOK
<1>16. ASSUME Calm PROVE Calm'
  <2>1. HookCalm'
    BY <1>1, <1>2, <1>7, <1>13, <1>16, EntryDone
  <2>2. Ordered'
    BY <1>1, <1>16 DEF Calm, Ordered, Made
  <2>3. LastOpen'
    BY <1>1, <1>8, <1>16 DEF Calm, LastOpen
  <2>4. OwnKeys'
    <3> SUFFICES ASSUME NEW q \in Refund, refund'[q].status \in {"PENDING", "REFUNDED"},
                        refund'[q].key # 0
                 PROVE  cancels[refund'[q].key].order = q
      BY <1>1 DEF OwnKeys
    <3>1. CASE q # r
      BY <3>1, <1>7, <1>16 DEF Calm, OwnKeys
    <3>2. CASE q = r
      <4>1. refund[r].status = "PENDING"
        BY <3>2, <1>2, <1>6, <1>8, <1>16 DEF BooksInv, Rows, RowFits
      <4>2. cancels[e].order <= r /\ r <= cancels[e].order
        BY <4>1, <1>2, <1>3, <1>6, <1>16 DEF Calm, LastOpen
      <4>3. cancels[e].order \in Nat /\ r \in Nat
        BY <1>2, <1>3, Fields DEF BooksInv, Refund
      <4> QED BY <3>2, <4>2, <4>3, <1>7
    <3> QED BY <3>1, <3>2
  <2>5. Awaited'
    <3> SUFFICES ASSUME NEW c \in Cancel, Made(c), ~On(c)'
                 PROVE  refund'[cancels[c].order].key = 0
      BY <1>1 DEF Awaited, Made
    <3>1. ~On(c) /\ refund[cancels[c].order].key = 0 /\ cancels[c].order \in Refund
      BY <1>9, <1>13, <1>16 DEF Calm, Ordered, Awaited
    <3>2. c # e
      BY <1>2, <1>7 DEF On
    <3>3. ~(c < e)
      BY <1>6, <1>16, <3>1
    <3>4. e < c
      BY <1>3, <3>2, <3>3 DEF Cancel
    <3>5. cancels[e].order < cancels[c].order
      BY <1>3, <1>16, <3>4 DEF Calm, Ordered
    <3>6. cancels[c].order # r
      <4>1. /\ cancels[e].order \in Nat /\ cancels[c].order \in Nat
            /\ r \in Nat /\ r <= cancels[e].order
        BY <1>2, <1>3, <1>6, <1>16, Fields DEF BooksInv, Refund
      <4> QED BY <3>5, <4>1
    <3> QED BY <1>7, <3>1, <3>6
  <2> QED BY <2>1, <2>2, <2>3, <2>4, <2>5 DEF Calm
<1> QED BY <1>1, <1>10, <1>11, <1>12, <1>14, <1>15, <1>16 DEF BooksInv

LEMMA CloseWebhookBooks == ASSUME BooksInv, CloseWebhook PROVE BooksInv'
<1>1. /\ hook' = NoHook /\ paid' \in {paid, StatusFor(Counted(refund))}
      /\ UNCHANGED <<refund, cancels, admin, stray, crossed, refundFaults>>
  BY DEF CloseWebhook
<1>2. unrepaired' \in BOOLEAN
  BY Zenon DEF CloseWebhook
<1>3. paid' \in {"PAID", "PARTIALLY_REFUNDED", "REFUNDED"}
  BY <1>1 DEF StatusFor, BooksInv, RefundTypeOK
<1>4. hook' \in HookState /\ hook'.at = "idle"
  BY <1>1, RefundAssumption DEF NoHook, HookState
<1>5. RefundTypeOK'
  BY <1>1, <1>2, <1>3, <1>4 DEF BooksInv, RefundTypeOK
<1>6. Rows' /\ Gateway' /\ Admins'
  BY <1>1, AdminsSame DEF BooksInv, Rows, RowsPrefix, RowFits, OnePending, Gateway,
     CancelsPrefix, CancelFits, Made
<1>7. HookFits' /\ HookCalm'
  BY <1>4 DEF HookFits, HookCalm, Working
<1>8. Calm => Calm'
  BY <1>1, <1>7 DEF Calm, Ordered, Awaited, LastOpen, OwnKeys, Made, On
<1> QED BY <1>1, <1>5, <1>6, <1>7, <1>8 DEF BooksInv

------------------------------------------------------------------------------
LEMMA BooksStep ==
  ASSUME BooksInv, [RefundNext]_refundVars
  PROVE  BooksInv'
<1>1. ASSUME NEW a \in Admin, NEW amount \in 1..Price, PrepareRefund(a, amount) PROVE BooksInv'
  BY <1>1, PrepareRefundBooks
<1>2. ASSUME NEW a \in Admin, CancelPayment(a) PROVE BooksInv'
  BY <1>2, CancelPaymentBooks
<1>3. ASSUME NEW a \in Admin, CancelRefused(a) PROVE BooksInv'
  <2>1. refundFaults' \in 0..MaxRefundFaults
    BY <1>3 DEF CancelRefused, BooksInv, RefundTypeOK
  <2> QED BY <1>3, <2>1, GoesOn DEF CancelRefused, AdminAt
<1>4. ASSUME NEW a \in Admin, RefuseRefund(a) PROVE BooksInv'
  BY <1>4, RefuseRefundBooks
<1>5. ASSUME NEW a \in Admin, ConfirmRefund(a) PROVE BooksInv'
  BY <1>5, ConfirmRefundBooks
<1>6. ASSUME NEW a \in Admin, ConfirmFails(a) PROVE BooksInv'
  BY <1>6, FaultCounted, GoesOn DEF ConfirmFails, AdminAt
<1>7. ASSUME NEW a \in Admin, PatchRefund(a) PROVE BooksInv'
  BY <1>7, PatchRefundBooks
<1>8. ASSUME NEW a \in Admin, AdminDies(a) PROVE BooksInv'
  BY <1>8, FaultCounted, GoesOn DEF AdminDies, AdminAt
<1>9. ASSUME NEW amount \in 1..Price, ConsoleCancel(amount) PROVE BooksInv'
  BY <1>9, ConsoleCancelBooks
<1>10. ASSUME NEW m \in Cancel, ReceiveWebhook(m) PROVE BooksInv'
  BY <1>10, ReceiveWebhookBooks
<1>11. CASE CheckEntry \/ FindUnlinked \/ LinkRefund \/ CloseWebhook
  BY <1>11, CheckEntryBooks, FindUnlinkedBooks, LinkRefundBooks, CloseWebhookBooks
<1>12. ASSUME NEW r \in Refund, ResolveStaleRefund(r) PROVE BooksInv'
  BY <1>12, ResolveStaleBooks
<1>13. CASE UNCHANGED refundVars
  <2>1. UNCHANGED <<refund, paid, cancels, admin, hook, stray, crossed, unrepaired, refundFaults>>
    BY <1>13 DEF refundVars
  <2>2. RefundTypeOK' /\ Admins'
    BY <2>1, AdminsSame DEF BooksInv, RefundTypeOK
  <2> QED BY <2>1, <2>2, BooksSame
<1> QED
  BY <1>1, <1>2, <1>3, <1>4, <1>5, <1>6, <1>7, <1>8, <1>9, <1>10, <1>11, <1>12, <1>13
  DEF RefundNext

LEMMA BooksKept == RefundSpec => []BooksInv
BY BooksInit, BooksStep, PTL DEF RefundSpec

(* The rows, the gateway's cancellations and the requests at work on them    *)
(* keep their types: nobody writes past a table's end.                       *)
THEOREM RefundsTyped == RefundSpec => []RefundTypeOK
<1>1. BooksInv => RefundTypeOK
  BY DEF BooksInv
<1> QED BY <1>1, BooksKept, PTL

(* For any number of administrators, refunds and webhooks, late, repeated or *)
(* crossing a request, with answers lost and requests dead at any point:     *)
(* what counts as refunded the gateway gave back, in the same amount, and    *)
(* nothing counts twice, unless a cancellation was made for which no refund  *)
(* was open, or a fallback crossed a webhook (admin-actions.ts:338 beside    *)
(* webhook.ts:133).                                                          *)
THEOREM CountedReal == RefundSpec => []CountedIsReal
<1>1. BooksInv => CountedIsReal
  <2> SUFFICES ASSUME BooksInv PROVE CountedIsReal
    OBVIOUS
  <2>1. \A r \in Refund : refund[r].status = "REFUNDED" =>
          refund[r].key # 0 /\ cancels[refund[r].key].amount = refund[r].amount
    BY DEF BooksInv, Rows, RowFits
  <2>2. ASSUME NEW r \in Refund, refund[r].status = "REFUNDED", NEW s \in Refund \ {r},
               refund[s].status = "REFUNDED", ~stray, ~crossed, refund[s].key = refund[r].key
        PROVE  FALSE
    <3>1. cancels[refund[r].key].order = r /\ cancels[refund[s].key].order = s
      BY <2>1, <2>2 DEF BooksInv, Calm, OwnKeys
    <3> QED BY <2>2, <3>1
  <2> QED BY <2>1, <2>2 DEF CountedIsReal
<1> QED BY <1>1, BooksKept, PTL

------------------------------------------------------------------------------
(* What counts, as a number.                                                 *)
LEMMA CountsTyped ==
  ASSUME NEW rows \in [Refund -> RefundRow]
  PROVE  Counts(rows) \in [1..MaxRefund -> Nat]
<1>1. \A r \in Refund : rows[r].amount \in Nat
  BY RefundAssumption DEF RefundRow
<1> QED BY <1>1 DEF Counts, Refund

LEMMA CountedZero ==
  ASSUME NEW rows \in [Refund -> RefundRow],
         \A r \in Refund : rows[r].status # "NONE" => rows[r].amount > 0
  PROVE  /\ Counted(rows) \in Nat
         /\ Counted(rows) = 0 <=> ~\E r \in Refund : rows[r].status = "REFUNDED"
<1>1. /\ Counted(rows) \in Nat
      /\ Counted(rows) = 0 <=> \A r \in 1..MaxRefund : Counts(rows)[r] = 0
  BY CountsTyped, Sums, RefundAssumption DEF Counted
<1>2. \A r \in Refund : Counts(rows)[r] = 0 <=> rows[r].status # "REFUNDED"
  <2> TAKE r \in Refund
  <2>1. Counts(rows)[r] = IF rows[r].status = "REFUNDED" THEN rows[r].amount ELSE 0
    BY DEF Counts
  <2> QED BY <2>1
<1> QED BY <1>1, <1>2 DEF Refund

LEMMA SameCount ==
  ASSUME NEW rows \in [Refund -> RefundRow], NEW new \in [Refund -> RefundRow],
         \A r \in Refund : /\ rows[r].status = "REFUNDED" <=> new[r].status = "REFUNDED"
                           /\ rows[r].status = "REFUNDED" => new[r].amount = rows[r].amount
  PROVE  Counted(new) = Counted(rows)
<1>1. \A r \in Refund : (IF rows[r].status = "REFUNDED" THEN rows[r].amount ELSE 0)
                        = (IF new[r].status = "REFUNDED" THEN new[r].amount ELSE 0)
  OBVIOUS
<1>2. Counts(new) = Counts(rows)
  BY <1>1 DEF Counts
<1> QED BY <1>2 DEF Counted

(* A step after which the same refunds count, and the payment is as it was.  *)
LEMMA PaidSame ==
  ASSUME BooksInv, BooksInv', PaidFits, UNCHANGED <<paid, unrepaired>>, PaymentFree' => PaymentFree,
         \A r \in Refund : /\ refund[r].status = "REFUNDED" <=> refund'[r].status = "REFUNDED"
                           /\ refund[r].status = "REFUNDED" => refund'[r].amount = refund[r].amount
  PROVE  PaidFits'
<1>1. refund \in [Refund -> RefundRow] /\ refund' \in [Refund -> RefundRow]
  BY DEF BooksInv, RefundTypeOK
<1>2. Counted(refund') = Counted(refund)
  BY <1>1, SameCount
<1> QED BY <1>2 DEF PaidFits, StatusFollowsRefunds

(* A step that ends inside a webhook's transaction.                          *)
LEMMA PaidWithin ==
  ASSUME PaidFits, paid' = paid, hook'.at # "idle" \/ unrepaired',
         \A r \in Refund : refund[r].status = "REFUNDED" => refund'[r].status = "REFUNDED"
  PROVE  PaidFits'
BY DEF PaidFits, StatusFollowsRefunds, PaymentFree

LEMMA NextEntryHolds == ASSUME BooksInv, Working PROVE NextEntry.at # "idle"
<1>1. hook \in HookState
  BY DEF BooksInv, RefundTypeOK
<1> QED BY <1>1 DEF NextEntry, NoHook, HookState

LEMMA PaidStep ==
  ASSUME BooksInv, BooksInv', PaidFits, [RefundNext]_refundVars
  PROVE  PaidFits'
<1>1. ASSUME NEW a \in Admin, NEW amount \in 1..Price, PrepareRefund(a, amount) PROVE PaidFits'
  <2>1. /\ refund' = [refund EXCEPT ![NextRefund(refund)] =
                       [NoRow EXCEPT !.status = "PENDING", !.amount = amount]]
        /\ NextRefund(refund) <= MaxRefund /\ UNCHANGED <<paid, unrepaired, hook>>
    BY <1>1 DEF PrepareRefund
  <2>2. NextRefund(refund) \in Refund /\ refund[NextRefund(refund)].status = "NONE"
    BY <2>1, NextRow, RefundAssumption DEF BooksInv, Rows, Refund
  <2>3. [NoRow EXCEPT !.status = "PENDING", !.amount = amount].status = "PENDING"
    BY DEF NoRow
  <2>4. \A r \in Refund : /\ refund[r].status = "REFUNDED" <=> refund'[r].status = "REFUNDED"
                          /\ refund[r].status = "REFUNDED" => refund'[r].amount = refund[r].amount
    BY <2>1, <2>2, <2>3 DEF BooksInv, RefundTypeOK
  <2> QED BY <2>1, <2>4, PaidSame DEF PaymentFree
<1>2. ASSUME UNCHANGED <<refund, paid, unrepaired>>, PaymentFree' => PaymentFree PROVE PaidFits'
  BY <1>2, PaidSame
<1>3. ASSUME NEW a \in Admin,
             CancelPayment(a) \/ CancelRefused(a) \/ ConfirmFails(a) \/ AdminDies(a)
      PROVE  PaidFits'
  BY <1>2, <1>3 DEF CancelPayment, CancelRefused, ConfirmFails, AdminDies, PaymentFree
<1>4. ASSUME NEW r \in Refund, NEW key, SettlesRow(r, "FAILED", key), UNCHANGED <<paid, unrepaired>>
      PROVE  PaidFits'
  BY <1>4, PaidSame DEF SettlesRow, PaymentFree
<1>5. ASSUME NEW a \in Admin, RefuseRefund(a) PROVE PaidFits'
  <2>1. /\ admin[a].at # "idle" /\ AdminDone(a) /\ refund' = SetPending(admin[a].row, "FAILED", 0)
        /\ UNCHANGED <<paid, cancels, hook, stray, crossed, unrepaired, refundFaults>>
    BY <1>5 DEF RefuseRefund, AdminAt
  <2>2. 0 \in 0..MaxCancel /\ crossed' \in BOOLEAN /\ unrepaired' \in BOOLEAN
        /\ paid' \in {"PAID", "PARTIALLY_REFUNDED", "REFUNDED"}
    BY <2>1, RefundAssumption DEF BooksInv, RefundTypeOK
  <2>3. admin[a].row \in Refund
        /\ (refund' = refund \/ \E k : SettlesRow(admin[a].row, "FAILED", k))
    BY <2>1, <2>2, ResultBooks
  <2> QED BY <1>2, <1>4, <2>1, <2>3 DEF PaymentFree
<1>6. ASSUME NEW a \in Admin, ConfirmRefund(a) PROVE PaidFits'
  <2>1. /\ UNCHANGED <<cancels, hook, stray, crossed, unrepaired, refundFaults>>
        /\ admin[a].at = "confirm" /\ hook.at = "idle"
    BY <1>6 DEF ConfirmRefund, AdminAt, PaymentFree
  <2>2. CASE refund[admin[a].row].status = "PENDING"
    <3>1. /\ AdminDone(a) /\ refund' = SetPending(admin[a].row, "REFUNDED", admin[a].key)
          /\ paid' = StatusFor(Counted(refund'))
      BY <1>6, <2>2 DEF ConfirmRefund
    <3>2. crossed' \in BOOLEAN /\ unrepaired' \in BOOLEAN /\ admin[a].key \in 0..MaxCancel
      BY <2>1, Fields DEF BooksInv, RefundTypeOK
    <3>3. paid' \in {"PAID", "PARTIALLY_REFUNDED", "REFUNDED"}
      BY <3>1 DEF StatusFor
    <3>4. admin[a].row \in Refund /\ \E k : SettlesRow(admin[a].row, "REFUNDED", k)
      BY <2>1, <2>2, <3>1, <3>2, <3>3, ResultBooks
    <3>5. \E r \in Refund : refund'[r].status = "REFUNDED"
      BY <3>4 DEF SettlesRow
    <3>6. /\ refund' \in [Refund -> RefundRow]
          /\ \A r \in Refund : refund'[r].status # "NONE" => refund'[r].amount > 0
      BY DEF BooksInv, Rows, RowFits, RefundTypeOK
    <3>7. Counted(refund') # 0
      BY <3>5, <3>6, CountedZero
    <3> QED BY <3>1, <3>5, <3>7 DEF PaidFits, StatusFollowsRefunds
  <2>3. CASE refund[admin[a].row].status # "PENDING"
    BY <1>2, <1>6, <2>1, <2>3 DEF ConfirmRefund, PaymentFree
  <2> QED BY <2>2, <2>3
<1>7. ASSUME NEW a \in Admin, PatchRefund(a) PROVE PaidFits'
  <2>1. /\ UNCHANGED <<paid, cancels, hook, stray, refundFaults>>
        /\ refund' = SetPending(admin[a].row, "REFUNDED", admin[a].key)
    BY <1>7 DEF PatchRefund
  <2>2. CASE refund' = refund
    <3>1. unrepaired' = (unrepaired \/ FALSE)
      BY <1>7, <2>2 DEF PatchRefund
    <3>2. unrepaired' = unrepaired
      BY <3>1, Zenon DEF BooksInv, RefundTypeOK
    <3> QED BY <1>2, <2>1, <2>2, <3>2 DEF PaymentFree
  <2>3. CASE refund' # refund
    <3>1. unrepaired'
      BY <1>7, <2>3 DEF PatchRefund
    <3>2. \A r \in Refund : refund[r].status = "REFUNDED" => refund'[r].status = "REFUNDED"
      BY <2>1 DEF SetPending, BooksInv, RefundTypeOK, RefundRow
    <3> QED BY <2>1, <3>1, <3>2, PaidWithin
  <2> QED BY <2>2, <2>3
<1>8. ASSUME NEW amount \in 1..Price, ConsoleCancel(amount) PROVE PaidFits'
  BY <1>2, <1>8 DEF ConsoleCancel, PaymentFree
<1>9. ASSUME NEW m \in Cancel, ReceiveWebhook(m) PROVE PaidFits'
  <2>1. hook'.at = "check" /\ UNCHANGED <<refund, paid, unrepaired>>
    BY <1>9 DEF ReceiveWebhook
  <2> QED BY <2>1, PaidWithin
<1>10. CASE CheckEntry
  <2>1. Working /\ UNCHANGED <<refund, paid, unrepaired>>
    BY <1>10 DEF CheckEntry, Working
  <2>2. hook' = NextEntry \/ hook' = [hook EXCEPT !.at = "find"]
    BY <1>10 DEF CheckEntry
  <2>3. hook'.at # "idle"
    BY <2>1, <2>2, NextEntryHolds DEF BooksInv, RefundTypeOK, HookState
  <2> QED BY <2>1, <2>3, PaidWithin
<1>11. CASE FindUnlinked
  <2>1. Working /\ UNCHANGED <<paid, unrepaired>>
    BY <1>11 DEF FindUnlinked, Working
  <2>2. \/ /\ refund' = refund
           /\ hook' = [hook EXCEPT !.at = "link", !.row = Min(Linkable(hook.entry))]
        \/ /\ hook' = NextEntry /\ NextRefund(refund) <= MaxRefund
           /\ \E row : refund' = [refund EXCEPT ![NextRefund(refund)] = row]
    BY <1>11 DEF FindUnlinked
  <2>3. hook'.at # "idle"
    BY <2>1, <2>2, NextEntryHolds DEF BooksInv, RefundTypeOK, HookState
  <2>4. \A r \in Refund : refund[r].status = "REFUNDED" => refund'[r].status = "REFUNDED"
    <3>1. CASE refund' = refund
      BY <3>1
    <3>2. CASE /\ NextRefund(refund) <= MaxRefund
               /\ \E row : refund' = [refund EXCEPT ![NextRefund(refund)] = row]
      <4>1. refund[NextRefund(refund)].status = "NONE"
        BY <3>2, NextRow, RefundAssumption DEF BooksInv, Rows, Refund
      <4> QED BY <3>2, <4>1 DEF BooksInv, RefundTypeOK
    <3> QED BY <2>2, <3>1, <3>2
  <2> QED BY <2>1, <2>3, <2>4, PaidWithin
<1>12. CASE LinkRefund
  <2>1. Working /\ hook' = NextEntry /\ UNCHANGED <<paid, unrepaired>>
        /\ refund' = [refund EXCEPT ![hook.row].key = hook.entry]
    BY <1>12 DEF LinkRefund, Working
  <2>2. \A r \in Refund : refund'[r].status = refund[r].status
    BY <2>1 DEF BooksInv, RefundTypeOK, RefundRow
  <2> QED BY <2>1, <2>2, NextEntryHolds, PaidWithin
<1>13. CASE CloseWebhook
  <2>1. /\ refund' = refund
        /\ paid' = IF Counted(refund) > 0 THEN StatusFor(Counted(refund)) ELSE paid
    BY <1>13 DEF CloseWebhook
  <2>2. /\ refund \in [Refund -> RefundRow]
        /\ \A r \in Refund : refund[r].status # "NONE" => refund[r].amount > 0
    BY DEF BooksInv, Rows, RowFits, RefundTypeOK
  <2>3. /\ Counted(refund) \in Nat
        /\ Counted(refund) = 0 <=> ~\E r \in Refund : refund[r].status = "REFUNDED"
    BY <2>2, CountedZero
  <2>4. CASE Counted(refund) = 0
    BY <2>1, <2>3, <2>4 DEF PaidFits, StatusFollowsRefunds
  <2>5. CASE Counted(refund) # 0
    BY <2>1, <2>3, <2>5 DEF PaidFits, StatusFollowsRefunds
  <2> QED BY <2>4, <2>5
<1>14. ASSUME NEW r \in Refund, ResolveStaleRefund(r) PROVE PaidFits'
  <2>1. /\ UNCHANGED <<paid, unrepaired, hook>> /\ refund[r].status = "PENDING"
        /\ refund' = [refund EXCEPT ![r].status = "FAILED"]
    BY <1>14 DEF ResolveStaleRefund
  <2>2. \A q \in Refund : /\ refund[q].status = "REFUNDED" <=> refund'[q].status = "REFUNDED"
                          /\ refund[q].status = "REFUNDED" => refund'[q].amount = refund[q].amount
    BY <2>1 DEF BooksInv, RefundTypeOK, RefundRow
  <2> QED BY <2>1, <2>2, PaidSame DEF PaymentFree
<1>15. CASE UNCHANGED refundVars
  BY <1>2, <1>15 DEF refundVars, PaymentFree
<1> QED
  BY <1>1, <1>3, <1>5, <1>6, <1>7, <1>8, <1>9, <1>10, <1>11, <1>12, <1>13, <1>14, <1>15
  DEF RefundNext

LEMMA PaidInit == RefundInit => PaidFits
<1> SUFFICES ASSUME RefundInit PROVE PaidFits
  OBVIOUS
<1>1. BooksInv /\ paid = "PAID" /\ \A r \in Refund : refund[r].status = "NONE"
  BY BooksInit DEF RefundInit, NoRow
<1>2. Counted(refund) = 0
  BY <1>1, CountedZero DEF BooksInv, RefundTypeOK
<1> QED BY <1>1, <1>2 DEF PaidFits, StatusFollowsRefunds

(* Once transactions have committed, the payment is PAID when nothing counts *)
(* as refunded, REFUNDED when all of it does and PARTIALLY_REFUNDED in       *)
(* between, however the refunds were recorded; only a confirmation that fell *)
(* back to its row leaves it behind, until a webhook comes.                  *)
THEOREM StatusFollows == RefundSpec => []StatusFollowsRefunds
<1>1. PaidFits => StatusFollowsRefunds
  BY DEF PaidFits
<1> QED BY <1>1, PaidInit, PaidStep, BooksKept, PTL DEF RefundSpec
=============================================================================
