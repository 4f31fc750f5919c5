------------------------ MODULE BillingSerialProofs ------------------------
(* Requests that charge, recover or defer one after another, any of which    *)
(* may die anywhere, while members, administrators and the batch cancel,     *)
(* take back, terminate and withdraw at any moment: what a crash leaves      *)
(* behind is repaired before it is built upon, for every value of the other  *)
(* constants of BillingCharge.                                               *)
EXTENDS BillingMoneyProofs

(* The requests that move money, or the date that money is due.              *)
Payers == {"START", "CARD", "SEAT", "DAILY", "SWEEP", "RETRY", "DEFER"}

(* The requests that write a live status over whatever the row has become.   *)
Revivers == {"CANCEL", "UNCANCEL"}

(* Of the requests of kinds K at most one runs at a time: nothing else runs, *)
(* or none of them is served beside another.                                 *)
InTurn(K) == (\A a, b \in Slot : a = b) \/ K \subseteq Batch

Together == InTurn(Payers \cup Revivers)

(* Only the manual plans, whose batch does not touch the subscription, are   *)
(* looked after beside another request.                                      *)
Calm == InTurn(AllKinds \ {"MANUAL"})

OneOf(K) == \A q, r \in Slot : Is(q, K) /\ Is(r, K) => q = r

(* Whoever runs was let in; kinds that are served in turn run in turn.       *)
Arrived == \A r \in Slot : IF Running(r) THEN Is(r, Kinds) ELSE ~Is(r, AllKinds)
TurnsTaken == \A K \in SUBSET AllKinds : InTurn(K) => OneOf(K)

------------------------------------------------------------------------------
(* The rows, whoever is at work.                                             *)

(* A row that the daily job may charge again.                                *)
Chargeable(row) == row.bill # None \/ row.st = "PAST_DUE"

(* A period that ends at e covers what was taken since the member subscribed,*)
(* unless the attempt is still open.                                         *)
Covers(e) ==
  \A s \in pg : pays[s].type = "RECURRING" =>
    \/ pays[s].st = "PENDING" \/ pays[s].end <= e
    \/ \E i \in pg : pays[i].type = "INITIAL" /\ s < i

(* The seats are those of the payment settled last.                          *)
Matched ==
  \A t \in Time :
    pays[t].st = "PAID" /\ (\A u \in Time : pays[u].st = "PAID" => u <= t)
      => sub.seats = pays[t].seats

(* The open attempt is the newest of all.  Unless it is a first payment, it  *)
(* holds the token of the subscription it is for, and a renewal pays for     *)
(* time not covered yet.                                                     *)
Opened ==
  \A t \in Pending :
    /\ \A u \in Time : pays[u].st # "NOROW" => u <= t
    /\ pays[t].type # "INITIAL" => Live(sub) /\ sub.op = t
    /\ pays[t].type = "RECURRING" =>
         Chargeable(sub) /\ sub.end <= pays[t].from /\ sub.end <= pays[t].end
    /\ Together /\ pays[t].type = "INITIAL" => ~Live(sub)

Covered == Chargeable(sub) => Covers(sub.end)

(* prentc_dt tells the truth whatever the status.                            *)
Noticed == sub.notice /\ (sub.bill # None \/ (Calm /\ Live(sub))) => sub.bill \in mailed

Seated == (Together /\ Live(sub)) \/ "START" \notin Kinds => Matched
Unstarted == "START" \notin Kinds => \A t \in Time : pays[t].type # "INITIAL"

Settling == Opened /\ Covered /\ Noticed /\ Seated /\ Unstarted /\ NoDoubleCharge

------------------------------------------------------------------------------
(* The versions of the row.                                                  *)

(* Where a request has not begun a charge yet.                               *)
Unbegun == {"find", "refind", "check", "update", "reread", "resolve", "begin"} \cup Looking

(* A request that has not written the subscription yet: a card replacement   *)
(* has when it gets as far as a charge.                                      *)
Fresh(r) ==
  \/ req[r].pc \in {"refind", "check", "update"}
  \/ At(r, "find") /\ ~Is(r, {"START"})
  \/ (At(r, "resolve") \/ req[r].pc \in Looking) /\ ~Is(r, {"CARD"})

(* No row is newer than the last request.                                    *)
Dated ==
  /\ sub.ver <= Stamp(lastStart) + 1
  /\ \A r \in Slot : req[r].row.ver <= Stamp(lastStart) + 1

(* The version that a request is to write has been neither written nor read. *)
Unwritten ==
  \A r \in Slot : Fresh(r) =>
    sub.ver # Stamp(req[r].now) /\ \A q \in Slot : req[q].row.ver # Stamp(req[r].now)

(* What the one that may begin a charge finds was written by a request as it *)
(* ended, or before its own time.                                            *)
Stamped ==
  \A r \in Slot : Is(r, Payers) /\ req[r].pc \in Unbegun =>
    sub.ver < Stamp(req[r].now) \/ \E t \in Time : sub.ver = Stamp(t)

Versions == Dated /\ Unwritten /\ Stamped

------------------------------------------------------------------------------
(* What a request may rely on.                                               *)

(* The step belongs to these kinds of request.                               *)
Placed(r) ==
  /\ At(r, "refind") => Is(r, {"SEAT"})
  /\ At(r, "reread") => Is(r, {"CARD"})
  /\ req[r].pc \in {"claimRead", "claim"} => Is(r, {"START"})
  /\ req[r].pc \in {"resolve"} \cup Looking => Is(r, Charging \cup {"START", "SEAT", "SWEEP"})
  /\ req[r].pc \in {"begin", "release", "failSub", "expire"} => Is(r, Charging \cup {"SEAT"})
  /\ req[r].pc \in {"failSub", "expire"} => Is(r, Charging)
  /\ req[r].pc \in {"create", "charge", "apply", "declined"} => Is(r, Charging \cup {"START", "SEAT"})
  /\ req[r].pc \in {"notice", "refetch"} => Is(r, {"DAILY"})
  /\ At(r, "process") => Is(r, {"DAILY", "MANUAL"})
  /\ req[r].pc \in {"check", "update"} => ~Is(r, {"MANUAL"})

(* No attempt is open where a payer resolves none, or has checked or settled *)
(* it; for anybody else, none that is old enough to be taken over.           *)
Cleared(r) ==
  /\ \/ req[r].pc \in {"claimRead", "claim", "begin", "create", "release", "failSub", "expire",
                        "reread"}
     \/ At(r, "find") /\ Is(r, {"START"})
     \/ (At(r, "resolve") \/ req[r].pc \in Looking) /\ Is(r, {"CARD"})
     \/ At(r, "update") /\ (Is(r, Payers) \/ (Together /\ Is(r, Revivers)))
     => Pending = {}
  /\ At(r, "update") => \A t \in Pending : req[r].now <= t + OpTimeout

(* What it has read is still so; if somebody has changed the row, the        *)
(* version tells, or the column it goes by has stayed.                       *)
ReadTrue(r) ==
  /\ req[r].pc \in {"resolve", "begin"} \cup Looking /\ ~Is(r, {"START", "SWEEP"}) =>
       /\ Live(req[r].row) /\ (req[r].row = sub \/ req[r].row.ver # sub.ver)
       /\ Is(r, Charging) => Chargeable(req[r].row)
  /\ req[r].pc \in {"check", "update"} /\ Is(r, {"DEFER"}) =>
       req[r].row.end = sub.end /\ Covers(sub.end)
  /\ req[r].pc \in {"check", "update"} /\ Is(r, Revivers) =>
       (Together => Matched) /\ (Calm => Live(sub))
  /\ At(r, "notice") => sub.bill = req[r].row.bill \/ (sub.bill = None /\ ~Calm)
  /\ At(r, "process") /\ Is(r, {"DAILY"}) => sub.bill \in mailed \/ (sub.bill = None /\ ~Calm)
  /\ req[r].pc \in Looking => req[r].tgt \in Pending

(* Its own charge.                                                           *)
Paying(r) ==
  /\ Is(r, Payers) => \A u \in Time : pays[u].st # "NOROW" => u <= req[r].now
  /\ req[r].pc \in {"create", "charge", "apply", "declined", "failSub", "release", "expire"}
       /\ ~Is(r, {"START"})
     => sub.op = req[r].now /\ Live(sub) /\ (Is(r, Charging) => Chargeable(sub))
  /\ At(r, "create") /\ ~Is(r, {"START"}) => req[r].row.end = sub.end
  /\ Together /\ req[r].pc \in {"claimRead", "claim", "create"} /\ Is(r, {"START"}) => ~Live(sub)
  /\ req[r].pc \in {"charge", "apply", "declined"} =>
       /\ req[r].now \in Pending
       /\ pays[req[r].now].type = "INITIAL" <=> Is(r, {"START"})
       /\ pays[req[r].now].type = "RECURRING" <=> Is(r, Charging)
       /\ pays[req[r].now].type = "SEAT_ADD" <=> Is(r, {"SEAT"})

Knows(r) == Placed(r) /\ Cleared(r) /\ ReadTrue(r) /\ Paying(r)

SerialInv == Arrived /\ TurnsTaken /\ Versions /\ Settling /\ \A r \in Slot : Knows(r)

------------------------------------------------------------------------------
(* How a request moves.                                                      *)

(* The hypotheses are about constants.                                      *)
LEMMA Lasting == (Together' <=> Together) /\ (Calm' <=> Calm)
BY DEF Together, Calm, InTurn

(* A step of r, which is over or goes on with what it has read.              *)
Acts(r) ==
  /\ Running(r) /\ KeepTime
  /\ \A q \in Slot \ {r} : req'[q] = req[q]
  /\ \/ req'[r] = Idle
     \/ /\ req'[r].kind = req[r].kind /\ req'[r].now = req[r].now /\ req'[r].pc # "idle"
        /\ req'[r].row \in {req[r].row, sub}

(* It goes on at p with this row.                                            *)
GoesOn(r, p, row) ==
  /\ req'[r].pc = p /\ req'[r].kind = req[r].kind /\ req'[r].now = req[r].now
  /\ req'[r].row = row
  /\ \A q \in Slot \ {r} : req'[q] = req[q]

(* A request that is over has acted, and is idle.                           *)
LEMMA FinishActs ==
  ASSUME Typed, NEW r \in Slot, Running(r), KeepTime, Finish(r)
  PROVE  Acts(r) /\ req'[r] = Idle
BY DEF Typed, ReqTyped, Acts, Finish

(* So has one that goes on.                                                 *)
LEMMA GoesOnActs ==
  ASSUME NEW r \in Slot, Running(r), KeepTime, NEW p, p # "idle",
         NEW row \in {req[r].row, sub}, GoesOn(r, p, row)
  PROVE  Acts(r)
BY DEF Acts, GoesOn

(* Moving on, with a target or a version or without, keeps the row read.    *)
LEMMA GotoGoesOn ==
  ASSUME Typed, NEW r \in Slot, NEW p,
         \/ Goto(r, p) \/ \E t : req' = [req EXCEPT ![r].pc = p, ![r].tgt = t]
         \/ \E v : req' = [req EXCEPT ![r].pc = p, ![r].base = v]
  PROVE  GoesOn(r, p, req[r].row)
<1>1. req \in [Slot -> Request]
  BY DEF Typed, ReqTyped
<1> QED BY <1>1 DEF Goto, GoesOn, Request

(* Reading puts the row in.                                                 *)
LEMMA ReadGoesOn ==
  ASSUME Typed, NEW r \in Slot, NEW p, NEW row,
         req' = [req EXCEPT ![r].pc = p, ![r].row = row]
  PROVE  GoesOn(r, p, row)
<1>1. req \in [Slot -> Request]
  BY DEF Typed, ReqTyped
<1> QED BY <1>1 DEF GoesOn, Request

(* Who runs, and in turn, is who was let in.                                 *)
LEMMA TurnsKept ==
  ASSUME Arrived, TurnsTaken, NEW r \in Slot, Acts(r)
  PROVE  Arrived' /\ TurnsTaken'
<1>1. Idle.kind \notin AllKinds /\ Idle.pc = "idle"
  BY DEF Idle, AllKinds
<1>2. \A q \in Slot : req'[q] = req[q] \/ req'[q] = Idle
                      \/ (q = r /\ req'[q].kind = req[q].kind /\ req'[q].pc # "idle")
  BY DEF Acts
<1>3. Arrived'
  BY <1>1, <1>2 DEF Acts, Arrived, Running, Is
<1>4. ASSUME NEW K \in SUBSET AllKinds, InTurn(K)
      PROVE  \A a, b \in Slot : req'[a].kind \in K /\ req'[b].kind \in K => a = b
  <2>1. OneOf(K)
    BY <1>4 DEF TurnsTaken
  <2>2. \A q \in Slot : req'[q].kind \in K => req[q].kind \in K
    BY <1>1, <1>2
  <2> QED BY <2>1, <2>2 DEF OneOf, Is
<1>5. TurnsTaken'
  BY <1>4 DEF TurnsTaken, OneOf, Is, InTurn
<1> QED BY <1>3, <1>5

(* Two that are served in turn are one.                                      *)
LEMMA Alone ==
  ASSUME TurnsTaken, NEW K \in SUBSET AllKinds, InTurn(K), NEW q \in Slot, NEW r \in Slot,
         Is(q, K), Is(r, K)
  PROVE  q = r
BY DEF TurnsTaken, OneOf

(* The time of one that runs and the clock are never further apart than the  *)
(* life of a token.                                                          *)
LEMMA Timely ==
  ASSUME Typed, MoneyInv, NEW q \in Slot, Running(q)
  PROVE  /\ req[q].now \in Nat /\ req[q].now \in Time /\ Stamp(req[q].now) \in Nat
         /\ req[q].now <= lastStart /\ lastStart \in Int
         /\ \A r \in Slot : Running(r) => req[r].now <= req[q].now + OpTimeout
         /\ \A r \in Slot \ {q} : Running(r) => Stamp(req[r].now) # Stamp(req[q].now)
<1>1. /\ req[q].now \in Time /\ req[q].now <= lastStart /\ clock <= req[q].now + Life
      /\ \A r \in Slot \ {q} : Running(r) => req[r].now # req[q].now
      /\ \A r \in Slot : Running(r) => req[r].now \in Time /\ req[r].now <= lastStart
  BY DEF MoneyInv, Clocked
<1>2. lastStart <= clock /\ clock \in Int /\ lastStart \in Int
  BY DEF Typed, ClockTyped, Time, None
<1>3. req[q].now \in Nat /\ \A r \in Slot : Running(r) => req[r].now \in Nat
  BY <1>1 DEF Time
<1>4. \A r \in Slot : Running(r) => req[r].now <= req[q].now + OpTimeout
  BY <1>1, <1>2, <1>3, TimeoutAssumption
<1>5. \A r \in Slot \ {q} : Running(r) => Stamp(req[r].now) # Stamp(req[q].now)
  BY <1>1, <1>3 DEF Stamp
<1> QED BY <1>1, <1>2, <1>3, <1>4, <1>5, StampNat

------------------------------------------------------------------------------
(* How the versions move.                                                    *)

(* The row keeps its version, or takes that of a request that has not        *)
(* written it and will not do so as if it were the first time, or that of a  *)
(* payer that begins its charge.                                             *)
Writes(r) ==
  \/ /\ sub'.ver = sub.ver
     /\ Fresh(r)' => Fresh(r)
     /\ req'[r].pc \in Unbegun => req[r].pc \in Unbegun
  \/ /\ sub'.ver = Stamp(req[r].now) /\ ~Fresh(r)'
     /\ req'[r].pc \in Unbegun => req[r].pc \in Unbegun
  \/ /\ At(r, "begin") /\ Is(r, Payers) /\ sub'.ver = Bump(req[r].now, sub.ver)
     /\ req'[r].pc \notin Unbegun

(* Who has not written has not begun a charge.                              *)
LEMMA FreshUnbegun ==
  ASSUME NEW r \in Slot, Fresh(r)
  PROVE  req[r].pc \in Unbegun /\ Running(r)
BY DEF Fresh, Unbegun, Looking, At, Running

(* What a charge that begins makes of the version.                           *)
LEMMA BegunVersion ==
  ASSUME Typed, MoneyInv, Versions, NEW r \in Slot, At(r, "begin"), Is(r, Payers),
         NEW v, v = Bump(req[r].now, sub.ver)
  PROVE  /\ v <= Stamp(lastStart) + 1
         /\ v = Stamp(req[r].now) \/ \A t \in Time : v # Stamp(t)
<1>1. Running(r) /\ req[r].pc \in Unbegun
  BY DEF Running, At, Unbegun
<1>2. /\ req[r].now \in Nat /\ req[r].now <= lastStart /\ lastStart \in Int
      /\ sub.ver \in Nat
  BY <1>1, Timely DEF Typed, RowsTyped, Subscription
<1>3. Time \subseteq Int
  BY DEF Time
<1>4. CASE sub.ver < Stamp(req[r].now)
  BY <1>2, <1>4 DEF Bump, Stamp
<1>5. ASSUME NEW t \in Time, sub.ver = Stamp(t)
      PROVE  /\ v <= Stamp(lastStart) + 1
             /\ v = Stamp(req[r].now) \/ \A u \in Time : v # Stamp(u)
  <2>1. sub.ver <= Stamp(lastStart) + 1
    BY DEF Versions, Dated
  <2>2. v = Stamp(req[r].now) \/ v = 2 * (t + 1) + 1
    BY <1>5 DEF Bump, Stamp
  <2>3. t <= lastStart
    BY <1>2, <1>3, <1>5, <2>1 DEF Stamp
  <2>4. v <= Stamp(lastStart) + 1
    BY <1>2, <1>3, <2>2, <2>3 DEF Stamp
  <2>5. \A u \in Time : 2 * (t + 1) + 1 # 2 * (u + 1)
    BY <1>3
  <2> QED BY <2>2, <2>4, <2>5 DEF Stamp
<1> QED BY <1>1, <1>4, <1>5 DEF Versions, Stamped

(* A step that writes by the rules keeps the versions apart.                *)
LEMMA VersionsKept ==
  ASSUME Typed, Typed', MoneyInv, InTurn(Payers), TurnsTaken, Versions, NEW r \in Slot,
         Acts(r), Writes(r)
  PROVE  Versions'
<1>1. /\ Running(r) /\ lastStart' = lastStart /\ \A q \in Slot \ {r} : req'[q] = req[q]
      /\ \A q \in Slot : Running(q)' => Running(q) /\ req'[q].now = req[q].now /\ req'[q].kind = req[q].kind
  BY DEF Acts, KeepTime, Running, Idle
<1>2. /\ sub.ver \in Nat /\ sub'.ver \in Nat /\ lastStart \in Int /\ lastStart >= -1
      /\ \A q \in Slot : req[q].row.ver \in Nat
  <2>1. lastStart \in Int /\ lastStart >= -1
    BY DEF Typed, ClockTyped, Time, None
  <2>2. sub.ver \in Nat /\ sub'.ver \in Nat
    BY DEF Typed, RowsTyped, Subscription
  <2>3. \A q \in Slot : req[q].row \in Subscription
    BY DEF Typed, ReqTyped, Request
  <2> QED BY <2>1, <2>2, <2>3 DEF Subscription
<1>3. \A q \in Slot : Running(q) => /\ req[q].now \in Nat /\ req[q].now \in Time
                                    /\ req[q].now <= lastStart
  BY Timely
<1>4. \A q \in Slot : req'[q].row.ver \in {req[q].row.ver, sub.ver, 0}
  BY DEF Acts, Idle, NoSub
<1>5. sub'.ver <= Stamp(lastStart) + 1
  <2>1. CASE sub'.ver = sub.ver
    BY <2>1 DEF Versions, Dated
  <2>2. CASE sub'.ver = Stamp(req[r].now)
    BY <1>1, <1>2, <1>3, <2>2 DEF Stamp
  <2>3. CASE At(r, "begin") /\ Is(r, Payers) /\ sub'.ver = Bump(req[r].now, sub.ver)
    BY <2>3, BegunVersion
  <2> QED BY <2>1, <2>2, <2>3 DEF Writes
<1>6. Dated'
  <2>1. ASSUME NEW q \in Slot PROVE req'[q].row.ver <= Stamp(lastStart) + 1
    BY <1>2, <1>4 DEF Versions, Dated, Stamp
  <2> QED BY <1>1, <1>5, <2>1 DEF Dated, Stamp
<1>7. Unwritten'
  <2> SUFFICES ASSUME NEW q \in Slot, Fresh(q)'
               PROVE  /\ sub'.ver # Stamp(req'[q].now)
                      /\ \A a \in Slot : req'[a].row.ver # Stamp(req'[q].now)
    BY DEF Unwritten, Stamp
  <2>1. Running(q)' /\ req'[q].pc \in Unbegun
    BY DEF Fresh, Unbegun, Looking, At, Running
  <2>2. Running(q) /\ req'[q].now = req[q].now /\ req[q].now \in Nat /\ req[q].now \in Time
    BY <1>1, <1>3, <2>1
  <2>3. Fresh(q) /\ (q = r => sub'.ver = sub.ver)
    BY <1>1, <2>1 DEF Writes, Fresh, At, Is
  <2>4. /\ sub.ver # Stamp(req[q].now) /\ 0 # Stamp(req[q].now)
        /\ \A a \in Slot : req[a].row.ver # Stamp(req[q].now)
    BY <2>2, <2>3 DEF Versions, Unwritten, Stamp
  <2>5. \A a \in Slot : req'[a].row.ver # Stamp(req[q].now)
    BY <1>4, <2>4
  <2>6. sub'.ver # Stamp(req[q].now)
    <3>1. CASE sub'.ver = sub.ver
      BY <2>4, <3>1
    <3>2. CASE q # r /\ sub'.ver = Stamp(req[r].now)
      BY <1>1, <2>2, <3>2, Timely
    <3>3. CASE q # r /\ At(r, "begin") /\ Is(r, Payers) /\ sub'.ver = Bump(req[r].now, sub.ver)
      <4>1. Stamp(req[r].now) # Stamp(req[q].now)
        BY <1>1, <2>2, <3>3, Timely
      <4>2. sub'.ver = Stamp(req[r].now) \/ \A t \in Time : sub'.ver # Stamp(t)
        BY <3>3, BegunVersion
      <4> QED BY <2>2, <4>1, <4>2
    <3> QED BY <2>3, <3>1, <3>2, <3>3 DEF Writes
  <2> QED BY <2>2, <2>5, <2>6
<1>8. Stamped'
  <2> SUFFICES ASSUME NEW q \in Slot, req'[q].kind \in Payers, req'[q].pc \in Unbegun
               PROVE  sub'.ver < Stamp(req'[q].now) \/ \E t \in Time : sub'.ver = Stamp(t)
    BY DEF Stamped, Is, Stamp
  <2>1. Running(q)'
    BY DEF Unbegun, Looking, Running
  <2>2. Running(q) /\ req'[q].now = req[q].now /\ Is(q, Payers)
    BY <1>1, <2>1 DEF Is
  <2>3. CASE sub'.ver = Stamp(req[r].now)
    BY <1>1, <1>3, <2>3
  <2>4. CASE sub'.ver = sub.ver /\ (req'[r].pc \in Unbegun => req[r].pc \in Unbegun)
    <3>1. req[q].pc \in Unbegun
      BY <1>1, <2>4
    <3> QED BY <2>2, <2>4, <3>1 DEF Versions, Stamped
  <2>5. CASE At(r, "begin") /\ Is(r, Payers) /\ req'[r].pc \notin Unbegun
    <3>1. q = r
      BY <2>2, <2>5, Alone DEF Payers, AllKinds
    <3> QED BY <2>5, <3>1
  <2> QED BY <2>3, <2>4, <2>5 DEF Writes
<1> QED BY <1>6, <1>7, <1>8 DEF Versions

------------------------------------------------------------------------------
(* What a step does to the rows.                                             *)

(* A longer period covers no less.                                           *)
LEMMA LongerCovers ==
  ASSUME Typed, NEW d \in Int, NEW e \in Int, d <= e, Covers(d)
  PROVE  Covers(e)
<1>1. \A s \in pg : pays[s].end \in Int
  BY DEF Typed, RowsTyped, Payment
<1> QED BY <1>1 DEF Covers

(* The payments stay; so do the seats, and the subscription goes on with no  *)
(* shorter period, or is over.                                               *)
LEMMA SubscriptionSettling ==
  ASSUME Typed, Typed', Settling, Opened', UNCHANGED <<pays, pg>>, mailed \subseteq mailed',
         sub'.seats = sub.seats, sub.end <= sub'.end, Live(sub') => Live(sub),
         Chargeable(sub') => Covers(sub.end),
         sub'.notice /\ (sub'.bill # None \/ (Calm /\ Live(sub'))) =>
           sub'.bill \in mailed' \/ (sub.notice /\ sub'.bill = sub.bill)
  PROVE  Settling'
<1>0. sub.end \in Int /\ sub'.end \in Int
  BY DEF Typed, RowsTyped, Subscription
<1>1. Covered'
  BY <1>0, LongerCovers DEF Covered, Covers, Chargeable
<1>2. Noticed'
  BY Lasting DEF Settling, Noticed
<1>3. Seated'
  BY Lasting DEF Settling, Seated, Matched
<1>4. Unstarted' /\ NoDoubleCharge'
  BY DEF Settling, Unstarted, NoDoubleCharge
<1> QED BY <1>1, <1>2, <1>3, <1>4 DEF Settling

(* Where nothing is open, nothing is to be said of it.                      *)
LEMMA NoneOpened == ASSUME Pending' = {} PROVE Opened'
BY DEF Opened

(* The rows stay; more may have been mailed.                                *)
LEMMA QuietSettling ==
  ASSUME Settling, UNCHANGED <<sub, pays, pg>>, mailed \subseteq mailed' PROVE Settling'
BY Lasting DEF Settling, Opened, Covered, Noticed, Seated, Unstarted, NoDoubleCharge, Pending,
   Covers, Matched, Chargeable

(* An attempt is written down, open or failed at once.                       *)
LEMMA CreatingSettling ==
  ASSUME Typed, MoneyInv, Settling, Pending = {}, NEW t \in Time, pays[t].st = "NOROW",
         \A u \in Time : pays[u].st # "NOROW" => u <= t,
         NEW a \in Payment, pays' = [pays EXCEPT ![t] = a], a.st \in {"PENDING", "FAILED"},
         UNCHANGED <<sub, pg, mailed>>,
         a.type = "INITIAL" => "START" \in Kinds,
         a.st = "PENDING" => /\ Together /\ a.type = "INITIAL" => ~Live(sub)
                             /\ a.type # "INITIAL" => Live(sub) /\ sub.op = t
                             /\ a.type = "RECURRING" =>
                                  Chargeable(sub) /\ sub.end <= a.from /\ sub.end <= a.end
  PROVE  Settling'
<1>0. pays \in [Time -> Payment] /\ pg \subseteq Time /\ t \notin pg
  BY DEF Typed, RowsTyped, MoneyInv, ApprovedNeverLost
<1>1. pays'[t] = a /\ \A u \in Time \ {t} : pays'[u] = pays[u]
  BY <1>0
<1>2. \A s \in pg : pays'[s] = pays[s]
  BY <1>0, <1>1
<1>3. Pending' \subseteq {t}
  BY <1>1 DEF Pending
<1>4. Opened'
  BY <1>1, <1>3, Lasting DEF Opened, Pending, Time, Chargeable
<1>5. Noticed'
  BY Lasting DEF Settling, Noticed
<1>6. Covered' /\ NoDoubleCharge'
  BY <1>2 DEF Settling, Covered, Covers, NoDoubleCharge, Chargeable
<1>7. Seated'
  BY <1>1, Lasting DEF Settling, Seated, Matched
<1>8. Unstarted'
  BY <1>1 DEF Settling, Unstarted
<1> QED BY <1>4, <1>5, <1>6, <1>7, <1>8 DEF Settling

(* The gateway takes the money of the open attempt.                          *)
LEMMA TakingSettling ==
  ASSUME Typed, MoneyInv, Settling, NEW t \in Pending, pg' = pg \cup {t},
         UNCHANGED <<sub, pays, mailed>>
  PROVE  Settling'
<1>0. /\ pays \in [Time -> Payment] /\ pg \subseteq Time /\ t \in Time /\ Time \subseteq Int
      /\ sub.end \in Int /\ \A u \in Time : pays[u].end \in Int /\ pays[u].from \in Int
  <2>1. pays \in [Time -> Payment] /\ pg \subseteq Time /\ sub \in Subscription /\ t \in Time
    BY DEF Typed, RowsTyped, Pending
  <2>2. sub.end \in Int
    BY <2>1 DEF Subscription
  <2>3. \A u \in Time : pays[u].end \in Int /\ pays[u].from \in Int
    BY <2>1 DEF Payment
  <2>4. Time \subseteq Int
    BY DEF Time
  <2> QED BY <2>1, <2>2, <2>3, <2>4
<1>1. Opened' /\ Noticed' /\ Seated' /\ Unstarted'
  BY Lasting DEF Settling, Opened, Noticed, Seated, Matched, Unstarted, Pending, Chargeable
<1>2. Covered'
  BY DEF Settling, Covered, Covers, Chargeable, Pending
<1>3. ASSUME NEW s \in pg, pays[s].type = "RECURRING", pays[t].type = "RECURRING", s < t
      PROVE  \/ pays[s].end <= pays[t].from
             \/ \E i \in pg : pays[i].type = "INITIAL" /\ s < i /\ i < t
  <2>1. pays[s].st # "PENDING" /\ Chargeable(sub) /\ sub.end <= pays[t].from
    BY <1>0, <1>3 DEF MoneyInv, Recorded, Settling, Opened, Pending
  <2>2. CASE pays[s].end <= sub.end
    BY <1>0, <2>1, <2>2
  <2>3. CASE \E i \in pg : pays[i].type = "INITIAL" /\ s < i
    <3>1. PICK i \in pg : pays[i].type = "INITIAL" /\ s < i
      BY <2>3
    <3>2. i <= t /\ i # t
      BY <1>0, <1>3, <3>1 DEF MoneyInv, ApprovedNeverLost, Settling, Opened
    <3> QED BY <1>0, <3>1, <3>2
  <2> QED BY <1>3, <2>1, <2>2, <2>3 DEF Settling, Covered, Covers
<1>4. \A s \in pg : s <= t
  BY <1>0 DEF MoneyInv, ApprovedNeverLost, Settling, Opened
<1>5. NoDoubleCharge'
  <2> SUFFICES ASSUME NEW s \in pg \cup {t}, NEW u \in pg \cup {t}, s < u,
                      pays[s].type = "RECURRING", pays[u].type = "RECURRING"
               PROVE  \/ pays[s].end <= pays[u].from \/ pays[u].end <= pays[s].from
                      \/ \E i \in pg \cup {t} : pays[i].type = "INITIAL" /\ s < i /\ i < u
    BY DEF NoDoubleCharge
  <2>1. s \in pg
    BY <1>0, <1>4
  <2>2. CASE u = t
    BY <1>3, <2>1, <2>2
  <2>3. CASE u # t
    BY <2>1, <2>3 DEF Settling, NoDoubleCharge
  <2> QED BY <2>2, <2>3
<1> QED BY <1>1, <1>2, <1>5 DEF Settling

(* The open attempt is closed: none is open any more.                        *)
LEMMA ClosesPending ==
  ASSUME Typed, MoneyInv, NEW t \in Pending, NEW st \in {"PAID", "FAILED"},
         pays' = Settled(t, st)
  PROVE  /\ Pending' = {} /\ t \in Time
         /\ pays'[t] = [pays[t] EXCEPT !.st = st]
         /\ \A u \in Time \ {t} : pays'[u] = pays[u]
         /\ \A u \in Time : /\ pays'[u].type = pays[u].type /\ pays'[u].seats = pays[u].seats
                            /\ pays'[u].from = pays[u].from /\ pays'[u].end = pays[u].end
                            /\ pays'[u].st = IF u = t THEN st ELSE pays[u].st
<1>1. pays \in [Time -> Payment] /\ t \in Time /\ pays[t].st = "PENDING"
  BY DEF Typed, RowsTyped, Pending
<1>2. pays' = [pays EXCEPT ![t] = [pays[t] EXCEPT !.st = st]]
  BY <1>1 DEF Settled
<1>3. pays'[t] = [pays[t] EXCEPT !.st = st] /\ \A u \in Time \ {t} : pays'[u] = pays[u]
  BY <1>1, <1>2
<1>4. \A u \in Time : /\ pays'[u].type = pays[u].type /\ pays'[u].seats = pays[u].seats
                      /\ pays'[u].from = pays[u].from /\ pays'[u].end = pays[u].end
                      /\ pays'[u].st = IF u = t THEN st ELSE pays[u].st
  BY <1>1, <1>3 DEF Payment
<1>5. Pending' = {}
  BY <1>4 DEF Pending, MoneyInv, Recorded
<1> QED BY <1>1, <1>3, <1>4, <1>5

(* The open attempt, whose money was not taken, is closed as failed.        *)
LEMMA FailingSettling ==
  ASSUME Typed, MoneyInv, Settling, NEW t \in Pending, t \notin pg,
         pays' = Settled(t, "FAILED"), UNCHANGED <<sub, pg, mailed>>
  PROVE  Settling' /\ Pending' = {}
<1>0. pg \subseteq Time
  BY DEF Typed, RowsTyped
<1>1. /\ Pending' = {}
      /\ \A u \in Time : /\ pays'[u].type = pays[u].type /\ pays'[u].seats = pays[u].seats
                         /\ pays'[u].from = pays[u].from /\ pays'[u].end = pays[u].end
                         /\ pays'[u].st = IF u = t THEN "FAILED" ELSE pays[u].st
  BY ClosesPending
<1>2. Opened' /\ Noticed' /\ Unstarted'
  BY <1>1, Lasting, NoneOpened DEF Settling, Noticed, Unstarted
<1>3. Covered' /\ NoDoubleCharge'
  BY <1>0, <1>1 DEF Settling, Covered, Covers, Chargeable, NoDoubleCharge
<1>4. Seated'
  BY <1>1, Lasting DEF Settling, Seated, Matched, Pending
<1> QED BY <1>1, <1>2, <1>3, <1>4 DEF Settling

(* A payment is recorded, and the subscription takes it, unless it is a      *)
(* first payment and one runs already.                                       *)
LEMMA PayingSettling ==
  ASSUME Typed, Typed', MoneyInv, Settling, NEW t \in Pending, t \in pg,
         pays' = Settled(t, "PAID"), UNCHANGED <<pg, mailed>>,
         \/ sub' = sub /\ pays[t].type = "INITIAL"
         \/ /\ sub'.seats = pays[t].seats
            /\ sub'.notice => sub.notice /\ sub'.bill = sub.bill /\ (Live(sub') => Live(sub))
            /\ \/ pays[t].type = "INITIAL"
               \/ pays[t].type = "RECURRING" /\ pays[t].end <= sub'.end
               \/ /\ pays[t].type = "SEAT_ADD" /\ sub'.end = sub.end
                  /\ Chargeable(sub') => Chargeable(sub)
  PROVE  Settling' /\ Pending' = {}
<1>0. /\ pg \subseteq Time /\ sub.end \in Int /\ sub'.end \in Int /\ Time \subseteq Int
      /\ pays \in [Time -> Payment] /\ \A u \in Time : pays[u].end \in Int
  <2>1. pg \subseteq Time /\ sub.end \in Int /\ sub'.end \in Int /\ Time \subseteq Int
    BY DEF Typed, RowsTyped, Subscription, Time
  <2>2. pays \in [Time -> Payment]
    BY DEF Typed, RowsTyped
  <2> QED BY <2>1, <2>2 DEF Payment
<1>1. /\ Pending' = {} /\ t \in Time
      /\ \A u \in Time : /\ pays'[u].type = pays[u].type /\ pays'[u].seats = pays[u].seats
                         /\ pays'[u].from = pays[u].from /\ pays'[u].end = pays[u].end
                         /\ pays'[u].st = IF u = t THEN "PAID" ELSE pays[u].st
  BY ClosesPending
<1>2. Opened' /\ Noticed' /\ Unstarted'
  BY <1>1, Lasting, NoneOpened DEF Settling, Noticed, Unstarted
<1>3. \A u \in Time : pays[u].st # "NOROW" => u <= t
  BY DEF Settling, Opened
<1>4. NoDoubleCharge'
  BY <1>0, <1>1 DEF Settling, NoDoubleCharge
<1>5. Seated'
  <2>1. CASE sub'.seats = pays[t].seats
    <3> SUFFICES ASSUME NEW u \in Time, pays'[u].st = "PAID",
                        \A w \in Time : pays'[w].st = "PAID" => w <= u
                 PROVE  sub'.seats = pays'[u].seats
      BY DEF Seated, Matched
    <3>1. t <= u /\ u <= t
      BY <1>1, <1>3
    <3>2. u = t
      BY <1>0, <1>1, <3>1
    <3> QED BY <1>1, <2>1, <3>2
  <2>2. CASE sub' = sub /\ pays[t].type = "INITIAL"
    BY <1>1, <2>2, Lasting DEF Settling, Seated, Opened, Unstarted
  <2> QED BY <2>1, <2>2
<1>6. \A s \in pg : s <= t
  BY <1>0, <1>3 DEF MoneyInv, ApprovedNeverLost
<1>7. Covered'
  <2> SUFFICES ASSUME Chargeable(sub'), NEW s \in pg, pays[s].type = "RECURRING",
                      ~ \E i \in pg : pays[i].type = "INITIAL" /\ s < i
               PROVE  pays[s].end <= sub'.end
    BY <1>0, <1>1 DEF Covered, Covers, Chargeable
  <2>0. s \in Time /\ t \in Time /\ s \in Int /\ t \in Int /\ s <= t /\ pays[s].end \in Int
    BY <1>0, <1>1, <1>6
  <2>1. s # t => s < t /\ pays[s].st # "PENDING"
    <3>1. s # t => s \notin Pending
      BY <2>0 DEF MoneyInv, Recorded
    <3> QED BY <2>0, <3>1 DEF Pending
  <2>2. pays[t].type # "INITIAL"
    BY <2>1
  <2>3. s # t /\ Chargeable(sub) => pays[s].end <= sub.end
    BY <2>1 DEF Settling, Covered, Covers
  <2>4. CASE pays[t].type = "RECURRING" /\ pays[t].end <= sub'.end
    <3>1. Chargeable(sub) /\ sub.end <= pays[t].end
      BY <2>4 DEF Settling, Opened
    <3>2. pays[t].end \in Int /\ sub.end \in Int /\ sub'.end \in Int
      BY <1>0, <1>1
    <3> QED BY <2>0, <2>3, <2>4, <3>1, <3>2
  <2>5. CASE /\ pays[t].type = "SEAT_ADD" /\ sub'.end = sub.end
             /\ Chargeable(sub') => Chargeable(sub)
    BY <2>3, <2>5
  <2> QED BY <2>2, <2>4, <2>5
<1> QED BY <1>1, <1>2, <1>4, <1>5, <1>7 DEF Settling

------------------------------------------------------------------------------
(* What a step leaves of what the other requests rely on.                    *)

(* Who is neither a payer nor at work on a manual plan only looks, asserts   *)
(* and updates.                                                              *)
LEMMA OutsiderPlaced ==
  ASSUME Typed, NEW q \in Slot, Placed(q), Arrived, ~Is(q, Payers)
  PROVE  /\ req[q].pc \in {"idle", "find", "check", "update", "process"}
         /\ At(q, "process") => Is(q, {"MANUAL"})
<1>1. req[q].pc \in Control
  BY DEF Typed, ReqTyped, Request
<1> QED BY <1>1 DEF Placed, Control, At, Is, Payers, Charging, Looking

(* A payer leaves what all the others know.                                 *)
LEMMA PayerLeaves ==
  ASSUME Typed, MoneyInv, SerialInv, InTurn(Payers), NEW r \in Slot, Is(r, Payers), Acts(r),
         \A t \in Pending' : t \in Pending \/ t = req[r].now,
         NEW q \in Slot, q # r
  PROVE  Knows(q)'
<1>1. req'[q] = req[q] /\ Knows(q) /\ Running(r) /\ Arrived /\ TurnsTaken
  BY DEF SerialInv, Acts
<1>2. ~Is(q, Payers)
  BY <1>1, Alone DEF Payers, AllKinds
<1>3. (Together \/ Calm) => ~Is(q, Revivers)
  <2>1. ASSUME Together, Is(q, Revivers) PROVE FALSE
    <3>1. Payers \cup Revivers \in SUBSET AllKinds
      BY DEF Payers, Revivers, AllKinds
    <3> QED BY <1>1, <2>1, <3>1, Alone DEF Together, Is
  <2>2. ASSUME Calm, Is(q, Revivers) PROVE FALSE
    <3>1. /\ AllKinds \ {"MANUAL"} \in SUBSET AllKinds
          /\ Is(q, AllKinds \ {"MANUAL"}) /\ Is(r, AllKinds \ {"MANUAL"})
      BY <2>2 DEF Payers, Revivers, AllKinds, Is
    <3> QED BY <1>1, <2>2, <3>1, Alone DEF Calm
  <2> QED BY <2>1, <2>2
<1>4. /\ req[q].pc \in {"idle", "find", "check", "update", "process"}
      /\ At(q, "process") => Is(q, {"MANUAL"})
  BY <1>1, <1>2, OutsiderPlaced DEF Knows
<1>5. ASSUME At(q, "update"), NEW t \in Pending' PROVE req[q].now <= t + OpTimeout
  <2>1. Running(q)
    BY <1>5 DEF Running, At
  <2> QED BY <1>1, <1>5, <2>1, Timely DEF Knows, Cleared
<1>6. Placed(q)'
  BY <1>1 DEF Knows, Placed, At, Is
<1>7. Cleared(q)'
  BY <1>1, <1>2, <1>3, <1>4, <1>5, Lasting DEF Cleared, At, Is, Looking, Payers
<1>8. ReadTrue(q)'
  BY <1>1, <1>2, <1>3, <1>4, Lasting DEF ReadTrue, At, Is, Looking, Payers
<1>9. Paying(q)'
  BY <1>1, <1>2, <1>4 DEF Paying, At, Is
<1> QED BY <1>6, <1>7, <1>8, <1>9 DEF Knows

(* So a payer need only keep the rows, and its own knowledge.               *)
LEMMA PayerKept ==
  ASSUME Typed, Typed', MoneyInv, SerialInv, InTurn(Payers), NEW r \in Slot, Is(r, Payers),
         Acts(r), Writes(r), Settling', Knows(r)',
         \A t \in Pending' : t \in Pending \/ t = req[r].now
  PROVE  SerialInv'
<1>1. Arrived /\ TurnsTaken /\ Versions
  BY DEF SerialInv
<1> QED BY <1>1, TurnsKept, VersionsKept, PayerLeaves DEF SerialInv

(* What a request that is no payer does: at its update it writes a live      *)
(* status over the row, or ends the subscription, unless a token is held.    *)
Outside(r) ==
  /\ UNCHANGED <<pays, pg, mailed>>
  /\ \/ UNCHANGED sub
     \/ /\ At(r, "update") /\ TokenFree(sub, req[r].now)
        /\ sub'.ver = Stamp(req[r].now)
        /\ sub'.seats = sub.seats /\ sub'.end = sub.end /\ sub'.notice = sub.notice
        /\ \/ /\ Is(r, Revivers) /\ sub'.st \in {"ACTIVE", "CANCEL_SCHEDULED"}
              /\ sub'.bill = sub.bill /\ sub'.op = sub.op
           \/ sub'.st = "CANCELED" /\ sub'.bill = None /\ sub'.op = None

(* Whatever such a request does, the rows stay in order.                    *)
LEMMA OutsiderSettling ==
  ASSUME Typed, Typed', MoneyInv, SerialInv, NEW r \in Slot, Running(r), Outside(r)
  PROVE  Settling'
<1>1. CASE UNCHANGED sub
  BY <1>1, QuietSettling DEF SerialInv, Outside
<1>2. CASE ~UNCHANGED sub
  <2>1. /\ Settling /\ Knows(r) /\ UNCHANGED <<pays, pg, mailed>> /\ Pending' = Pending
        /\ At(r, "update") /\ TokenFree(sub, req[r].now)
        /\ sub'.seats = sub.seats /\ sub'.end = sub.end /\ sub'.notice = sub.notice
    BY <1>2 DEF SerialInv, Outside, Pending
  <2>2. req[r].now \in Nat /\ \A t \in Pending : t \in Nat /\ req[r].now <= t + OpTimeout
    BY <2>1, Timely DEF Knows, Cleared, Pending, Time
  <2>3. \A t \in Pending : pays[t].type = "INITIAL"
    <3>1. \A t \in Pending : sub.op # t
      BY <2>1, <2>2, TimeoutAssumption DEF TokenFree, None
    <3> QED BY <2>1, <3>1 DEF Settling, Opened
  <2>4. CASE /\ Is(r, Revivers) /\ sub'.st \in {"ACTIVE", "CANCEL_SCHEDULED"}
             /\ sub'.bill = sub.bill /\ sub'.op = sub.op
    <3>1. (Together => Pending = {} /\ Matched) /\ (Calm => Live(sub))
      BY <2>1, <2>4 DEF Knows, Cleared, ReadTrue, At
    <3>2. Opened'
      BY <2>1, <2>3, <3>1, Lasting DEF Settling, Opened
    <3>3. Covered'
      BY <2>1, <2>4 DEF Settling, Covered, Covers, Chargeable
    <3>4. Noticed'
      BY <2>1, <2>4, <3>1, Lasting DEF Settling, Noticed
    <3>5. Seated'
      BY <2>1, <3>1, Lasting DEF Settling, Seated, Matched
    <3> QED BY <2>1, <3>2, <3>3, <3>4, <3>5 DEF Settling, Unstarted, NoDoubleCharge
  <2>5. CASE sub'.st = "CANCELED" /\ sub'.bill = None /\ sub'.op = None
    <3>1. ~Live(sub') /\ ~Chargeable(sub')
      BY <2>5 DEF Live, LiveStatus, Chargeable
    <3>2. Opened'
      BY <2>1, <2>3, <3>1 DEF Settling, Opened
    <3>3. Covered' /\ Noticed'
      BY <2>5, <3>1 DEF Covered, Noticed
    <3>4. Seated'
      BY <2>1, <3>1 DEF Settling, Seated, Matched
    <3> QED BY <2>1, <3>2, <3>3, <3>4 DEF Settling, Unstarted, NoDoubleCharge
  <2> QED BY <1>2, <2>4, <2>5 DEF Outside
<1> QED BY <1>1, <1>2

(* It leaves what the others know: the version tells a payer of it.         *)
LEMMA OutsiderLeaves ==
  ASSUME Typed, Typed', MoneyInv, SerialInv, NEW r \in Slot, ~Is(r, Payers), Acts(r), Outside(r),
         NEW q \in Slot, q # r
  PROVE  Knows(q)'
<1>1. /\ req'[q] = req[q] /\ Knows(q) /\ Knows(r) /\ Running(r) /\ Arrived /\ TurnsTaken
      /\ UNCHANGED <<pays, pg, mailed>> /\ Pending' = Pending
  BY DEF SerialInv, Acts, Outside, Pending
<1>2. Placed(q)' /\ Cleared(q)'
  BY <1>1, Lasting DEF Knows, Placed, Cleared, At, Is
<1>3. CASE UNCHANGED sub
  <2>1. ReadTrue(q)'
    BY <1>1, <1>3, Lasting DEF Knows, ReadTrue, At, Is, Live, Chargeable, Covers, Matched
  <2>2. Paying(q)'
    BY <1>1, <1>3, Lasting DEF Knows, Paying, At, Is, Live, Chargeable
  <2> QED BY <1>2, <2>1, <2>2 DEF Knows
<1>4. CASE ~UNCHANGED sub
  <2>1. /\ At(r, "update") /\ TokenFree(sub, req[r].now) /\ sub'.ver = Stamp(req[r].now)
        /\ sub'.seats = sub.seats /\ sub'.end = sub.end
        /\ \/ /\ Is(r, Revivers) /\ sub'.st \in {"ACTIVE", "CANCEL_SCHEDULED"}
              /\ sub'.bill = sub.bill /\ sub'.op = sub.op
           \/ sub'.st = "CANCELED" /\ sub'.bill = None /\ sub'.op = None
    BY <1>4 DEF Outside
  <2>2. Is(r, AllKinds \ {"MANUAL"})
    BY <1>1, <2>1, KindsAssumption DEF Knows, Placed, Arrived, Is, At
  <2>3. ~ (Calm /\ Is(q, AllKinds \ {"MANUAL"}))
    BY <1>1, <2>2, Alone DEF Calm
  <2>4. Together /\ Is(r, Revivers) => ~Is(q, Payers)
    <3>1. Payers \cup Revivers \in SUBSET AllKinds
      BY DEF Payers, Revivers, AllKinds
    <3> QED BY <1>1, <3>1, Alone DEF Together, Is
  <2>5. req[q].row.ver # Stamp(req[r].now)
    BY <2>1 DEF SerialInv, Versions, Unwritten, Fresh, At
  <2>6. ReadTrue(q)'
    <3>1. /\ ~ (Calm /\ Is(q, Revivers))
          /\ At(q, "notice") \/ (At(q, "process") /\ Is(q, {"DAILY"})) => ~Calm
      BY <1>1, <2>3 DEF Knows, Placed, At, Is, Revivers, AllKinds
    <3>2. /\ req[q].pc \in {"resolve", "begin"} \cup Looking /\ ~Is(q, {"START", "SWEEP"}) =>
               /\ Live(req[q].row) /\ req[q].row.ver # sub'.ver
               /\ Is(q, Charging) => Chargeable(req[q].row)
      BY <1>1, <2>1, <2>5 DEF Knows, ReadTrue
    <3>3. Matched' <=> Matched
      BY <1>1, <2>1 DEF Matched
    <3>4. Covers(sub.end) => Covers(sub.end)'
      BY <1>1, <2>1 DEF Covers
    <3>5. sub'.bill = sub.bill \/ sub'.bill = None
      BY <2>1
    <3> QED BY <1>1, <2>1, <3>1, <3>2, <3>3, <3>4, <3>5, Lasting
            DEF Knows, ReadTrue, At, Is, Live, Chargeable
  <2>7. Paying(q)'
    <3>1. ~(Running(q) /\ sub.op = req[q].now)
      <4>1. ASSUME Running(q), sub.op = req[q].now PROVE FALSE
        <5>1. /\ req[q].now \in Nat /\ req[r].now \in Nat
              /\ req[r].now <= req[q].now + OpTimeout
          BY <1>1, <4>1, Timely
        <5> QED BY <2>1, <4>1, <5>1, TimeoutAssumption DEF TokenFree, None
      <4> QED BY <4>1
    <3>2. ~ (/\ req[q].pc \in {"create", "charge", "apply", "declined", "failSub", "release", "expire"}
             /\ ~Is(q, {"START"}))
      BY <1>1, <3>1 DEF Knows, Paying, Running
    <3>3. Together /\ Is(q, {"START"}) => ~Live(sub')
      BY <2>1, <2>4 DEF Is, Payers, Live, LiveStatus
    <3> QED BY <1>1, <3>2, <3>3, Lasting DEF Knows, Paying, At, Is
  <2> QED BY <1>2, <2>6, <2>7 DEF Knows
<1> QED BY <1>3, <1>4

(* So it need only keep its own knowledge.                                  *)
LEMMA OutsiderKept ==
  ASSUME Typed, Typed', MoneyInv, SerialInv, InTurn(Payers), NEW r \in Slot, ~Is(r, Payers),
         Acts(r), Writes(r), Outside(r), Knows(r)'
  PROVE  SerialInv'
<1>1. Arrived /\ TurnsTaken /\ Versions /\ Running(r)
  BY DEF SerialInv, Acts
<1> QED BY <1>1, TurnsKept, VersionsKept, OutsiderSettling, OutsiderLeaves DEF SerialInv

(* A step that only reads.                                                   *)
LEMMA ReaderKept ==
  ASSUME Typed, Typed', MoneyInv, SerialInv, InTurn(Payers), NEW r \in Slot,
         Acts(r), Writes(r), UNCHANGED <<sub, pays, pg, mailed>>, Knows(r)'
  PROVE  SerialInv'
<1>1. Settling' /\ Outside(r) /\ Pending' = Pending
  BY QuietSettling DEF SerialInv, Outside, Pending
<1> QED BY <1>1, PayerKept, OutsiderKept

------------------------------------------------------------------------------
(* How the request at work goes on.                                          *)

(* An idle request relies on nothing.                                       *)
LEMMA FinishKnows ==
  ASSUME NEW r \in Slot, req'[r] = Idle
  PROVE  Knows(r)'
BY DEF Idle, Knows, Placed, Cleared, ReadTrue, Paying, Looking, At, Is, Payers

(* It ends without a trace.                                                  *)
LEMMA FinishKept ==
  ASSUME Typed, Typed', MoneyInv, SerialInv, InTurn(Payers), NEW r \in Slot, Running(r),
         KeepTime, Finish(r), UNCHANGED <<sub, pays, pg, mailed>>
  PROVE  SerialInv'
<1>1. Acts(r) /\ req'[r] = Idle
  BY FinishActs
<1>2. Writes(r) /\ Knows(r)'
  BY <1>1, FinishKnows DEF Writes, Fresh, Unbegun, Looking, At, Idle
<1> QED BY <1>1, <1>2, ReaderKept

(* It reads, and goes on at p.                                               *)
LEMMA ReadsKept ==
  ASSUME Typed, Typed', MoneyInv, SerialInv, InTurn(Payers), NEW r \in Slot, Running(r),
         KeepTime, UNCHANGED <<sub, pays, pg, mailed>>, NEW p, p # "idle",
         NEW row \in {req[r].row, sub}, GoesOn(r, p, row),
         Fresh(r)' => Fresh(r), p \in Unbegun => req[r].pc \in Unbegun, Knows(r)'
  PROVE  SerialInv'
<1>1. Acts(r)
  BY GoesOnActs
<1>2. Writes(r)
  BY DEF Writes, GoesOn
<1> QED BY <1>1, <1>2, ReaderKept

(* Nothing is open any more: a first payment looks for a subscription, a     *)
(* charge begins, unless the row has changed under it.                       *)
LEMMA ResolvedGoesOn ==
  ASSUME Typed, NEW r \in Slot, Resolved(r), Placed(r), At(r, "resolve") \/ req[r].pc \in Looking
  PROVE  \/ Finish(r)
         \/ Is(r, {"START"}) /\ GoesOn(r, "find", req[r].row)
         \/ Is(r, Charging \cup {"SEAT"}) /\ GoesOn(r, "begin", req[r].row)
<1>1. Is(r, Charging \cup {"START", "SEAT", "SWEEP"})
  BY DEF Placed, At
<1>2. CASE AfterResolve(r) = "idle"
  BY <1>2 DEF Resolved
<1>3. CASE AfterResolve(r) # "idle"
  <2>1. GoesOn(r, AfterResolve(r), req[r].row)
    BY <1>3, GotoGoesOn DEF Resolved
  <2> QED BY <1>1, <1>3, <2>1 DEF AfterResolve, Is, Charging
<1> QED BY <1>2, <1>3

(* Then it may rely on what it has read, unless the recovery has written it.*)
LEMMA ResolvedKnows ==
  ASSUME Typed, Typed', MoneyInv, SerialInv, NEW r \in Slot, KeepTime, Resolved(r), Pending' = {},
         At(r, "resolve") \/ req[r].pc \in Looking,
         \A u \in Time : pays'[u].st # "NOROW" <=> pays[u].st # "NOROW",
         sub' = sub \/ (sub'.ver = Stamp(req[r].now) /\ ~Is(r, {"CARD"}))
  PROVE  /\ Acts(r) /\ Knows(r)' /\ ~Fresh(r)'
         /\ req'[r].pc \in Unbegun => req[r].pc \in Unbegun
<1>1. Running(r) /\ Knows(r) /\ Typed
  BY DEF SerialInv, Running, At, Looking
<1>2. CASE Finish(r)
  BY <1>1, <1>2, FinishActs, FinishKnows DEF Fresh, Idle, Looking, At, Unbegun
<1>3. CASE Is(r, {"START"}) /\ GoesOn(r, "find", req[r].row)
  <2>1. Acts(r)
    BY <1>1, <1>3, GoesOnActs
  <2>2. Placed(r)' /\ Cleared(r)' /\ ReadTrue(r)'
    BY <1>3 DEF GoesOn, Placed, Cleared, ReadTrue, At, Is, Looking
  <2>3. Paying(r)'
    BY <1>1, <1>3 DEF GoesOn, Knows, Paying, At, Is
  <2>4. ~Fresh(r)' /\ req[r].pc \in Unbegun
    BY <1>3 DEF GoesOn, Fresh, At, Is, Looking, Unbegun
  <2> QED BY <2>1, <2>2, <2>3, <2>4 DEF Knows
<1>4. CASE Is(r, Charging \cup {"SEAT"}) /\ GoesOn(r, "begin", req[r].row)
  <2>1. Acts(r)
    BY <1>1, <1>4, GoesOnActs
  <2>2. Placed(r)' /\ Cleared(r)'
    BY <1>4 DEF GoesOn, Placed, Cleared, At, Is, Looking
  <2>3. Paying(r)'
    BY <1>1, <1>4 DEF GoesOn, Knows, Paying, At, Is
  <2>4. /\ Live(req[r].row) /\ (req[r].row = sub \/ req[r].row.ver # sub.ver)
        /\ Is(r, Charging) => Chargeable(req[r].row)
    BY <1>1, <1>4 DEF Knows, ReadTrue, At, Is, Charging
  <2>5. sub'.ver = Stamp(req[r].now) /\ ~Is(r, {"CARD"}) => req[r].row.ver # sub'.ver
    BY DEF SerialInv, Versions, Unwritten, Fresh
  <2>6. ReadTrue(r)'
    BY <1>4, <2>4, <2>5 DEF GoesOn, ReadTrue, At, Is, Looking, Live, Chargeable
  <2>7. ~Fresh(r)' /\ req[r].pc \in Unbegun
    BY <1>4 DEF GoesOn, Fresh, At, Is, Looking, Unbegun
  <2> QED BY <2>1, <2>2, <2>3, <2>6, <2>7 DEF Knows
<1> QED BY <1>1, <1>2, <1>3, <1>4, ResolvedGoesOn DEF Knows

------------------------------------------------------------------------------
(* The actions, by what they do.                                             *)

(* It reads, or calls the gateway without effect; the rows stay.             *)
LEMMA LookingSerial ==
  ASSUME Typed, Typed', MoneyInv, SerialInv, InTurn(Payers), NEW r \in Slot,
         FindPending(r) \/ LookupCharge(r) \/ LookupUnknown(r) \/ ReadsOn(r)
  PROVE  SerialInv'
<1>1. /\ Knows(r) /\ Running(r) /\ KeepTime
      /\ UNCHANGED <<sub, pays, pg, mailed>> /\ Pending' = Pending
  BY ReadsOnKeeps
  DEF SerialInv, FindPending, LookupCharge, LookupUnknown, At, Running, KeepRows, Pending
<1>2. CASE Finish(r)
  BY <1>1, <1>2, FinishKept
<1>3. CASE Pending = {} /\ Resolved(r) /\ At(r, "resolve")
  <2>1. /\ Acts(r) /\ Knows(r)' /\ ~Fresh(r)'
        /\ req'[r].pc \in Unbegun => req[r].pc \in Unbegun
    BY <1>1, <1>3, ResolvedKnows
  <2> QED BY <1>1, <2>1, ReaderKept DEF Writes
<1>4. ASSUME NEW p \in Looking, GoesOn(r, p, req[r].row), req'[r].tgt \in Pending,
             At(r, "resolve") \/ req[r].pc \in Looking
      PROVE  SerialInv'
  <2>1. Placed(r)' /\ Cleared(r)'
    BY <1>1, <1>4 DEF GoesOn, Knows, Placed, Cleared, At, Is, Looking
  <2>2. ReadTrue(r)' /\ Paying(r)'
    BY <1>1, <1>4 DEF GoesOn, Knows, ReadTrue, Paying, At, Is, Looking
  <2>3. /\ Fresh(r)' => Fresh(r)
        /\ req[r].pc \in Unbegun /\ p # "idle"
    BY <1>4 DEF GoesOn, Fresh, At, Is, Looking, Unbegun
  <2> QED BY <1>1, <1>4, <2>1, <2>2, <2>3, ReadsKept DEF Knows
<1>5. ASSUME NEW t \in Pending, At(r, "resolve"),
             req' = [req EXCEPT ![r].pc = "lookup", ![r].tgt = t]
      PROVE  SerialInv'
  <2>1. GoesOn(r, "lookup", req[r].row) /\ req'[r].tgt = t
    BY <1>5, GotoGoesOn DEF Typed, ReqTyped, Request
  <2> QED BY <1>4, <1>5, <2>1 DEF Looking
<1>6. ASSUME NEW p \in Looking, req[r].pc \in Looking, p # "idle", Goto(r, p) PROVE SerialInv'
  <2>1. GoesOn(r, p, req[r].row) /\ req'[r].tgt = req[r].tgt
    BY <1>6, GotoGoesOn DEF Goto, Typed, ReqTyped, Request
  <2>2. req[r].tgt \in Pending
    BY <1>1, <1>6 DEF Knows, ReadTrue
  <2> QED BY <1>4, <1>6, <2>1, <2>2
<1>7. CASE ReadsOn(r)
  BY <1>6, <1>7, ReadsOnKeeps DEF ReadsOn, Looking, Recovery
<1>8. CASE LookupCharge(r)
  BY <1>6, <1>8 DEF LookupCharge, Looking, At
<1> QED BY <1>2, <1>3, <1>5, <1>7, <1>8 DEF FindPending, LookupUnknown

(* It reads the row, and decides what to do.                                *)
LEMMA FindSerial ==
  ASSUME Typed, Typed', MoneyInv, SerialInv, InTurn(Payers), NEW r \in Slot, FindSubscription(r)
  PROVE  SerialInv'
<1>1. /\ Settling /\ Knows(r) /\ Running(r) /\ KeepTime /\ At(r, "find")
      /\ UNCHANGED <<sub, pays, pg, mailed>> /\ Pending' = Pending
  BY DEF SerialInv, FindSubscription, At, Running, KeepRows, Pending
<1>2. CASE Finish(r)
  BY <1>1, <1>2, FinishKept
<1>3. CASE AfterFind(r) # "idle" /\ req' = [req EXCEPT ![r].pc = AfterFind(r), ![r].row = sub]
  <2>1. GoesOn(r, AfterFind(r), sub)
    BY <1>3, ReadGoesOn
  <2>2. ASSUME Knows(r)', Fresh(r)' => Fresh(r) PROVE SerialInv'
    BY <1>1, <1>3, <2>1, <2>2, ReadsKept DEF Unbegun, At
  <2>3. CASE Is(r, {"START"})
    <3>1. AfterFind(r) = "claimRead" /\ ~Live(sub)
      BY <1>3, <2>3 DEF AfterFind, Is
    <3>2. Pending = {}
      BY <1>1, <2>3 DEF Knows, Cleared
    <3>3. Placed(r)' /\ Cleared(r)' /\ ReadTrue(r)'
      BY <1>1, <2>1, <2>3, <3>1, <3>2 DEF GoesOn, Placed, Cleared, ReadTrue, At, Is, Looking
    <3>4. Paying(r)'
      BY <1>1, <2>1, <2>3, <3>1 DEF GoesOn, Knows, Paying, At, Is, Live
    <3>5. ~Fresh(r)'
      BY <2>1, <3>1 DEF GoesOn, Fresh, At, Looking
    <3> QED BY <2>2, <3>3, <3>4, <3>5 DEF Knows
  <2>4. CASE ~Is(r, {"START"})
    <3> DEFINE p == AfterFind(r)
               k == req[r].kind
    <3>1. /\ p \in {"refind", "check", "resolve", "notice", "process"}
          /\ p = "refind" => k = "SEAT"
          /\ p = "process" => k = "MANUAL"
          /\ p = "notice" => k = "DAILY"
          /\ p = "check" => k # "MANUAL"
          /\ p = "check" /\ k = "DEFER" => Chargeable(sub)
          /\ p = "check" /\ k \in Revivers => Live(sub)
          /\ p = "resolve" => k \in {"DAILY", "RETRY"} /\ Live(sub) /\ Chargeable(sub)
      <4>1. CASE k \in {"SEAT"}
        <5>1. p = SeatTurn(sub, req[r].goal) /\ k = "SEAT"
          BY <1>3, <4>1 DEF AfterFind, Is
        <5>2. p \in {"refind", "check"}
          BY <1>3, <5>1 DEF SeatTurn
        <5> HIDE DEF p, k
        <5> QED BY <5>1, <5>2 DEF Revivers
      <4>2. CASE k \in {"DAILY"}
        <5>1. p = DailyTurn(sub, req[r].now) /\ k = "DAILY"
          BY <1>3, <4>2 DEF AfterFind, Is
        <5>2. /\ p \in {"notice", "check", "resolve"}
              /\ p = "resolve" => Live(sub) /\ Chargeable(sub)
          BY <1>3, <5>1 DEF DailyTurn, Due, NoticeDue, Live, LiveStatus, Chargeable
        <5> HIDE DEF p, k
        <5> QED BY <5>1, <5>2 DEF Revivers
      <4>3. CASE k \in {"CARD", "TERMINATE", "CANCEL", "UNCANCEL"}
        BY <1>3, <4>3 DEF AfterFind, Is, MayUncancel, Live, LiveStatus, Revivers
      <4>4. CASE k \in {"DEFER", "RETRY", "MANUAL"}
        BY <1>3, <4>4 DEF AfterFind, Is, MayDefer, Live, LiveStatus, Chargeable, Revivers
      <4> QED BY <1>3, <2>4, <4>1, <4>2, <4>3, <4>4 DEF AfterFind, Is
    <3>2. /\ req'[r].pc = p /\ req'[r].kind = k /\ req'[r].now = req[r].now /\ req'[r].row = sub
      BY <2>1 DEF GoesOn
    <3> HIDE DEF p, k
    <3>3. Placed(r)' /\ Cleared(r)'
      BY <3>1, <3>2 DEF Placed, Cleared, At, Is, Looking, Charging, Payers, Revivers
    <3>4. /\ p = "check" /\ k = "DEFER" => Covers(sub.end)
          /\ p = "check" /\ k \in Revivers => (Together => Matched) /\ Live(sub)
      BY <1>1, <3>1 DEF Settling, Covered, Seated
    <3>5. (Matched' <=> Matched) /\ (Covers(sub.end) => Covers(sub.end)')
      BY <1>1 DEF Matched, Covers
    <3>6. ReadTrue(r)'
      BY <1>1, <3>1, <3>2, <3>4, <3>5, Lasting
         DEF ReadTrue, At, Is, Looking, Live, Chargeable, Charging, Revivers
    <3>7. Paying(r)'
      BY <1>1, <3>1, <3>2 DEF k, Knows, Paying, At, Is
    <3>8. Fresh(r)' => Fresh(r)
      BY <1>1, <2>4, <3>1, <3>2 DEF Fresh, At, Is, Looking
    <3> QED BY <2>2, <3>3, <3>6, <3>7, <3>8 DEF Knows
  <2> QED BY <2>3, <2>4
<1> QED BY <1>2, <1>3 DEF FindSubscription

(* It reads the row again, a member's version, or nothing open.              *)
LEMMA ReadingSerial ==
  ASSUME Typed, Typed', MoneyInv, SerialInv, InTurn(Payers), NEW r \in Slot,
         \/ RequireActiveForSeatAdd(r) \/ ReadMemberVersion(r) \/ AssertNoPendingCharge(r)
         \/ RereadUpdated(r) \/ Refetch(r)
  PROVE  SerialInv'
<1>1. /\ Settling /\ Knows(r) /\ Running(r) /\ KeepTime
      /\ UNCHANGED <<sub, pays, pg, mailed>> /\ Pending' = Pending
  BY DEF SerialInv, RequireActiveForSeatAdd, ReadMemberVersion, AssertNoPendingCharge,
     RereadUpdated, Refetch, At, Running, KeepRows, Pending
<1>2. CASE Finish(r)
  BY <1>1, <1>2, FinishKept
<1>3. CASE /\ At(r, "refind") /\ sub.st = "ACTIVE"
           /\ req' = [req EXCEPT ![r].pc = "resolve", ![r].row = sub]
  <2>1. GoesOn(r, "resolve", sub)
    BY <1>3, ReadGoesOn
  <2>2. Is(r, {"SEAT"}) /\ Live(sub)
    BY <1>1, <1>3 DEF Knows, Placed, Live, LiveStatus
  <2>3. Placed(r)' /\ Cleared(r)'
    BY <1>1, <2>1, <2>2 DEF GoesOn, Placed, Cleared, At, Is, Looking, Payers
  <2>4. ReadTrue(r)' /\ Paying(r)'
    BY <1>1, <2>1, <2>2 DEF GoesOn, Knows, ReadTrue, Paying, At, Is, Looking, Live, Charging, Payers
  <2>5. /\ Fresh(r)' => Fresh(r)
        /\ req[r].pc \in Unbegun
    BY <1>3 DEF Fresh, At, Unbegun
  <2> QED BY <1>1, <2>1, <2>3, <2>4, <2>5, ReadsKept DEF Knows
<1>4. CASE At(r, "claimRead") /\ req' = [req EXCEPT ![r].pc = "claim", ![r].base = mem.ver]
  <2>1. GoesOn(r, "claim", req[r].row)
    BY <1>4, GotoGoesOn
  <2>2. Placed(r)' /\ Cleared(r)'
    BY <1>1, <1>4, <2>1 DEF GoesOn, Knows, Placed, Cleared, At, Is, Looking, Payers
  <2>3. ReadTrue(r)' /\ Paying(r)'
    BY <1>1, <1>4, <2>1, Lasting DEF GoesOn, Knows, ReadTrue, Paying, At, Is, Looking, Live
  <2>4. ~Fresh(r)' /\ "claim" \notin Unbegun
    BY <2>1 DEF GoesOn, Fresh, At, Unbegun, Looking
  <2> QED BY <1>1, <2>1, <2>2, <2>3, <2>4, ReadsKept DEF Knows
<1>5. CASE /\ At(r, "check") /\ Pending = {}
           /\ req' = [req EXCEPT ![r].pc = "update",
                                  ![r].row = IF Is(r, {"WITHDRAW"}) THEN sub ELSE @]
  <2> DEFINE row == IF Is(r, {"WITHDRAW"}) THEN sub ELSE req[r].row
  <2>1. GoesOn(r, "update", row)
    BY <1>5, ReadGoesOn
  <2>2. Placed(r)' /\ Cleared(r)'
    BY <1>1, <1>5, <2>1 DEF GoesOn, Knows, Placed, Cleared, At, Is, Looking, Payers
  <2>3. (Matched' <=> Matched) /\ (Covers(sub.end) => Covers(sub.end)')
    BY <1>1 DEF Matched, Covers
  <2>4. ReadTrue(r)'
    BY <1>1, <1>5, <2>1, <2>3, Lasting
       DEF GoesOn, Knows, ReadTrue, At, Is, Looking, Live, Revivers
  <2>5. Paying(r)'
    BY <1>1, <1>5, <2>1 DEF GoesOn, Knows, Paying, At, Is
  <2>6. /\ Fresh(r)' => Fresh(r)
        /\ req[r].pc \in Unbegun
    BY <1>5 DEF Fresh, At, Unbegun
  <2> QED BY <1>1, <2>1, <2>2, <2>4, <2>5, <2>6, ReadsKept DEF Knows
<1>6. CASE /\ At(r, "reread") /\ sub.st = "PAST_DUE"
           /\ req' = [req EXCEPT ![r].pc = "resolve", ![r].row = sub]
  <2>1. GoesOn(r, "resolve", sub)
    BY <1>6, ReadGoesOn
  <2>2. Is(r, {"CARD"}) /\ Live(sub) /\ Chargeable(sub) /\ Pending = {}
    BY <1>1, <1>6 DEF Knows, Placed, Cleared, Live, LiveStatus, Chargeable, At
  <2>3. Placed(r)' /\ Cleared(r)'
    BY <1>1, <2>1, <2>2 DEF GoesOn, Placed, Cleared, At, Is, Looking, Charging
  <2>4. ReadTrue(r)' /\ Paying(r)'
    BY <1>1, <2>1, <2>2 DEF GoesOn, Knows, ReadTrue, Paying, At, Is, Looking, Live, Chargeable, Payers
  <2>5. ~Fresh(r)' /\ req[r].pc \in Unbegun
    BY <1>6, <2>1, <2>2 DEF GoesOn, Fresh, At, Is, Unbegun, Looking
  <2> QED BY <1>1, <2>1, <2>3, <2>4, <2>5, ReadsKept DEF Knows
<1>7. CASE /\ At(r, "refetch") /\ sub.st = "ACTIVE"
           /\ req' = [req EXCEPT ![r].pc = "notice", ![r].row = sub]
  <2>1. GoesOn(r, "notice", sub)
    BY <1>7, ReadGoesOn
  <2>2. Placed(r)' /\ Cleared(r)'
    BY <1>1, <1>7, <2>1 DEF GoesOn, Knows, Placed, Cleared, At, Is, Looking
  <2>3. ReadTrue(r)' /\ Paying(r)'
    BY <1>1, <1>7, <2>1 DEF GoesOn, Knows, ReadTrue, Paying, At, Is, Looking
  <2>4. ~Fresh(r)' /\ "notice" \notin Unbegun
    BY <2>1 DEF GoesOn, Fresh, At, Unbegun, Looking
  <2> QED BY <1>1, <2>1, <2>2, <2>3, <2>4, ReadsKept DEF Knows
<1> QED BY <1>2, <1>3, <1>4, <1>5, <1>6, <1>7 DEF RequireActiveForSeatAdd, ReadMemberVersion,
           AssertNoPendingCharge, RereadUpdated, Refetch, NoticeDue

(* The member's row is claimed, or set back; the payments stay.              *)
LEMMA MemberSerial ==
  ASSUME Typed, Typed', MoneyInv, SerialInv, InTurn(Payers), NEW r \in Slot,
         ClaimMember(r) \/ ProcessExpiredManualPlan(r)
  PROVE  SerialInv'
<1>1. /\ Settling /\ Knows(r) /\ Running(r) /\ KeepTime
      /\ UNCHANGED <<sub, pays, pg, mailed>> /\ Pending' = Pending
  BY DEF SerialInv, ClaimMember, ProcessExpiredManualPlan, At, Running, Pending
<1>2. CASE Finish(r)
  BY <1>1, <1>2, FinishKept
<1>3. CASE At(r, "claim") /\ Goto(r, "create")
  <2>1. GoesOn(r, "create", req[r].row) /\ Is(r, {"START"})
    BY <1>1, <1>3, GotoGoesOn DEF Knows, Placed, At
  <2>2. Placed(r)' /\ Cleared(r)'
    BY <1>1, <1>3, <2>1 DEF GoesOn, Knows, Placed, Cleared, At, Is, Looking
  <2>3. ReadTrue(r)' /\ Paying(r)'
    BY <1>1, <1>3, <2>1, Lasting DEF GoesOn, Knows, ReadTrue, Paying, At, Is, Looking, Live
  <2>4. ~Fresh(r)' /\ "create" \notin Unbegun
    BY <2>1 DEF GoesOn, Fresh, At, Unbegun, Looking
  <2> QED BY <1>1, <2>1, <2>2, <2>3, <2>4, ReadsKept DEF Knows
<1> QED BY <1>2, <1>3 DEF ClaimMember, ProcessExpiredManualPlan

(* The advance notice is sent, and then recorded in the row, whatever it has *)
(* become.                                                                   *)
LEMMA NoticeSerial ==
  ASSUME Typed, Typed', MoneyInv, SerialInv, InTurn(Payers), NEW r \in Slot,
         SendNotice(r) \/ RecordNotice(r)
  PROVE  SerialInv'
<1>1. /\ Settling /\ Knows(r) /\ Running(r) /\ KeepTime /\ Is(r, {"DAILY"}) /\ Is(r, Payers)
      /\ UNCHANGED <<pays, pg>> /\ Pending' = Pending
  BY DEF SerialInv, SendNotice, RecordNotice, At, Running, Pending, Knows, Placed, Is, Payers
<1>2. CASE SendNotice(r) /\ Finish(r) /\ UNCHANGED mailed
  BY <1>1, <1>2, FinishKept DEF SendNotice
<1>3. CASE SendNotice(r) /\ Goto(r, "process") /\ mailed' = mailed \cup {req[r].row.bill}
  <2>1. GoesOn(r, "process", req[r].row) /\ UNCHANGED sub /\ At(r, "notice")
    BY <1>3, GotoGoesOn DEF SendNotice
  <2>2. Settling'
    BY <1>1, <1>3, <2>1, QuietSettling
  <2>3. Placed(r)' /\ Cleared(r)' /\ Paying(r)'
    BY <1>1, <2>1 DEF GoesOn, Knows, Placed, Cleared, Paying, At, Is, Looking
  <2>4. sub.bill = req[r].row.bill \/ (sub.bill = None /\ ~Calm)
    BY <1>1, <2>1 DEF Knows, ReadTrue
  <2>5. ReadTrue(r)'
    BY <1>3, <2>1, <2>4, Lasting DEF GoesOn, ReadTrue, At, Is, Looking
  <2>6. Acts(r)
    BY <1>1, <2>1, GoesOnActs
  <2>7. Writes(r)
    BY <2>1 DEF GoesOn, Writes, Fresh, At, Unbegun, Looking
  <2> QED BY <1>1, <2>2, <2>3, <2>5, <2>6, <2>7, PayerKept DEF Knows
<1>4. CASE RecordNotice(r)
  <2>1. sub \in Subscription /\ At(r, "process") /\ Finish(r) /\ mailed' = mailed
    BY <1>4 DEF Typed, RowsTyped, RecordNotice
  <2>2. /\ sub'.op = sub.op /\ sub'.st = sub.st /\ sub'.seats = sub.seats /\ sub'.end = sub.end
        /\ sub'.bill = sub.bill /\ sub'.ver = sub.ver /\ sub.end \in Int
    BY <1>4, <2>1 DEF RecordNotice, Subscription
  <2>3. sub.bill \in mailed \/ (sub.bill = None /\ ~Calm)
    BY <1>1, <2>1 DEF Knows, ReadTrue
  <2>4. Opened'
    BY <1>1, <2>2, Lasting DEF Settling, Opened, Live, Chargeable
  <2>5. Settling'
    <3>1. (Live(sub') => Live(sub)) /\ (Chargeable(sub') => Covers(sub.end))
      BY <1>1, <2>2 DEF Settling, Covered, Live, Chargeable
    <3> QED BY <1>1, <2>1, <2>2, <2>3, <2>4, <3>1, SubscriptionSettling
  <2>6. Acts(r) /\ Knows(r)' /\ Writes(r)
    BY <1>1, <2>1, <2>2, FinishActs, FinishKnows DEF Writes, Fresh, Unbegun, Idle, At, Looking
  <2> QED BY <1>1, <2>5, <2>6, PayerKept
<1> QED BY <1>2, <1>3, <1>4 DEF SendNotice

(* What the transactions write: a first payment.                           *)
LEMMA ActivatedFields ==
  ASSUME NEW p \in Payment, NEW now
  PROVE  /\ Activated(p, now).seats = p.seats /\ Activated(p, now).end = p.end
         /\ Activated(p, now).ver = Stamp(now) /\ ~Activated(p, now).notice
BY DEF Activated

(* A renewal.                                                               *)
LEMMA RenewedFields ==
  ASSUME NEW row \in Subscription, NEW p \in Payment, NEW now
  PROVE  /\ Renewed(row, p, now).seats = p.seats /\ Renewed(row, p, now).end = p.end
         /\ Renewed(row, p, now).ver = Stamp(now) /\ ~Renewed(row, p, now).notice
BY DEF Renewed, Subscription

(* More seats.                                                              *)
LEMMA SeatsAddedFields ==
  ASSUME NEW row \in Subscription, NEW p \in Payment, NEW now
  PROVE  /\ SeatsAdded(row, p, now).seats = p.seats /\ SeatsAdded(row, p, now).end = row.end
         /\ SeatsAdded(row, p, now).ver = Stamp(now)
         /\ SeatsAdded(row, p, now).notice = row.notice
         /\ SeatsAdded(row, p, now).bill = row.bill /\ SeatsAdded(row, p, now).st = row.st
BY DEF SeatsAdded, Subscription

(* The payment of t is applied, by whoever found that it was taken: the row  *)
(* takes it, unless a first payment finds a subscription or no member.       *)
Taken(t, now) ==
  \/ sub' = sub /\ pays[t].type = "INITIAL"
  \/ sub' = Activated(pays[t], now) /\ pays[t].type = "INITIAL"
  \/ sub' = Renewed(sub, pays[t], now) /\ pays[t].type = "RECURRING"
  \/ sub' = SeatsAdded(sub, pays[t], now) /\ pays[t].type = "SEAT_ADD"

(* Either way the rows stay in order, and nothing is open.                  *)
LEMMA TakenSettling ==
  ASSUME Typed, Typed', MoneyInv, Settling, NEW t \in Pending, t \in pg,
         pays' = Settled(t, "PAID"), UNCHANGED <<pg, mailed>>, NEW now, Taken(t, now)
  PROVE  /\ Settling' /\ Pending' = {}
         /\ sub' = sub \/ sub'.ver = Stamp(now)
         /\ \A u \in Time : pays'[u].st # "NOROW" <=> pays[u].st # "NOROW"
<1>1. sub \in Subscription /\ pays[t] \in Payment
  BY DEF Typed, RowsTyped, Pending
<1>2. pays[t].end \in Int /\ sub.end \in Int
  BY <1>1 DEF Subscription, Payment
<1>3. /\ sub' = sub \/ sub'.ver = Stamp(now)
      /\ \/ sub' = sub /\ pays[t].type = "INITIAL"
         \/ /\ sub'.seats = pays[t].seats
            /\ sub'.notice => sub.notice /\ sub'.bill = sub.bill /\ (Live(sub') => Live(sub))
            /\ \/ pays[t].type = "INITIAL"
               \/ pays[t].type = "RECURRING" /\ pays[t].end <= sub'.end
               \/ /\ pays[t].type = "SEAT_ADD" /\ sub'.end = sub.end
                  /\ Chargeable(sub') => Chargeable(sub)
  <2>1. CASE sub' = sub /\ pays[t].type = "INITIAL"
    BY <2>1
  <2>2. CASE sub' = Activated(pays[t], now) /\ pays[t].type = "INITIAL"
    BY <1>1, <2>2, ActivatedFields
  <2>3. CASE sub' = Renewed(sub, pays[t], now) /\ pays[t].type = "RECURRING"
    BY <1>1, <1>2, <2>3, RenewedFields
  <2>4. CASE sub' = SeatsAdded(sub, pays[t], now) /\ pays[t].type = "SEAT_ADD"
    BY <1>1, <2>4, SeatsAddedFields DEF Live, Chargeable
  <2> QED BY <2>1, <2>2, <2>3, <2>4 DEF Taken
<1>4. Settling' /\ Pending' = {}
  BY <1>3, PayingSettling
<1>5. \A u \in Time : pays'[u].st # "NOROW" <=> pays[u].st # "NOROW"
  BY ClosesPending DEF Pending
<1> QED BY <1>3, <1>4, <1>5

(* A lost attempt is settled by the request that looked it up.               *)
LEMMA RecoverySerial ==
  ASSUME Typed, Typed', MoneyInv, SerialInv, InTurn(Payers), NEW r \in Slot,
         SettleNotCharged(r) \/ SettlesUnapplied(r) \/ ApplyRecovered(r)
  PROVE  SerialInv'
<1> DEFINE t == req[r].tgt
           now == req[r].now
<1>1. /\ Settling /\ Knows(r) /\ Running(r) /\ KeepTime /\ Resolved(r)
      /\ UNCHANGED <<pg, mailed>> /\ req[r].pc \in Looking
  BY UnappliedKeeps
  DEF SerialInv, SettleNotCharged, ApplyRecovered, At, Running, Looking, Recovery
<1>2. t \in Pending /\ ~Is(r, {"CARD"}) /\ Is(r, Payers)
  BY <1>1 DEF Knows, ReadTrue, Cleared, Placed, Is, Payers, Charging
<1>3. now \in Nat /\ t \in Time /\ t \in Nat /\ t + Stale <= now
  BY <1>1, Timely DEF MoneyInv, Looked, Looking, Time
<1>4. ASSUME Settling', Pending' = {}, sub' = sub \/ sub'.ver = Stamp(now),
             \A u \in Time : pays'[u].st # "NOROW" <=> pays[u].st # "NOROW"
      PROVE  SerialInv'
  <2>1. /\ Acts(r) /\ Knows(r)' /\ ~Fresh(r)'
        /\ req'[r].pc \in Unbegun => req[r].pc \in Unbegun
    BY <1>1, <1>2, <1>4, ResolvedKnows
  <2>2. Writes(r)
    BY <1>4, <2>1 DEF Writes
  <2> QED BY <1>2, <1>4, <2>1, <2>2, PayerKept
<1>5. CASE SettleNotCharged(r)
  <2>1. sub' = sub /\ pays' = Settled(t, "FAILED") /\ t \notin pg
    BY <1>5 DEF SettleNotCharged, MoneyInv, Looked
  <2>2. Settling' /\ Pending' = {}
    BY <1>1, <1>2, <2>1, FailingSettling
  <2>3. \A u \in Time : pays'[u].st # "NOROW" <=> pays[u].st # "NOROW"
    BY <1>2, <2>1, ClosesPending DEF Pending
  <2> QED BY <1>4, <2>1, <2>2, <2>3
<1>6. CASE SettlesUnapplied(r) \/ ApplyRecovered(r)
  <2>1. pays' = Settled(t, "PAID") /\ t \in pg
    <3>1. pays' = Settled(t, "PAID") /\ req[r].pc \in Recovery
      BY <1>6, UnappliedKeeps DEF ApplyRecovered, At, Recovery
    <3> QED BY <3>1 DEF MoneyInv, Looked
  <2>2. pays[t].type # "INITIAL" => Live(sub) /\ TokenFree(sub, now)
    BY <1>1, <1>2, <1>3, TimeoutAssumption DEF Settling, Opened, TokenFree
  <2>3. Taken(t, now)
    <3>1. CASE ApplyRecovered(r)
      BY <2>2, <3>1 DEF ApplyRecovered, Taken
    <3>2. CASE SettlesUnapplied(r)
      <4>1. sub' = sub /\ pays[t].st = "PENDING" /\ pays'[t].st = "PAID"
        BY <1>2, <2>1, <3>2, UnappliedKeeps DEF Settled, Pending, Typed, RowsTyped
      <4>2. pays[t].type = "INITIAL"
        BY <2>2, <3>2, <4>1 DEF SettlesUnapplied, FindMember, FindExisting
      <4> QED BY <4>1, <4>2 DEF Taken
    <3> QED BY <1>6, <3>1, <3>2
  <2> HIDE DEF t, now
  <2>4. /\ Settling' /\ Pending' = {} /\ (sub' = sub \/ sub'.ver = Stamp(now))
        /\ \A u \in Time : pays'[u].st # "NOROW" <=> pays[u].st # "NOROW"
    BY <1>1, <1>2, <2>1, <2>3, TakenSettling
  <2> QED BY <1>4, <2>4
<1> QED BY <1>5, <1>6

------------------------------------------------------------------------------
(* How a payer's charge goes on.                                             *)

(* It is over, and has written at most its own version.                     *)
LEMMA PayerFinishes ==
  ASSUME Typed, Typed', MoneyInv, SerialInv, InTurn(Payers), NEW r \in Slot, Is(r, Payers),
         Running(r), KeepTime, Finish(r), sub'.ver \in {sub.ver, Stamp(req[r].now)}, Settling',
         Pending' \subseteq Pending
  PROVE  SerialInv'
<1>1. Acts(r) /\ req'[r] = Idle
  BY FinishActs
<1>2. Writes(r) /\ Knows(r)'
  BY <1>1, FinishKnows DEF Writes, Fresh, Unbegun, Looking, At, Idle
<1> QED BY <1>1, <1>2, PayerKept

(* Or goes on past the point where its charge began.                        *)
LEMMA PayerGoesOn ==
  ASSUME Typed, Typed', MoneyInv, SerialInv, InTurn(Payers), NEW r \in Slot, Is(r, Payers),
         Running(r), KeepTime, NEW p, p # "idle", p \notin Unbegun, GoesOn(r, p, req[r].row),
         sub'.ver \in {sub.ver, Stamp(req[r].now)}, Settling', Knows(r)',
         \A t \in Pending' : t \in Pending \/ t = req[r].now
  PROVE  SerialInv'
<1>1. Acts(r)
  BY GoesOnActs
<1>2. Writes(r)
  BY DEF GoesOn, Writes, Fresh, Unbegun, Looking, At
<1> QED BY <1>1, <1>2, PayerKept

(* The token is planted in the row that was read, or given back.             *)
LEMMA TokenSerial ==
  ASSUME Typed, Typed', MoneyInv, SerialInv, InTurn(Payers), NEW r \in Slot,
         BeginBillingOperation(r) \/ ReleaseBillingOperation(r)
  PROVE  SerialInv'
<1> DEFINE now == req[r].now
<1>1. /\ Settling /\ Knows(r) /\ Running(r) /\ KeepTime
      /\ UNCHANGED <<pays, pg, mailed>> /\ Pending' = Pending
      /\ At(r, "begin") \/ At(r, "release")
  BY DEF SerialInv, BeginBillingOperation, ReleaseBillingOperation, At, Running, Pending
<1>2. Pending = {} /\ Is(r, Charging \cup {"SEAT"}) /\ Is(r, Payers)
  BY <1>1 DEF Knows, Placed, Cleared, At, Is, Payers, Charging
<1>3. sub \in Subscription /\ sub.end \in Int
  BY DEF Typed, RowsTyped, Subscription
<1>4. ASSUME sub'.st = sub.st, sub'.seats = sub.seats, sub'.end = sub.end, sub'.bill = sub.bill,
             sub'.notice = sub.notice
      PROVE  Settling'
  <2>1. (Live(sub') <=> Live(sub)) /\ (Chargeable(sub') => Covers(sub.end))
    BY <1>1, <1>4 DEF Live, Chargeable, Settling, Covered
  <2>2. Opened' /\ sub.end <= sub'.end
    BY <1>1, <1>2, <1>3, <1>4, NoneOpened
  <2> QED BY <1>1, <1>4, <2>1, <2>2, SubscriptionSettling
<1>5. CASE Finish(r) /\ (sub' = sub \/ sub' = [sub EXCEPT !.op = None, !.ver = Stamp(now)])
  <2>1. /\ sub'.st = sub.st /\ sub'.seats = sub.seats /\ sub'.end = sub.end /\ sub'.bill = sub.bill
        /\ sub'.notice = sub.notice /\ sub'.ver \in {sub.ver, Stamp(now)}
    BY <1>3, <1>5 DEF Subscription
  <2> QED BY <1>1, <1>2, <1>4, <1>5, <2>1, PayerFinishes
<1>6. CASE /\ At(r, "begin") /\ sub.ver = req[r].row.ver /\ Goto(r, "create")
           /\ sub' = [sub EXCEPT !.op = now, !.ver = Bump(now, req[r].row.ver)]
  <2>1. /\ req[r].row = sub /\ Live(sub) /\ ~Is(r, {"START"})
        /\ Is(r, Charging) => Chargeable(sub)
    BY <1>1, <1>2, <1>6 DEF Knows, ReadTrue, Is, At, Charging
  <2>2. /\ sub'.st = sub.st /\ sub'.seats = sub.seats /\ sub'.end = sub.end /\ sub'.bill = sub.bill
        /\ sub'.notice = sub.notice /\ sub'.op = now /\ sub'.ver = Bump(now, sub.ver)
    BY <1>3, <1>6 DEF Subscription
  <2>3. GoesOn(r, "create", req[r].row)
    BY <1>6, GotoGoesOn
  <2>4. Settling'
    BY <1>4, <2>2
  <2>5. Acts(r)
    BY <1>1, <2>3, GoesOnActs
  <2>6. Writes(r)
    <3>1. req'[r].pc \notin Unbegun
      BY <2>3 DEF GoesOn, Unbegun, Looking
    <3> QED BY <1>2, <1>6, <2>2, <3>1 DEF Writes
  <2>7. Placed(r)' /\ Cleared(r)' /\ ReadTrue(r)'
    BY <1>1, <1>2, <2>3 DEF GoesOn, Placed, Cleared, ReadTrue, At, Is, Looking
  <2>8. Paying(r)'
    BY <1>1, <2>1, <2>2, <2>3 DEF GoesOn, Knows, Paying, At, Is, Live, Chargeable
  <2> QED BY <1>1, <1>2, <2>4, <2>5, <2>6, <2>7, <2>8, PayerKept DEF Knows
<1> QED BY <1>5, <1>6 DEF BeginBillingOperation, ReleaseBillingOperation

(* What an attempt is for.                                                   *)
LEMMA AttemptFields ==
  ASSUME Typed, NEW r \in Slot, Running(r)
  PROVE  /\ Attempt(r) \in Payment /\ Attempt(r).st = "PENDING"
         /\ Attempt(r).type = "INITIAL" <=> Is(r, {"START"})
         /\ Attempt(r).type = "RECURRING" <=> ~Is(r, {"START", "SEAT"})
         /\ Attempt(r).type = "SEAT_ADD" <=> Is(r, {"SEAT"})
         /\ Attempt(r).type = "RECURRING" =>
              req[r].row.end <= Attempt(r).from /\ req[r].row.end <= Attempt(r).end
<1>1. Attempt(r) \in Payment /\ Attempt(r).st = "PENDING"
  BY AttemptTyped DEF Typed
<1>2. /\ Attempt(r).type = "INITIAL" <=> Is(r, {"START"})
      /\ Attempt(r).type = "RECURRING" <=> ~Is(r, {"START", "SEAT"})
      /\ Attempt(r).type = "SEAT_ADD" <=> Is(r, {"SEAT"})
  BY DEF Attempt, Is
<1>3. req[r].row.end \in Int /\ req[r].now \in Int /\ Period \in Nat
  BY BoundsAssumption DEF Typed, ReqTyped, Time, Request, Subscription
<1>4. /\ req[r].row.end <= NextPeriod(req[r].row, req[r].now)[1]
      /\ req[r].row.end <= NextPeriod(req[r].row, req[r].now)[2]
  BY <1>3 DEF NextPeriod
<1>5. Attempt(r).type = "RECURRING" =>
         /\ Attempt(r).from = NextPeriod(req[r].row, req[r].now)[1]
         /\ Attempt(r).end = NextPeriod(req[r].row, req[r].now)[2]
  BY DEF Attempt, Is
<1> QED BY <1>1, <1>2, <1>4, <1>5

(* The attempt is written down.                                              *)
LEMMA CreateSerial ==
  ASSUME Typed, Typed', MoneyInv, SerialInv, InTurn(Payers), NEW r \in Slot,
         CreatePendingAttempt(r) \/ NoBillingKey(r)
  PROVE  SerialInv'
<1> DEFINE now == req[r].now
<1>1. /\ Settling /\ Knows(r) /\ Running(r) /\ KeepTime /\ At(r, "create")
      /\ UNCHANGED <<sub, pg, mailed>>
  BY DEF SerialInv, CreatePendingAttempt, NoBillingKey, At, Running
<1>2. /\ Pending = {} /\ now \in Time
      /\ Is(r, Charging \cup {"START", "SEAT"}) /\ Is(r, Payers)
  BY <1>1 DEF Knows, Placed, Cleared, At, Is, Payers, Charging, Typed, ReqTyped
<1>3. pays[now].st = "NOROW" /\ \A u \in Time : pays[u].st # "NOROW" => u <= now
  BY <1>1, <1>2 DEF MoneyInv, Recorded, At, Before, Knows, Paying
<1>4. pays \in [Time -> Payment]
  BY DEF Typed, RowsTyped
<1>5. /\ Attempt(r) \in Payment /\ Attempt(r).st = "PENDING"
      /\ Attempt(r).type = "INITIAL" <=> Is(r, {"START"})
      /\ Attempt(r).type = "RECURRING" <=> Is(r, Charging)
      /\ Attempt(r).type = "SEAT_ADD" <=> Is(r, {"SEAT"})
      /\ Attempt(r).type = "RECURRING" =>
           req[r].row.end <= Attempt(r).from /\ req[r].row.end <= Attempt(r).end
  <2>1. ~Is(r, {"START", "SEAT"}) <=> Is(r, Charging)
    BY <1>2 DEF Is, Charging
  <2> QED BY <1>1, <2>1, AttemptFields
<1>6. /\ Is(r, {"START"}) => "START" \in Kinds /\ (Together => ~Live(sub))
      /\ ~Is(r, {"START"}) => Live(sub) /\ sub.op = now /\ req[r].row.end = sub.end
      /\ Is(r, Charging) => Chargeable(sub)
  <2>1. Is(r, {"START"}) => "START" \in Kinds
    BY <1>1 DEF SerialInv, Arrived, Is
  <2>2. Is(r, Charging) => ~Is(r, {"START"})
    BY DEF Is, Charging
  <2> QED BY <1>1, <2>1, <2>2 DEF Knows, Paying, At, Is
<1>7. \A u \in Time \ {now} : pays'[u] = pays[u]
  BY <1>4 DEF CreatePendingAttempt, NoBillingKey
<1>8. CASE CreatePendingAttempt(r)
  <2>1. pays' = [pays EXCEPT ![now] = Attempt(r)] /\ Goto(r, "charge")
    BY <1>2, <1>8 DEF CreatePendingAttempt
  <2>2. Settling'
    <3> DEFINE a == Attempt(r)
    <3>1. /\ a.type = "INITIAL" => "START" \in Kinds /\ (Together => ~Live(sub))
          /\ a.type # "INITIAL" => Live(sub) /\ sub.op = now
          /\ a.type = "RECURRING" => Chargeable(sub) /\ sub.end <= a.from /\ sub.end <= a.end
      BY <1>5, <1>6 DEF Is, Charging
    <3>2. a \in Payment /\ a.st = "PENDING" /\ pays' = [pays EXCEPT ![now] = a]
      BY <1>5, <2>1
    <3> HIDE DEF a, now
    <3> QED BY <1>1, <1>2, <1>3, <3>1, <3>2, CreatingSettling
  <2>3. GoesOn(r, "charge", req[r].row)
    BY <2>1, GotoGoesOn
  <2>4. now \in Pending' /\ pays'[now] = Attempt(r) /\ Pending' \subseteq {now}
    BY <1>2, <1>4, <1>5, <1>7, <2>1 DEF Pending
  <2>5. Placed(r)' /\ Cleared(r)' /\ ReadTrue(r)'
    BY <1>1, <1>2, <2>3 DEF GoesOn, Placed, Cleared, ReadTrue, At, Is, Looking
  <2>6. \A u \in Time : pays'[u].st # "NOROW" => u <= now
    <3>1. now <= now
      BY <1>2 DEF Time
    <3> QED BY <1>3, <1>7, <3>1
  <2>7. Paying(r)'
    BY <1>1, <1>5, <1>6, <2>3, <2>4, <2>6 DEF GoesOn, Paying, At, Is, Live, Chargeable
  <2>8. "charge" \notin Unbegun
    BY DEF Unbegun, Looking
  <2> QED BY <1>1, <1>2, <2>2, <2>3, <2>4, <2>5, <2>7, <2>8, PayerGoesOn DEF Knows
<1>9. CASE NoBillingKey(r)
  <2> DEFINE a == [Attempt(r) EXCEPT !.st = "FAILED"]
  <2>1. /\ pays' = [pays EXCEPT ![now] = a] /\ Goto(r, "failSub")
        /\ Is(r, Charging) /\ ~Is(r, {"START"})
    BY <1>9 DEF NoBillingKey, HasCard, Is, Charging
  <2>2. a \in Payment /\ a.st = "FAILED" /\ a.type # "INITIAL"
    BY <1>5, <2>1 DEF Payment
  <2> HIDE DEF a
  <2>3. Settling'
    <3> HIDE DEF now
    <3> QED BY <1>1, <1>2, <1>3, <2>1, <2>2, CreatingSettling
  <2>4. Pending' = {}
    BY <1>2, <1>4, <2>1, <2>2 DEF Pending
  <2>5. GoesOn(r, "failSub", req[r].row)
    BY <2>1, GotoGoesOn
  <2>6. Placed(r)' /\ Cleared(r)' /\ ReadTrue(r)'
    BY <1>1, <2>1, <2>4, <2>5 DEF GoesOn, Placed, Cleared, ReadTrue, At, Is, Looking
  <2>7. \A u \in Time : pays'[u].st # "NOROW" => u <= now
    <3>1. now <= now
      BY <1>2 DEF Time
    <3> QED BY <1>3, <1>7, <3>1
  <2>8. Paying(r)'
    BY <1>1, <1>6, <2>1, <2>5, <2>7 DEF GoesOn, Paying, At, Is, Live, Chargeable
  <2>9. "failSub" \notin Unbegun
    BY DEF Unbegun, Looking
  <2> QED BY <1>1, <1>2, <2>3, <2>4, <2>5, <2>6, <2>8, <2>9, PayerGoesOn DEF Knows
<1> QED BY <1>8, <1>9

(* The gateway is called: the money of the open attempt is taken, or not.    *)
LEMMA ChargeSerial ==
  ASSUME Typed, Typed', MoneyInv, SerialInv, InTurn(Payers), NEW r \in Slot,
         ChargeApproved(r) \/ ChargeNotMade(r)
  PROVE  SerialInv'
<1>1. /\ Settling /\ Knows(r) /\ Running(r) /\ KeepTime /\ At(r, "charge")
      /\ UNCHANGED <<sub, pays, mailed>> /\ Pending' = Pending
  BY DEF SerialInv, ChargeApproved, ChargeNotMade, At, Running, KeepRows, Pending
<1>2. req[r].now \in Pending /\ Is(r, Payers) /\ Is(r, Charging \cup {"START", "SEAT"})
  BY <1>1 DEF Knows, Placed, Paying, At, Is, Payers, Charging
<1>3. Settling'
  <2>1. CASE ChargeApproved(r)
    BY <1>1, <1>2, <2>1, TakingSettling DEF ChargeApproved
  <2>2. CASE ChargeNotMade(r)
    BY <1>1, <2>2, QuietSettling DEF ChargeNotMade, KeepRows
  <2> QED BY <2>1, <2>2
<1>4. CASE Finish(r)
  BY <1>1, <1>2, <1>3, <1>4, PayerFinishes
<1>5. ASSUME NEW p \in {"apply", "declined"}, Goto(r, p) PROVE SerialInv'
  <2>1. GoesOn(r, p, req[r].row)
    BY <1>5, GotoGoesOn
  <2>2. Placed(r)' /\ Cleared(r)' /\ ReadTrue(r)'
    BY <1>1, <1>2, <2>1 DEF GoesOn, Placed, Cleared, ReadTrue, At, Is, Looking
  <2>3. Paying(r)'
    BY <1>1, <2>1 DEF GoesOn, Knows, Paying, At, Is, Live, Chargeable
  <2>4. p # "idle" /\ p \notin Unbegun
    BY DEF Unbegun, Looking
  <2> QED BY <1>1, <1>2, <1>3, <2>1, <2>2, <2>3, <2>4, PayerGoesOn DEF Knows
<1> QED BY <1>4, <1>5 DEF ChargeApproved, ChargeNotMade

(* The payment is applied by the request that made it.                       *)
LEMMA ApplySerial ==
  ASSUME Typed, Typed', MoneyInv, SerialInv, InTurn(Payers), NEW r \in Slot, ApplyCharge(r)
  PROVE  SerialInv'
<1> DEFINE now == req[r].now
<1>1. /\ Settling /\ Knows(r) /\ Running(r) /\ KeepTime /\ At(r, "apply")
      /\ UNCHANGED <<pg, mailed>> /\ pays' = Settled(now, "PAID") /\ now \in pg
  BY DEF SerialInv, ApplyCharge, At, Running, MoneyInv, Own
<1>2. /\ now \in Pending /\ Is(r, Charging \cup {"START", "SEAT"}) /\ Is(r, Payers)
      /\ pays[now].type = "INITIAL" <=> Is(r, {"START"})
      /\ pays[now].type = "RECURRING" <=> Is(r, Charging)
      /\ pays[now].type = "SEAT_ADD" <=> Is(r, {"SEAT"})
      /\ ~Is(r, {"START"}) => sub.op = now
  BY <1>1 DEF Knows, Placed, Paying, At, Is, Payers, Charging
<1>3. Taken(now, now)
  BY <1>2 DEF ApplyCharge, Taken, Is, Charging
<1>4. /\ Settling' /\ Pending' = {} /\ sub'.ver \in {sub.ver, Stamp(now)}
      /\ \A u \in Time : pays'[u].st # "NOROW" <=> pays[u].st # "NOROW"
  <2> HIDE DEF now
  <2> QED BY <1>1, <1>2, <1>3, TakenSettling
<1>5. CASE Finish(r)
  BY <1>1, <1>2, <1>4, <1>5, PayerFinishes
<1>6. CASE Goto(r, "refetch") /\ Is(r, {"DAILY"})
  <2>1. GoesOn(r, "refetch", req[r].row)
    BY <1>6, GotoGoesOn
  <2>2. Placed(r)' /\ Cleared(r)' /\ ReadTrue(r)'
    BY <1>4, <1>6, <2>1 DEF GoesOn, Placed, Cleared, ReadTrue, At, Is, Looking
  <2>3. Paying(r)'
    BY <1>1, <1>2, <1>4, <1>6, <2>1 DEF GoesOn, Knows, Paying, At, Is
  <2>4. "refetch" \notin Unbegun
    BY DEF Unbegun, Looking
  <2> QED BY <1>1, <1>2, <1>4, <2>1, <2>2, <2>3, <2>4, PayerGoesOn DEF Knows
<1> QED BY <1>5, <1>6 DEF ApplyCharge

(* The gateway has declined: the attempt is closed as failed.                *)
LEMMA DeclineSerial ==
  ASSUME Typed, Typed', MoneyInv, SerialInv, InTurn(Payers), NEW r \in Slot, SettleDeclined(r)
  PROVE  SerialInv'
<1>1. /\ Settling /\ Knows(r) /\ Running(r) /\ KeepTime /\ At(r, "declined")
      /\ UNCHANGED <<sub, pg, mailed>>
      /\ pays' = Settled(req[r].now, "FAILED") /\ req[r].now \notin pg
  BY DEF SerialInv, SettleDeclined, At, Running, MoneyInv, Own
<1>2. req[r].now \in Pending /\ Is(r, Charging \cup {"START", "SEAT"}) /\ Is(r, Payers)
  BY <1>1 DEF Knows, Placed, Paying, At, Is, Payers, Charging
<1>3. Settling' /\ Pending' = {}
  BY <1>1, <1>2, FailingSettling
<1>4. CASE Finish(r)
  BY <1>1, <1>2, <1>3, <1>4, PayerFinishes
<1>5. ASSUME NEW p \in {"release", "failSub"}, Goto(r, p), ~Is(r, {"START"}),
             p = "failSub" => Is(r, Charging)
      PROVE  SerialInv'
  <2>1. GoesOn(r, p, req[r].row)
    BY <1>5, GotoGoesOn
  <2>2. Placed(r)' /\ Cleared(r)' /\ ReadTrue(r)'
    BY <1>2, <1>3, <1>5, <2>1 DEF GoesOn, Placed, Cleared, ReadTrue, At, Is, Looking
  <2>3. \A u \in Time : pays'[u].st # "NOROW" <=> pays[u].st # "NOROW"
    BY <1>1, <1>2, ClosesPending DEF Pending
  <2>4. Paying(r)'
    BY <1>1, <1>2, <1>5, <2>1, <2>3 DEF GoesOn, Knows, Paying, At, Is, Live, Chargeable
  <2>5. p # "idle" /\ p \notin Unbegun
    BY DEF Unbegun, Looking
  <2> QED BY <1>1, <1>2, <1>3, <1>5, <2>1, <2>2, <2>4, <2>5, PayerGoesOn DEF Knows
<1>6. Finish(r) \/ \E p \in {"release", "failSub"} :
        Goto(r, p) /\ ~Is(r, {"START"}) /\ (p = "failSub" => Is(r, Charging))
  BY <1>2 DEF SettleDeclined, Is, Charging
<1> QED BY <1>4, <1>5, <1>6

(* A failed charge is counted; after the last, the subscription is to end.   *)
LEMMA FailureSerial ==
  ASSUME Typed, Typed', MoneyInv, SerialInv, InTurn(Payers), NEW r \in Slot,
         RecordRecurringFailure(r)
  PROVE  SerialInv'
<1> DEFINE now == req[r].now
           failed == [sub EXCEPT !.fails = req[r].row.fails + 1, !.last = now, !.ver = Stamp(now)]
<1>1. /\ Settling /\ Knows(r) /\ Running(r) /\ KeepTime /\ At(r, "failSub")
      /\ UNCHANGED <<pays, pg, mailed>> /\ Pending' = Pending
  BY DEF SerialInv, RecordRecurringFailure, At, Running, Pending
<1>2. /\ Pending = {} /\ Is(r, Charging) /\ ~Is(r, {"START"}) /\ Is(r, Payers)
      /\ sub.op = now /\ Live(sub) /\ Chargeable(sub)
  BY <1>1 DEF Knows, Cleared, Placed, Paying, At, Is, Charging, Payers
<1>3. sub \in Subscription /\ sub.end \in Int
  BY DEF Typed, RowsTyped, Subscription
<1>4. ASSUME sub' = failed \/ sub' = [failed EXCEPT !.st = "PAST_DUE", !.op = None]
      PROVE  Settling' /\ sub'.ver \in {sub.ver, Stamp(now)}
  <2>1. /\ sub'.seats = sub.seats /\ sub'.end = sub.end /\ sub'.bill = sub.bill
        /\ sub'.notice = sub.notice /\ sub'.ver = Stamp(now)
    <3>1. CASE sub' = failed
      BY <1>3, <3>1 DEF Subscription
    <3>2. CASE sub' = [failed EXCEPT !.st = "PAST_DUE", !.op = None]
      BY <1>3, <3>2 DEF Subscription
    <3> QED BY <1>4, <3>1, <3>2
  <2>2. Opened' /\ sub.end <= sub'.end /\ Covers(sub.end)
    BY <1>1, <1>2, <1>3, <2>1, NoneOpened DEF Settling, Covered
  <2> QED BY <1>1, <1>2, <2>1, <2>2, SubscriptionSettling
<1>5. CASE sub' = failed /\ Goto(r, "expire")
  <2>1. sub'.op = now /\ sub'.st = sub.st /\ sub'.bill = sub.bill
    BY <1>2, <1>3, <1>5 DEF Subscription
  <2>2. GoesOn(r, "expire", req[r].row)
    BY <1>5, GotoGoesOn
  <2>3. Placed(r)' /\ Cleared(r)' /\ ReadTrue(r)'
    BY <1>1, <1>2, <2>2 DEF GoesOn, Placed, Cleared, ReadTrue, At, Is, Looking
  <2>4. Paying(r)'
    BY <1>1, <1>2, <2>1, <2>2 DEF GoesOn, Knows, Paying, At, Is, Live, Chargeable
  <2>5. "expire" \notin Unbegun
    BY DEF Unbegun, Looking
  <2> QED BY <1>1, <1>2, <1>4, <1>5, <2>2, <2>3, <2>4, <2>5, PayerGoesOn DEF Knows
<1>6. CASE sub' = [failed EXCEPT !.st = "PAST_DUE", !.op = None] /\ Finish(r)
  BY <1>1, <1>2, <1>4, <1>6, PayerFinishes
<1> QED BY <1>2, <1>5, <1>6 DEF RecordRecurringFailure

------------------------------------------------------------------------------
(* Changes outside a charge.                                                 *)

(* Who is no payer is over with its update.                                 *)
LEMMA OutsiderFinishes ==
  ASSUME Typed, Typed', MoneyInv, SerialInv, InTurn(Payers), NEW r \in Slot, ~Is(r, Payers),
         Running(r), KeepTime, Finish(r), Outside(r)
  PROVE  SerialInv'
<1>1. Acts(r) /\ req'[r] = Idle
  BY FinishActs
<1>2. sub'.ver \in {sub.ver, Stamp(req[r].now)}
  BY DEF Outside
<1>3. Writes(r) /\ Knows(r)'
  BY <1>1, <1>2, FinishKnows DEF Writes, Fresh, Unbegun, Looking, At, Idle
<1> QED BY <1>1, <1>3, OutsiderKept

(* What is left when a subscription ends.                                    *)
LEMMA EndedFields ==
  ASSUME NEW row \in Subscription, NEW st \in EndedStatus, NEW now,
         NEW new, new = Terminated(row, st, now)
  PROVE  /\ new.st = st /\ new.bill = None /\ new.op = None /\ new.ver = Stamp(now)
         /\ new.seats = row.seats /\ new.end = row.end /\ new.notice = row.notice
         /\ ~Live(new) /\ ~Chargeable(new)
BY DEF Terminated, Subscription, Live, LiveStatus, EndedStatus, Chargeable

(* The subscription ends, or nothing happens.                                *)
LEMMA EndingSerial ==
  ASSUME Typed, Typed', MoneyInv, SerialInv, InTurn(Payers), NEW r \in Slot,
         ExpireSubscription(r) \/ TerminateSubscription(r) \/ Withdraw(r)
  PROVE  SerialInv'
<1> DEFINE now == req[r].now
<1>1. /\ Settling /\ Knows(r) /\ Running(r) /\ KeepTime /\ Finish(r)
      /\ UNCHANGED <<pays, pg, mailed>> /\ Pending' = Pending
  BY DEF SerialInv, ExpireSubscription, TerminateSubscription, Withdraw, At, Running, Pending
<1>2. sub \in Subscription /\ sub.end \in Int
  BY DEF Typed, RowsTyped, Subscription
<1>3. CASE sub' = sub
  BY <1>1, <1>3, FinishKept
<1>4. ASSUME NEW st \in EndedStatus, sub' = Terminated(sub, st, now), Pending = {}, Is(r, Payers)
      PROVE  SerialInv'
  <2>1. /\ sub'.bill = None /\ sub'.ver = Stamp(now) /\ ~Live(sub') /\ ~Chargeable(sub')
        /\ sub'.seats = sub.seats /\ sub'.end = sub.end
    BY <1>2, <1>4, EndedFields
  <2>2. Opened' /\ sub.end <= sub'.end
    BY <1>1, <1>2, <1>4, <2>1, NoneOpened
  <2>3. Settling'
    BY <1>1, <2>1, <2>2, SubscriptionSettling
  <2> QED BY <1>1, <1>4, <2>1, <2>3, PayerFinishes
<1>5. ASSUME At(r, "update"), TokenFree(sub, now), sub' = Terminated(sub, "CANCELED", now),
             ~Is(r, Payers)
      PROVE  SerialInv'
  <2>1. /\ sub'.st = "CANCELED" /\ sub'.bill = None /\ sub'.op = None /\ sub'.ver = Stamp(now)
        /\ sub'.seats = sub.seats /\ sub'.end = sub.end /\ sub'.notice = sub.notice
    BY <1>2, <1>5, EndedFields DEF EndedStatus
  <2> QED BY <1>1, <1>5, <2>1, OutsiderFinishes DEF Outside
<1>6. CASE ExpireSubscription(r)
  <2>1. Pending = {} /\ Is(r, Payers)
    BY <1>1, <1>6 DEF ExpireSubscription, Knows, Placed, Cleared, At, Is, Charging, Payers
  <2>2. sub' = sub \/ sub' = Terminated(sub, "EXPIRED", now)
    BY <1>6 DEF ExpireSubscription
  <2> QED BY <1>3, <1>4, <2>1, <2>2 DEF EndedStatus
<1>7. CASE TerminateSubscription(r)
  <2>1. At(r, "update") /\ (sub' = sub \/ (TokenFree(sub, now) /\ sub' = Terminated(sub, "CANCELED", now)))
    BY <1>7 DEF TerminateSubscription
  <2>2. Is(r, Payers) => Pending = {}
    BY <1>1, <2>1 DEF Knows, Cleared
  <2> QED BY <1>3, <1>4, <1>5, <2>1, <2>2 DEF EndedStatus
<1>8. CASE Withdraw(r)
  <2>1. /\ At(r, "update") /\ ~Is(r, Payers)
        /\ sub' = sub \/ (TokenFree(sub, now) /\ sub' = Terminated(sub, "CANCELED", now))
    BY <1>8 DEF Withdraw, Is, Payers
  <2> QED BY <1>3, <1>5, <2>1
<1> QED BY <1>6, <1>7, <1>8

(* What an update makes of the row.                                          *)
LEMMA ChangeFields ==
  ASSUME Typed, NEW r \in Slot, Running(r), NEW new, new = Change(r)
  PROVE  /\ new.seats = sub.seats /\ new.ver = Stamp(req[r].now) /\ new.op = sub.op
         /\ Is(r, Revivers) => /\ new.st \in {"ACTIVE", "CANCEL_SCHEDULED"}
                               /\ new.end = sub.end /\ new.bill = sub.bill
                               /\ new.notice = sub.notice
         /\ Is(r, {"DEFER"}) => /\ new.st = sub.st /\ ~new.notice
                                /\ new.end = req[r].row.end + Defer
         /\ ~Is(r, Revivers \cup {"DEFER"}) =>
              /\ new.st = sub.st /\ new.end = sub.end /\ new.bill = sub.bill
              /\ new.notice = sub.notice
<1> DEFINE base == [sub EXCEPT !.ver = Stamp(req[r].now)]
           row == req[r].row
           pend == IF req[r].goal < row.seats THEN req[r].goal ELSE 0
<1>1. sub \in Subscription /\ Stamp(req[r].now) \in Nat
  <2>1. req[r].now \in Nat
    BY DEF Typed, ReqTyped, Time
  <2> QED BY <2>1, StampNat DEF Typed, RowsTyped
<1>2. /\ base \in Subscription /\ base.st = sub.st /\ base.seats = sub.seats
      /\ base.end = sub.end /\ base.bill = sub.bill /\ base.notice = sub.notice
      /\ base.op = sub.op /\ base.ver = Stamp(req[r].now)
  BY <1>1 DEF Subscription
<1>3. /\ Is(r, {"CARD"}) => new = [base EXCEPT !.key = TRUE]
      /\ Is(r, {"SEAT"}) => new = [base EXCEPT !.pend = pend]
      /\ Is(r, {"CANCEL"}) => new = [base EXCEPT !.st = "CANCEL_SCHEDULED"]
      /\ Is(r, {"UNCANCEL"}) => new = [base EXCEPT !.st = "ACTIVE"]
      /\ Is(r, {"DEFER"}) =>
           new = [base EXCEPT !.end = row.end + Defer, !.bill = row.bill + Defer, !.notice = FALSE]
      /\ ~Is(r, {"CARD", "SEAT", "CANCEL", "UNCANCEL", "DEFER"}) => new = base
  BY DEF Change, CardReplaced, ReductionBooked, CancelScheduled, Uncanceled, Deferred, Is
<1> HIDE DEF base, row, pend
<1>4. CASE Is(r, {"CARD"})
  BY <1>2, <1>3, <1>4 DEF Is, Revivers, Subscription
<1>5. CASE Is(r, {"SEAT"})
  BY <1>2, <1>3, <1>5 DEF Is, Revivers, Subscription
<1>6. CASE Is(r, {"CANCEL"})
  BY <1>2, <1>3, <1>6 DEF Is, Revivers, Subscription
<1>7. CASE Is(r, {"UNCANCEL"})
  BY <1>2, <1>3, <1>7 DEF Is, Revivers, Subscription
<1>8. CASE Is(r, {"DEFER"})
  <2>1. new = [base EXCEPT !.end = row.end + Defer, !.bill = row.bill + Defer, !.notice = FALSE]
    BY <1>3, <1>8
  <2>2. /\ new.seats = base.seats /\ new.ver = base.ver /\ new.op = base.op /\ new.st = base.st
        /\ new.end = row.end + Defer /\ ~new.notice
    BY <1>2, <2>1 DEF Subscription
  <2>3. ~Is(r, Revivers) /\ row = req[r].row
    BY <1>8 DEF row, Is, Revivers
  <2> QED BY <1>2, <1>8, <2>2, <2>3 DEF Is
<1>9. CASE ~Is(r, {"CARD", "SEAT", "CANCEL", "UNCANCEL", "DEFER"})
  <2>1. new = base /\ ~Is(r, Revivers) /\ ~Is(r, {"DEFER"})
    BY <1>3, <1>9 DEF Is, Revivers
  <2> QED BY <1>2, <2>1
<1> QED BY <1>4, <1>5, <1>6, <1>7, <1>8, <1>9 DEF Is

(* A guarded update: the row may have changed since it was read, but no      *)
(* charge holds its token.                                                   *)
LEMMA UpdateSerial ==
  ASSUME Typed, Typed', MoneyInv, SerialInv, InTurn(Payers), NEW r \in Slot,
         GuardedSubscriptionUpdate(r)
  PROVE  SerialInv'
<1> DEFINE now == req[r].now
<1>1. /\ Settling /\ Knows(r) /\ Running(r) /\ KeepTime /\ At(r, "update")
      /\ UNCHANGED <<pays, pg, mailed>> /\ Pending' = Pending
      /\ ~Is(r, {"WITHDRAW", "TERMINATE", "MANUAL"})
  BY DEF SerialInv, GuardedSubscriptionUpdate, At, Running, Pending, Ends, Is, Knows, Placed
<1>2. CASE Finish(r) /\ sub' = sub
  BY <1>1, <1>2, FinishKept
<1>3. CASE ~Is(r, Payers) /\ sub' = Change(r) /\ TokenFree(sub, now) /\ Finish(r)
  <2>1. Is(r, Revivers)
    BY <1>1, <1>3, KindsAssumption DEF SerialInv, Arrived, Is, AllKinds, Payers, Revivers
  <2>2. Outside(r)
    BY <1>1, <1>3, <2>1, ChangeFields DEF Outside
  <2> QED BY <1>1, <1>3, <2>2, OutsiderFinishes
<1>4. CASE Is(r, Payers) /\ sub' = Change(r)
  <2>1. /\ sub'.seats = sub.seats /\ sub'.ver = Stamp(now)
        /\ Is(r, {"DEFER"}) => /\ sub'.st = sub.st /\ ~sub'.notice
                               /\ sub'.end = req[r].row.end + Defer
        /\ ~Is(r, {"DEFER"}) => /\ sub'.st = sub.st /\ sub'.end = sub.end
                                /\ sub'.bill = sub.bill /\ sub'.notice = sub.notice
    <3>1. ~Is(r, Revivers)
      BY <1>4 DEF Is, Payers, Revivers
    <3> QED BY <1>1, <1>4, <3>1, ChangeFields DEF Is
  <2>2. Pending' = {} /\ Opened'
    BY <1>1, <1>4, NoneOpened DEF Knows, Cleared
  <2>3. Is(r, {"DEFER"}) => req[r].row.end = sub.end /\ Covers(sub.end)
    BY <1>1 DEF Knows, ReadTrue, At
  <2>4. sub.end <= sub'.end
    <3>1. sub.end \in Int /\ Defer \in Nat
      BY BoundsAssumption DEF Typed, RowsTyped, Subscription
    <3> QED BY <2>1, <2>3, <3>1
  <2>5. Settling'
    <3>1. Live(sub') => Live(sub)
      BY <2>1 DEF Live
    <3>2. Chargeable(sub') => Covers(sub.end)
      BY <1>1, <2>1, <2>3 DEF Chargeable, Settling, Covered
    <3> QED BY <1>1, <2>1, <2>2, <2>4, <3>1, <3>2, SubscriptionSettling
  <2>6. CASE Finish(r)
    BY <1>1, <1>4, <2>1, <2>2, <2>5, <2>6, PayerFinishes
  <2>7. CASE Goto(r, "reread") /\ Is(r, {"CARD"})
    <3>1. GoesOn(r, "reread", req[r].row)
      BY <2>7, GotoGoesOn
    <3>2. Acts(r)
      BY <1>1, <3>1, GoesOnActs
    <3>3. ~Fresh(r)' /\ req[r].pc \in Unbegun
      BY <1>1, <3>1 DEF GoesOn, Fresh, At, Unbegun, Looking
    <3>4. Placed(r)' /\ Cleared(r)' /\ ReadTrue(r)'
      BY <2>2, <2>7, <3>1 DEF GoesOn, Placed, Cleared, ReadTrue, At, Is, Looking
    <3>5. Paying(r)'
      BY <1>1, <3>1 DEF GoesOn, Knows, Paying, At, Is
    <3> QED BY <1>4, <2>1, <2>2, <2>5, <3>2, <3>3, <3>4, <3>5, PayerKept DEF Knows, Writes
  <2> QED BY <2>6, <2>7 DEF GuardedSubscriptionUpdate
<1> QED BY <1>2, <1>3, <1>4 DEF GuardedSubscriptionUpdate, Is, Payers

------------------------------------------------------------------------------
(* The invariant.                                                            *)

(* Nothing has happened yet.                                                *)
LEMMA SerialInit == Init => SerialInv
<1> SUFFICES ASSUME Init PROVE SerialInv
  OBVIOUS
<1>1. /\ \A t \in Time : pays[t].st = "NOROW" /\ pays[t].type = "NONE"
      /\ pg = {} /\ lastStart = -1
      /\ \A r \in Slot : req[r].pc = "idle" /\ req[r].kind \notin AllKinds /\ req[r].row.ver = 0
  BY DEF Init, NoRow, Idle, None, NoSub, AllKinds
<1>2. sub.ver = 0 /\ ~sub.notice
  BY DEF Init, InitialSub, NoSub
<1>3. Arrived /\ TurnsTaken
  BY <1>1 DEF Arrived, TurnsTaken, OneOf, Running, Is
<1>4. Versions
  BY <1>1, <1>2 DEF Versions, Dated, Unwritten, Stamped, Fresh, Unbegun, Looking, At, Stamp
<1>5. Settling
  BY <1>1, <1>2 DEF Settling, Opened, Covered, Covers, Noticed, Seated, Matched, Unstarted,
     NoDoubleCharge, Pending
<1>6. ASSUME NEW r \in Slot PROVE Knows(r)
  BY <1>1 DEF Knows, Placed, Cleared, ReadTrue, Paying, Looking, At, Is, Payers, AllKinds
<1> QED BY <1>3, <1>4, <1>5, <1>6 DEF SerialInv

(* A request that arrives finds nobody with whom it is served in turn, and   *)
(* comes later than everything there is.                                     *)
LEMMA StartSerial ==
  ASSUME Typed, Typed', MoneyInv, SerialInv, NEW r \in Slot, NEW k \in Kinds, Start(r, k)
  PROVE  SerialInv'
<1>1. /\ req'[r].pc = FirstStep(k) /\ req'[r].kind = k /\ req'[r].now = clock
      /\ req'[r].row.ver = 0 /\ \A q \in Slot \ {r} : req'[q] = req[q]
      /\ lastStart' = clock /\ lastStart < clock /\ UNCHANGED <<sub, pays, pg, mailed>>
      /\ ~Running(r) /\ k \in AllKinds
      /\ k \in Batch => \A q \in Slot : ~Is(q, Batch)
  BY KindsAssumption DEF Start, Typed, ReqTyped, Idle, NoSub, KeepRows, Running, At
<1>2. /\ sub.ver \in Nat /\ clock \in Nat /\ lastStart \in Int /\ lastStart >= -1
      /\ \A q \in Slot : req[q].row.ver \in Nat
  <2>1. sub.ver \in Nat /\ clock \in Nat /\ lastStart \in Int /\ lastStart >= -1
    BY DEF Typed, RowsTyped, ClockTyped, Subscription, Time, None
  <2>2. \A q \in Slot : req[q].row \in Subscription
    BY DEF Typed, ReqTyped, Request
  <2> QED BY <2>1, <2>2 DEF Subscription
<1>3. /\ FirstStep(k) \in {"resolve", "check", "find"}
      /\ FirstStep(k) = "resolve" => k \in {"START", "SWEEP"}
      /\ FirstStep(k) = "check" => k = "WITHDRAW"
      /\ FirstStep(k) = "find" => k \notin {"START", "SWEEP"}
  BY DEF FirstStep
<1>4. Arrived'
  BY <1>1, <1>3 DEF SerialInv, Arrived, Running, Is
<1>5. TurnsTaken'
  <2> SUFFICES ASSUME NEW K \in SUBSET AllKinds, InTurn(K), NEW q \in Slot, NEW s \in Slot,
                      req'[q].kind \in K, req'[s].kind \in K, q # s
               PROVE  FALSE
    BY DEF TurnsTaken, OneOf, InTurn, Is
  <2>1. K \subseteq Batch
    BY DEF InTurn
  <2>2. CASE q # r /\ s # r
    BY <1>1, <2>2 DEF SerialInv, TurnsTaken, OneOf, Is
  <2>3. CASE q = r \/ s = r
    BY <1>1, <2>1, <2>3 DEF Is
  <2> QED BY <2>2, <2>3
<1>6. Versions'
  <2>1. \A v \in Nat : v <= Stamp(lastStart) + 1 => v < Stamp(clock) /\ v <= Stamp(clock) + 1
    BY <1>1, <1>2 DEF Stamp
  <2>2. /\ sub.ver < Stamp(clock) /\ sub.ver <= Stamp(clock) + 1
        /\ \A q \in Slot : req[q].row.ver < Stamp(clock) /\ req[q].row.ver <= Stamp(clock) + 1
    BY <1>2, <2>1 DEF SerialInv, Versions, Dated
  <2>3. 0 < Stamp(clock) /\ Stamp(clock) \in Nat
    BY <1>2 DEF Stamp
  <2>4. Dated'
    BY <1>1, <2>2, <2>3 DEF Dated, Stamp
  <2>5. Unwritten'
    <3> SUFFICES ASSUME NEW q \in Slot, Fresh(q)'
                 PROVE  /\ sub.ver # Stamp(req'[q].now)
                        /\ \A a \in Slot : req'[a].row.ver # Stamp(req'[q].now)
      BY <1>1 DEF Unwritten, Stamp
    <3>1. CASE q = r
      <4>1. \A a \in Slot : req'[a].row.ver < Stamp(clock) /\ req'[a].row.ver \in Nat
        BY <1>1, <1>2, <2>2, <2>3
      <4> QED BY <1>1, <1>2, <2>2, <2>3, <3>1, <4>1
    <3>2. CASE q # r
      <4>1. Fresh(q) /\ req'[q].now = req[q].now
        BY <1>1, <3>2 DEF Fresh, At, Is
      <4>2. 0 # Stamp(req[q].now)
        BY <4>1, FreshUnbegun, Timely DEF Stamp
      <4>3. /\ sub.ver # Stamp(req[q].now)
            /\ \A a \in Slot : req[a].row.ver # Stamp(req[q].now)
        BY <4>1 DEF SerialInv, Versions, Unwritten
      <4> QED BY <1>1, <4>1, <4>2, <4>3
    <3> QED BY <3>1, <3>2
  <2>6. Stamped'
    BY <1>1, <2>2 DEF SerialInv, Versions, Stamped, Is, Stamp
  <2> QED BY <2>4, <2>5, <2>6 DEF Versions
<1>7. Settling' /\ Pending' = Pending
  BY <1>1, QuietSettling DEF SerialInv, Pending
<1>8. Knows(r)'
  <2>1. Placed(r)' /\ Cleared(r)' /\ ReadTrue(r)'
    BY <1>1, <1>3 DEF Placed, Cleared, ReadTrue, At, Is, Looking, Revivers
  <2>2. \A u \in Time : pays[u].st # "NOROW" => u <= clock
    BY <1>1, <1>2 DEF MoneyInv, Recorded, Time
  <2>3. Paying(r)'
    BY <1>1, <1>3, <2>2 DEF Paying, At, Is
  <2> QED BY <2>1, <2>3 DEF Knows
<1>9. ASSUME NEW q \in Slot, q # r PROVE Knows(q)'
  <2>1. Knows(q) /\ req'[q] = req[q]
    BY <1>1, <1>9 DEF SerialInv
  <2>2. Placed(q)' /\ Cleared(q)'
    BY <1>7, <2>1, Lasting DEF Knows, Placed, Cleared, At, Is
  <2>3. ReadTrue(q)'
    BY <1>1, <1>7, <2>1, Lasting DEF Knows, ReadTrue, At, Is, Live, Chargeable, Covers, Matched
  <2>4. Paying(q)'
    BY <1>1, <1>7, <2>1, Lasting DEF Knows, Paying, At, Is, Live, Chargeable
  <2> QED BY <2>2, <2>3, <2>4 DEF Knows
<1> QED BY <1>4, <1>5, <1>6, <1>7, <1>8, <1>9 DEF SerialInv

(* Every step keeps it.                                                     *)
LEMMA SerialStep ==
  ASSUME Typed, Typed', MoneyInv, SerialInv, InTurn(Payers), [Next]_vars
  PROVE  SerialInv'
<1>1. CASE Tick \/ EndOfTime \/ UNCHANGED vars
  <2>1. UNCHANGED <<req, sub, pays, pg, mailed, lastStart>>
    BY <1>1 DEF Tick, EndOfTime, vars, KeepRows
  <2>2. Arrived' /\ TurnsTaken' /\ Pending' = Pending
    BY <2>1 DEF SerialInv, Arrived, TurnsTaken, OneOf, InTurn, Running, Is, Pending
  <2>3. Versions'
    BY <2>1 DEF SerialInv, Versions, Dated, Unwritten, Stamped, Fresh, Stamp, At, Is
  <2>4. Settling'
    BY <2>1, QuietSettling DEF SerialInv
  <2>5. ASSUME NEW q \in Slot PROVE Knows(q)'
    <3>1. Knows(q) /\ req'[q] = req[q]
      BY <2>1 DEF SerialInv
    <3>2. Placed(q)' /\ Cleared(q)'
      BY <2>2, <3>1, Lasting DEF Knows, Placed, Cleared, At, Is
    <3>3. ReadTrue(q)'
      BY <2>1, <2>2, <3>1, Lasting DEF Knows, ReadTrue, At, Is, Live, Chargeable, Covers, Matched
    <3>4. Paying(q)'
      BY <2>1, <2>2, <3>1, Lasting DEF Knows, Paying, At, Is, Live, Chargeable
    <3> QED BY <3>2, <3>3, <3>4 DEF Knows
  <2> QED BY <2>2, <2>3, <2>4, <2>5 DEF SerialInv
<1>2. ASSUME NEW r \in Slot, NEW k \in Kinds, Start(r, k) PROVE SerialInv'
  BY <1>2, StartSerial
<1>3. ASSUME NEW r \in Slot, Step(r) PROVE SerialInv'
  BY <1>3, Finds, LookingSerial, FindSerial, ReadingSerial, MemberSerial, NoticeSerial, RecoverySerial,
     TokenSerial, CreateSerial, ChargeSerial, ApplySerial, DeclineSerial, FailureSerial,
     EndingSerial, UpdateSerial DEF Step
<1>4. ASSUME NEW r \in Slot, Crash(r) PROVE SerialInv'
  BY <1>4, FinishKept DEF Crash, Running, At, KeepRows
<1> QED BY <1>1, <1>2, <1>3, <1>4 DEF Next

(* So it holds as long as payers are served in turn.                        *)
LEMMA SerialAlways == InTurn(Payers) => (Spec => []SerialInv)
<1> SUFFICES ASSUME InTurn(Payers) PROVE Spec => []SerialInv
  OBVIOUS
<1>1. Typed /\ Typed' /\ MoneyInv /\ SerialInv /\ [Next]_vars => SerialInv'
  BY SerialStep
<1> QED
  BY <1>1, TypedInit, TypedStep, MoneyInit, MoneyStep, SerialInit, PTL DEF Spec

(* No period is charged twice when payers come one after another, whatever   *)
(* members and administrators do to the subscription meanwhile: what a crash *)
(* or a lost answer leaves behind is settled, and its period covered, before *)
(* the next renewal is written down.                                         *)
THEOREM NoneChargedTwice == InTurn(Payers) => (Spec => []NoDoubleCharge)
<1>1. SerialInv => NoDoubleCharge
  BY DEF SerialInv, Settling
<1> QED BY <1>1, SerialAlways, PTL

(* Every payment that was settled has been applied, and nothing else was:    *)
(* the seats of a running subscription are those of its last payment, when   *)
(* nobody writes a live status over a row beside a first payment.            *)
THEOREM SeatsArePaid ==
  InTurn(Payers) /\ ("START" \notin Kinds \/ Together) => (Spec => []SeatsMatchLastPayment)
<1> SUFFICES ASSUME InTurn(Payers), "START" \notin Kinds \/ Together
             PROVE  Spec => []SeatsMatchLastPayment
  OBVIOUS
<1>1. SerialInv => SeatsMatchLastPayment
  BY DEF SerialInv, Settling, Seated, Matched, SeatsMatchLastPayment
<1> QED BY <1>1, SerialAlways, PTL

(* prentc_dt is set on an ACTIVE row that is to be billed only after a       *)
(* notice that named the very date of its next bill.                         *)
THEOREM BilledAfterNotice ==
  InTurn(Payers) => (Spec => [](sub.bill # None => PrenoticeHonest))
<1>1. SerialInv => (sub.bill # None => PrenoticeHonest)
  BY DEF SerialInv, Settling, Noticed, PrenoticeHonest
<1> QED BY <1>1, SerialAlways, PTL

(* And whether it is to be billed or not, when only the manual plans are     *)
(* looked after beside another request.                                      *)
THEOREM NoticesAreTrue == Calm => (Spec => []PrenoticeHonest)
<1> SUFFICES ASSUME Calm PROVE Spec => []PrenoticeHonest
  OBVIOUS
<1>1. InTurn(Payers)
  BY DEF Calm, InTurn, Payers, AllKinds
<1>2. SerialInv => PrenoticeHonest
  BY DEF SerialInv, Settling, Noticed, PrenoticeHonest, Live, LiveStatus
<1> QED BY <1>1, <1>2, SerialAlways, PTL
=============================================================================
