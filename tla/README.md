# Formal model of SPECODE

This directory holds TLA+ modules that model the parts of the repository in which a
wrong interleaving loses money, files, access or work: subscription billing and
everything around it that several requests, jobs or browsers write at once. TLC
checks the modules on small instances; TLAPS proves the most important results for
every value of the constants. Korean comments quoted below are the repository's.

## 1. Inventory

| Component | State it keeps | Operations | What makes it hard | What makes it correct |
|---|---|---|---|---|
| **Subscription billing**: `lib/billing/subscription.ts`, `daily.ts`, `admin-actions.ts` | `tb_bl_subscription` (one row per member: status, seats, booked reduction, billing key, period, failures, operation token, `mdfcn_dt`), `tb_bl_payment`, plan mirror on `tb_cm_member` | first payment, card change, seat change, cancel, undo, daily item (charge, retry, end, notice), recovery sweep, admin retry/defer/terminate, withdrawal, manual-plan expiry | a gateway call between two transactions; crash at any await; reads used after other commits; token and version guards; timeouts | no approved money is lost, no period is charged twice, nothing is charged after an accepted end, plan mirrors subscription |
| **Payment gateway adapters**: `gateway-toss.ts`, `gateway-mock.ts` | none here; the gateway's own ledger | `charge`, `lookupCharge`, `cancelPayment`, card registration | lost answers, timeouts, retries | an attempt is declared failed only if surely not taken |
| **Refunds, webhooks, reconciliation**: `admin-actions.ts`, `webhook.ts`, `reconcile.ts` | REFUND rows, status of the payment | admin refund, webhook, stale-refund recovery, console cancellation, nightly report | two writers for one refund; crash between cancel and record; a webhook late, twice, out of order | every refund that counts is a cancellation the gateway made, counted once; the payment follows their sum |
| **Project lock and plan limits**: `lock.ts`, `seats.ts`, `planLimits.ts` | `lock_yn` of projects | lock all, unlock all, unlock one, swap, create, restore, plan changes | check-then-act, some of it without the row lock | a FREE owner has at most one open project and is never left with none by a swap |
| **Pricing** `pricing.ts` | none | proration, anchor day, next period end | month ends, zero amounts | proration is monotone and bounded |
| **Batch runner** `lib/batch/runJob.ts` | `tb_cm_batch_job`, items | start, run items, close, take over a stale job | find-then-create; a stale job may still run | one job at a time; a dead job is taken over; lost attempts get settled |
| **Refresh-token sessions** `refreshTokenRotation.ts`, `api/auth/*` | token rows, session rows, the cookie | refresh, grace, reuse detection, logout, login | `now` captured before the row is read; logout against refresh | a token is exchanged once; an ended session gets none |
| **Client-side session refresh** `authRefreshClient.ts` | tokens per tab, Web Lock, broadcasts | refresh once for all tabs | several tabs, lost answers and messages, no lock | tabs do not look like thieves; a refresh ends |
| **Attachments and storage** `storageUpload.ts`, `batch/storageCleanup.ts`, `batch/storageAudit.ts` | pending rows, attachment rows, objects in a bucket | prepare, put, complete, abort, delete, daily cleanup, weekly audit | two stores no transaction spans; jobs against completions | no job takes a recorded attachment; nothing is left behind for ever |
| **AI task queue** `api/worker/tasks`, `ai-tasks` | task rows, the artifact's text | request, list, start, complete, cancel, reject, retry, relabel, delete | check-then-update by users against conditional updates by workers | one worker per task; a result is written once |
| **Spec sync** `lib/spec-sync` | runs, findings, design texts | start, submit, cancel, review | decisions, edits and late results race | a finding is written over the analysed text only; a closed run stays closed |
| **Membership and invitations** | members, invitations, `owner_mber_id` | invite, accept, remove, change role, transfer, leave, withdraw | each checks and later writes by key | exactly one OWNER |
| **Project lifecycle** `projectLifecycle.ts`, purges | deletion marks, members taken out | delete, restore, purge | purge against restore; dates identify members | a restoration is exact; nothing active is purged |
| **Concurrent content writes** `specContentPolicyCore.ts`, `specContentWriteConcurrency.ts`, `requirementHistoryVersion.ts` | requirement row, history versions | full save, rename, inline edit, history delete | policy checked before the row is read | versions are distinct; the creator's late save undoes nobody's work |
| **QA test rounds** `lib/qa`, `test-specs` | specification, cases, rounds, results | save cases, open, judge, close, reopen, delete | cases change while rounds are open; status read before the transaction | open rounds cover the cases; a closed round is a record |
| **Login lockout, rate limit** | counters | attempt, lock, release | read-then-write counter | not modelled |
| Support session | an administrator's time-limited grant | open, end, expire | expiry against use | not modelled |
| Specification editor, PM screens, exports | rows edited one at a time | forms, lists, reports | none a checker reaches | not modelled |
| MCP server, prompt templates | none of their own | request translation | none | not modelled |

How they interact: routes (`app/api/...`) call the services; the nightly routes load
targets and hand each to `runJob`'s item handler, one at a time (billing, purge,
storage); a charge or a refund goes to the gateway between two transactions; a
completion goes to the bucket between two database calls; activation, end, transfer
and restoration call `lock.ts` inside their transaction; the deletion of a project
takes its members out and its restoration brings them back; the rest of the program
reads the plan mirror only.

`PROJECT.json` lists the same components with their status and every hazard with
its line.

## 2. Plan

| Step | Modules | State |
|---|---|---|
| Billing: one member, every request, crashes, lost answers, a clock; its ledger; its theorems | `BillingCharge`, `ChargeLedger`, `MCBilling`, `BillingMoneyProofs`, `BillingTokenProofs`, `BillingSerialProofs` | done |
| Around the payments: refunds, the runner of the nightly jobs and the liveness of a lost attempt, the owner's projects | `RefundLedger`, `BatchRunner`, `ProjectLocks` | done |
| Sessions and files | `RefreshSessions`, `StorageUpload` | done |
| Work and people | `AiTasks`, `SpecSync` with its abstract specification `GuardedEdit`, `ProjectMembers`, `ContentEdit`, `TestRounds` | done |
| Proofs for the other modules | `DocumentProofs` (rounds, content, AI tasks, spec sync), `ProjectProofs` (locks, members), `ServiceProofs` (storage, sessions, batch), `RefundProofs` (refunds), `CompositionProofs` (the runs `records` and `services` as wholes) | done |
| Still wanted | seats over all projects of an owner beside billing; content policy of screens, functions and areas | open |

Modules that share no state in the program are checked side by side in one run:
`MCServices` those with liveness, `MCRecords` those with safety only. The variable
`part` (`service` in `MCServices`) chooses the one a behaviour exercises; the others stay in their initial
state, so a run is the union of the instances, never their product.

## 3. What is modelled

### BillingCharge

A *request* is a process in `Slot`. Each `await` is a step, so two requests interleave
between a read and the statement that uses it. A `$transaction` body commits as one
step; the reads before it are steps of their own, and a conditional `updateMany` is one
step whose WHERE clause is evaluated on the row as it is (READ COMMITTED). The transaction of a recovery
reads and then writes, under that isolation: its reads of the member and of the subscription are steps too, and others commit
between them and the write. What it has marked as PAID itself is locked until it commits
(`PaymentRowFree`), which keeps away whoever would settle the attempt or open the next; an attempt settled before locks nothing. `Crash(r)`
may stop a request before any of its steps: what is committed stays.

| Variable | Code |
|---|---|
| `sub` | the member's `tb_bl_subscription` row; `op` is `billing_op_token` (named by the `now` that issued it), `ver` is `mdfcn_dt` |
| `mem` | plan, expiry, status and `mdfcn_dt` of `tb_cm_member`, and whether the owned projects are locked |
| `pays` | `tb_bl_payment` by order; one request makes at most one order, named by its `now` |
| `pg` | the gateway's ledger: orders whose money was taken |
| `mailed` | due dates named in advance-notice mails |
| `req[r]` | program counter, kind, captured `now`, rows last read |
| `clock`, `lastStart` | time in ticks; two requests have different `now` |

`mdfcn_dt` values: a write of `now` is `Stamp(now)`, and the claim writes
`Bump(now, read) = max(now, read + 1)` as the code does (subscription.ts 993-1001). A tick
is two versions, so `read + 1 ms` lies between two requests.

| Actions | Code |
|---|---|
| `Start`, `Crash`, `Tick` | routes, batch loader; process death; time |
| `FindPending`, `LookupCharge`, `LookupUnknown`, `SettleNotCharged` | `resolvePendingPayments` (1300-1338) |
| `FindMember`, `FindExisting`, `ApplyRecovered` | `applyRecoveredCharge` (1354-1418): the member of a first payment, the subscription, the change guarded by the token only |
| `FindSubscription`, `RequireActiveForSeatAdd` | the first read of each caller and its early returns |
| `ReadMemberVersion`, `ClaimMember` | `claimMemberForBilling` (1054-1064): a read, then a conditional update |
| `BeginBillingOperation`, `ReleaseBillingOperation` | 987-1009 |
| `CreatePendingAttempt`, `NoBillingKey` | 1125-1157 with the UNIQUE `pndng_lock_key`; a charge with no card fails at once |
| `ChargeApproved`, `ChargeNotMade` | `gw.charge`: approved or not, answer known or lost |
| `ApplyCharge`, `SettleDeclined`, `RecordRecurringFailure`, `ExpireSubscription` | the transactions that follow the answer |
| `AssertNoPendingCharge`, `GuardedSubscriptionUpdate`, `RereadUpdated`, `TerminateSubscription`, `Withdraw` | changes outside a charge |
| `ProcessExpiredManualPlan`, `Refetch`, `SendNotice`, `RecordNotice` | daily.ts |

The twelve kinds of request: START (card registration with first payment), CARD
(replacing the card, which charges at once when PAST_DUE), SEAT, CANCEL, UNCANCEL,
DAILY (one item of the nightly job), SWEEP, RETRY, DEFER, TERMINATE (administrator),
WITHDRAW, MANUAL (expiry of a hand-given plan). `Batch` names the kinds of which one
runs at a time because `runJob` and the sequential item loop exclude the others.

Definitions whose comment begins with "Slip" are not part of the model: each is a
plausible mistake in the definition that follows it, named under `mutants` in
`PROJECT.json`, and the property it must break.

### ChargeLedger

The promise of the comment at subscription.ts 32-42: an attempt is recorded before it may be
taken, at most one is open, it is closed once, as what happened; a closed one is never
taken. `BillingCharge!Ledger` is its refinement mapping: `att` is the status column of
`pays`, `taken` is `pg`.

### The other modules

In each, a request is a record that says where it stands between its awaits and what
it has read; a `$transaction` is one step unless its statements can be interleaved by
somebody who takes no lock it holds (`SpecSync`, `ContentEdit`, `ProjectLocks` and `RefundLedger`
have the row locks as variables for that reason).

| Module | Variables and code | Steps a request is made of |
|---|---|---|
| `StorageUpload` | `file`: pending row, attachment row and object of one path; `handler`: per process; ages in ticks | prepare, put, complete (find pending, check size, insert and consume, or undo), abort (find references, remove, forget), delete, daily cleanup (load, claim, look, remove), audit (load, look, remove); a crash or a store error at any of them |
| `RefreshSessions` | `token`, `session`, `cookie` on the server and in the browser, `call` and `tab` per tab, `lockQueue`, broadcast news | server: clock, token, session, exchange or reuse; tab: lock or wait for a peer, send, receive; after an error of a tab that got the lock at once, let go of it and send again without it (`CatchError`, `Resend`); logout and login; lost connections and messages |
| `BatchRunner` | `job` rows, `runner` executions, `attempt` per member | look, mark a zombie, create, load, item by item, close; attempts open, close, get lost |
| `RefundLedger` | `refund` rows, `paid`, `cancels` at the gateway, `admin` requests, `hook`: the webhook that holds the payment's row | prepare, cancel (answer lost or refused), confirm or fall back; webhook: lock, then per entry look for its key, look for a row to link, link or create, and close; stale recovery, console |
| `ProjectLocks` | `prj`, `ownerPlan`, `opener` requests, `memberRow` (who holds it) | decide, then write; swap and plan changes under the row |
| `ProjectMembers` | `project`, `member`, `asked` requests, `purger` | `Ask` is the check of each route, `Writes` its later write by key |
| `AiTasks` | `aiTask`, `artifact`, `aiWorker`, `aiUser` | worker: list, start, complete; users: check, then overwrite |
| `SpecSync` | `design`, `syncRun`, `item`, `agent`, `reviewer` | start (look for the key, create), submit (lock the run, store), review (lock run and item, lock target, compare, count pending, commit) |
| `GuardedEdit` | texts and proposals | the promise of a review; `SpecSync!Review` is the refinement mapping |
| `ContentEdit` | `req`, `history`, `rowHeld`, `saver` | policy, read, window again under the row lock, update, plan version, insert |
| `TestRounds` | `spec`, `testCase`, `round`, `result`, `tester` | read, then a SERIALIZABLE transaction |

History variables (`crossed`, `labelled`, `raced`, `overtaken`, `plain`, `blurred`,
`reopened`, `undone`, `stray`, `unrepaired`, `late`) record only that a window the
code leaves open has been hit. A property that excuses such a behaviour is the
strongest that holds; section 6 says what happens in the window.

## 4. Properties

| Property | Hazard |
|---|---|
| `ApprovedNeverLost` | money taken whose row is closed as FAILED (crash, lost answer, premature recovery) |
| `LedgerSpec` | two open attempts, a row closed twice or against the gateway |
| `NoDoubleCharge` | overlapping paid periods |
| `OneFirstPayment` | two submissions of the registration callback |
| `NoChargeAfterCancel` | a charge that was decided before a cancellation was accepted |
| `TokenHeld` | another request takes over a token while its owner is charging |
| `PlanMirror` | plan and project lock disagree with the subscription |
| `EndedStaysUnlessReapplied` | an ended row revived by a late writer |
| `RecoveredWhileLive` | a recovery that applies a renewal or seats to a row that has ended since the status was read |
| `SeatsMatchLastPayment` | a payment settled and not applied, or a seat count nobody paid |
| `LeftWithoutSub`, `NoSubAfterWithdrawal` | the subscription of somebody who left stays or comes back to life |
| `PrenoticeHonest` | `prentc_dt` says a notice was sent that was not |
| `AppliedOverAnalysed` | a finding written over a text its author never saw |
| `ClosedStaysClosed`, `ReviewStatusTrue`, `OneRunPerKey` | late results, racing last decisions, repeated starts |
| `OneWorkerPerTask`, `ResultShownOnce`, `ShownOnlyWhenDone` | two workers on a task; a repeated or late report |
| `AttachedKept`, `UploadsSettle` | a job takes a file somebody is recording; crashes between two stores |
| `CountedIsReal`, `StatusFollowsRefunds` | a refund both requested and reported by webhook; crash after the cancellation |
| `OneSuccessor`, `EndedSessionGetsNoToken`, `NoFalseAlarm`, `RefreshSettles` | tabs that refresh at once, logout in between, lost answers |
| `AloneUnlessRaced`, `PendingSettles` | two triggers, a zombie job, an attempt that blocks its member |
| `OneOpenUnlessPlain`, `ClosedForAnother` | plan change, swap, creation and deletion crossing |
| `OneOwnerUnlessOvertaken`, `RestoreIsExact`, `ActiveNeverPurged` | transfers and departures crossing; who a restoration brings back; purge against restore |
| `VersionsDistinct`, `CreatorUndoesNoOther` | two saves of one requirement |
| `OpenRoundsCover`, `ClosedIsJudged`, `ClosedIsRecord` | cases that change while rounds are open or closed |

Some cannot hold for all mixes of requests: see section 6. The passing runs check each for the
mixes in which the code does keep it, and the violating runs pin the mixes in which it
does not.

## 5. Runs and bounds

| Run | Requests | What it shows |
|---|---|---|
| `charges` (`BillingCharges.cfg`) | START SEAT DAILY SWEEP, two at once | types, `ApprovedNeverLost`, refinement of `ChargeLedger` |
| `serial` (`BillingSerial.cfg`) | all twelve kinds, one after another, any may die anywhere | what a crash leaves behind is repaired and nothing is charged twice |
| `ends` (`BillingEnds.cfg`) | SEAT TERMINATE WITHDRAW SWEEP beside a nightly job working item by item (DAILY and MANUAL), two at once | the end is mirrored; recoveries take effect on live rows; nothing but the second of two recoveries of one attempt undoes it |
| `cancels` (`BillingCancels.cfg`) | CARD CANCEL UNCANCEL DAILY SEAT TERMINATE, two at once | the token protects a charge in flight; nothing is charged after an accepted cancellation |
| `services` (`Services.cfg`) | uploads, a login session, batch jobs | they end, under the fairness below, and the safety beside it |
| `records` (`Records.cfg`) | storage, refunds, sync, members, locks, AI tasks, content, rounds | two requests of each kind between check and write |
| `active_purged` (`ActivePurged.cfg`) | one project, two requests, the purge | an active project is deleted for good: section 6 |
| `double_renewal`, `double_first`, `revived`, `withdrawn_charged`, `stale_expiry` | two kinds each | a stated rule that the code does not keep: section 6 |

Bounds of the billing runs, and why they are enough:
- `Horizon` 4 or 5 ticks: with `Stale` 2 an attempt can be lost at tick 1, looked up at 3, and
  its period renewed again before the end; each tick starts at most one request, so up to
  six requests follow one another in a behaviour.
- `Period` 2, and 3 in `serial`, where it must exceed `Stale`: only then does a second charge
  after a recovery still cover the period the first one paid.
- `Life` = 1, `OpTimeout` = 1, `Stale` = 2 are the smallest values with the order
  `Life <= OpTimeout < Stale` of the code: Toss connect and read timeouts with retries and
  lookup add up to about 195 s, `BILLING_OP_TIMEOUT_MS` is 5 min and
  `PENDING_PAYMENT_STALE_MS` 10 min (constants.ts 189-201). The proofs use that order only.
- `RetryGap` 2, `MaxRetry` 1: first failure, one retry, expiry. `RetryGap > Life` makes
  the retry step after a refetch in the same daily item unreachable, as in the code
  (days against minutes).
- Two seat counts: an addition and a reduction. Two slots: every hazard listed needs two requests alive
  at once, plus earlier ones that have ended or died. Slots are interchangeable
  (`SlotSymmetry`); only safety is checked, so the symmetry is sound.
- `ends` has `Horizon` 5 and SWEEP outside `Batch`: two resolvers of one lost renewal need a charge that
  dies, `Stale` ticks, and two requests that resolve beside one that ends. A SEAT cannot be one of them, since `requireActiveForSeatAdd` refuses
  once the period is over (no renewal is lost before that); RETRY resolves, but it charges too and is outside `EndingKinds`. So the sweep is free to run beside the nightly
  items and twice at once: it stands for any resolver, which adds behaviours and takes none away.
- The initial rows (`InitialSub`, `InitialMember`) are what a settled history leaves: paid up,
  cancelled to the period's end, behind by some failures, ended, or none.

The billing runs assume no fairness and check no liveness: a request may always die.
`EndOfTime` lets the model stop at the last tick only,
so TLC's deadlock check, which is on in every run, still finds a request stuck half-way.

Assumptions on the outside: the gateway does not approve an order after a lookup has
said NOT_CHARGED; a request ends within `Life`, and the start times of two requests differ;
the member owns at least two projects, so that locking is visible. While the withdrawal
transaction holds the member's row other writers of that row wait (`MemberRowFree`);
a deadlock abort by the database equals `Crash`.

Bounds of `services` and `records`:
- One upload, one path: paths are never shared (each holds a fresh id), so uploads meet in no
  variable. `TokenLife` 1 < `Retention` 2 = `Grace` 2 keeps the order of 2, 24 and 24 hours. Two clients
  complete, abort or delete the same upload beside both jobs; one fault.
- Two tabs, three tokens, two sessions: a refresh, a retry that meets the revoked token, a logout or
  reuse, and a new login. `ReuseGrace` 0 with a clock of one step makes both sides of the grace reachable. A tab has one request on the
  server at a time: one that is sent again after an error goes out when the server is done with the broken one.
- Two executions, three job rows, one member: a zombie, its successor and the row before.
- Two administrators, `Price` 2, three refund rows, two cancellations: partial, repeated and full refunds.
- Two runs, two findings in all, one text with two values, two agents, two reviewers: two decisions on
  one run and two findings about one text are the cases the locks are there for.
- Two people with two requests: transfer, leave, remove and delete crossing in pairs; two projects of one owner, one of them
  shared: one that is open and one to exchange it for; two tasks,
  two workers, one user beside them; two saves, two members, history of two rows; one case with one wording, two rounds, two testers.
- The same two processes `p1`, `p2` are the clients, administrators, agents, workers and testers of every part of `records`. Nothing
  tells one from the other and only safety is checked there, so `ProcessSymmetry` is sound.

Deadlock is not checked in `services`, `records` and `active_purged`: their bounded counters (faults, tokens,
tasks, versions, runs) end behaviours.

Fairness, stated in `ServicesSpec` only:
- weak on time passing for uploads and on each step of the two storage jobs, strong on their loading an upload
  that keeps being due: cron starts them every night, `runJob` goes through its targets, and a target that
  fails is loaded again the next night. Users get none: they may abandon an upload at any step.
- weak on the steps of the server and of a tab that is open: an event loop runs what is ready, and the waits of a
  tab end by a timer (`PeerTimeout`). Whether an answer arrives is not assumed.
- weak on the trigger of the job (cron) and on the steps of a living execution, strong on the clock of the batch
  (a tick waits for nothing but its bound); none that an execution survives.

## 6. Where the code and its own statements differ

Each is a run whose property TLC finds violated, listed under `findings`.

- **double_renewal**. A claim writes `mdfcn_dt = max(now, read + 1)`, and applying the charge writes
  `mdfcn_dt = now`: usually the same value. A retry that read the row between claim and
  result finds "its" version again, claims, and charges the same period under a new order. The comment
  at subscription.ts 990 says the bump is there to prevent exactly that. The same root lets
  an EXPIRED row be charged, and lets a stale renewal undo a seat addition.
- **double_first**. `claimMemberForBilling` reads the version it then compares after the check that no
  subscription is live, so a second submission claims the version the first one wrote.
- **revived**. `guardedSubscriptionUpdate` has no condition on the status its caller checked: a
  cancellation makes a terminated row CANCEL_SCHEDULED while the member is FREE. In the same way a
  card change stores a key on an ended row.
- **withdrawn_charged**. The live path of a first payment does not look at the member's status.
- **stale_expiry**. `processExpiredManualPlan` downgrades whoever was selected when the batch was loaded.

- **active_purged**. `cleanup/projects/execute/route.ts` checks `del_yn` when it loads its targets (line 108: an active
  project never passes); each is deleted later, after the ones before it, with no second look, so a project
  restored in between is deleted for good while ACTIVE. The nightly purge has the same shape, but a
  restoration after `hard_del_dt` is refused, which closes the window there.

Text only: comments give the token two minutes (subscription.ts 22, 27, 966); the constant is five.

Met while modelling, and kept in the models as the code has it (no run of their own; the history
variables of section 3 mark them):

- *A deferral beside a renewal*. `adminDeferBilling` adds its days to the dates of the row it read (admin-actions.ts 115-121), and
  the guarded update compares no version. If the read falls into a renewal whose result is applied before the write, token
  and PENDING row are gone, the dates of the period before come back, and the next renewal charges days already paid,
  although the comment (108) says a deferral only makes the free period longer. It came up when `NoneChargedTwice`
  would not go through with DEFER left free; `DoubleRenewal.cfg` with `Kinds = {"DAILY", "DEFER"}`, `Batch = {"DAILY"}`
  and `Origins = {"ACTIVE"}` shows it in a second.
- *Recoveries*. A recovery that finds the row settled meanwhile logs it as CRITICAL and applies its effect all the same (subscription.ts 1159-1183 and its callers).
  `applyRecoveredCharge` reads the status (1385-1386) and then updates by id and free token only (1245, 1260). As long as the attempt is its own
  to settle, the PENDING row keeps everybody from ending the subscription: `RecoveredWhileLive`. A second resolver of the same
  attempt has matched no row (1160-1175) and holds no lock: a termination between its read and its write leaves the row ACTIVE without a card, the
  member on the paid plan and the projects open, against the comment at 1296 ("구독이 살아 있지 않으면 반영 없이 CRITICAL"); a withdrawal in that place
  leaves a live subscription to somebody who has left, and a first payment has the same window between 1372 and its upsert. `Reapplies` marks
  this write; `EndedStaysUnlessReapplied`, `LeftWithoutSub` and `RecoveredWhileLive` exempt it and show that no other has that
  effect. Take `~Reapplies(r)` out of `RecoveredWhileLive` and TLC finds such traces with `BillingEnds.cfg` in seconds. A reduction of seats booked after the first settlement is lost to the second in the same way.
- *Sessions*. A refresh that commits with a later `now` than the one a second request captured makes `elapsedMs`
  negative, which `classifyRevokedRefreshTokenUse` takes for reuse; without Web Locks two tabs can do this to each other. With them too, after a lost connection: the tab that had the lock sends again without it
  (authRefreshClient.ts 315-319, "the server's CAS keeps the token from being used twice"), beside the next tab in the queue, so `NoFalseAlarm` exempts
  behaviours with a fault. A logout
  whose token was rotated by another tab finds it revoked and answers as if already logged out, and the
  session lives on. A late 401 clears the cookie of a newer login.
- *Uploads*. Two completions of one upload: the loser's undo removes the object the winner recorded. The same happens to an abort that
  looked for references before the completion recorded them.
- *Jobs*. Two triggers that look before either creates its row both run.
- *Refunds*. A stale PENDING refund is closed as FAILED and subscription.ts 1313-1314 relies on the webhook or the
  reconciliation to notice if the money did go back ("실제로 취소됐다면 웹훅 대조·거래 대사가 ADJUSTMENT 로 잡는다"). `reconcileRefunds` looks for the refund row without its
  status and `reconcile.ts` compares key and amount only, so a FAILED row whose cancellation is known is
  linked and not corrected. A cancellation for which no refund is open, made in the console or by an administrator whose row the recovery
  has closed meanwhile, can count for a refund of the same amount that was never cancelled (`stray`). The lock of the payment is there so that webhooks and
  administrators do not cross (webhook.ts:115, "원 결제 행을 FOR UPDATE 로 잠가 관리자 환불 기록과 교차하지 않게 한다"), but the fallback of a failed confirmation
  (admin-actions.ts 338-341) writes without it: between the webhook's look for an entry's key (line 133) and its look for a row without one
  (line 136) the row gets its key, and the webhook writes a second REFUNDED row for the same cancellation (`crossed`).
- *Members*. Every route writes by key after its check: two transfers, or a transfer and a departure, can leave a project with two
  owners or none, although role/route.ts 82-84 says no path may ("소유자가 0명이 되는 상태를 어떤 경로로도 만들지 않는다"). Two deletions
  reset `del_dt`, which then no longer finds the members the first took out; a late ROLE write on a removed member, or two restorations, have similar effects.
  restore/route.ts takes everybody REMOVED since `del_dt` for a member the deletion took out, because every other API is
  closed during the retention (95-96, "보관 기간 동안 다른 API 가 모두 차단되므로 이 시점 이후 자연 발생한 REMOVED 는 없다"). Neither the acceptance of an invitation nor the removal of a member
  (members/[memberId]/route.ts) looks at `del_yn`, in the code as in the model: who joins the deleted project and is removed again would be brought back. `RestoreIsExact` is about those who were
  members when the deletion committed.
- *Locks*. Plain unlock, creation and restoration do not take the row `swapOpenProject` takes (lock.ts 163-164), so two projects of a FREE owner can be open.
- *AI tasks*. A cancel that checked before a completion overwrites DONE; the artifact is read as empty and updated in two steps; an older task
  completed late overwrites a newer result; two retries make two tasks; PUT of an artifact writes back the text it
  was opened with; `generate` deletes a task whose attachments failed, even if a worker has started it.
- *Content*. PUT of a requirement writes back fields it read before its transaction, the scope included, which comments reserve to
  managers (route.ts 243); `/name` and `/progress` do not check the creator's window again; V1.0 of the history is
  the content before the transaction; bulk import writes `?? existing` values.
- *Test rounds*. PUT of a round without a status writes the one it read before the transaction (route.ts 180): a save
  that read DONE closes a round that was reopened meanwhile, unjudged cases included (against line 234), and leaves the specification IN_PROGRESS.
  Reopening a round does not add results for cases added while it was closed (roundResultSync.ts 4-18 wants every open round to have them).

## 7. Proofs

Every theorem holds for every value of the constants that satisfies the `ASSUME` of the module it is
about and the hypotheses it names. `PROJECT.json` lists them with the property each states. Each
follows the same line: an inductive invariant, one lemma per action or group of alike actions, one
that joins them over `Next`, and the temporal step. TLC has checked every inductive invariant on a
small instance before its proof was begun.

### Billing

`BillingMoneyProofs` and `BillingTokenProofs` hold for any set of slots, any horizon, and
any values with `Life <= OpTimeout < Stale`.

- `TypeCorrect`: `Spec => []TypeOK`. `TypeOK` is not inductive alone: the row of an order is
  indexed by the `now` of a request, so `Typed` adds that a running request's `now`, and the order
  being looked up, are ticks of the model.
- `NeverLost`: `Spec => []ApprovedNeverLost`. The inductive invariant is `MoneyInv`, with the
  parts `Clocked` (a running request started at its own tick and has not outlived `Life`),
  `Recorded` (a request that has not created its attempt has no row; at most one row is open),
  `Own` (who is charging has an open row not yet taken; who applies was approved; who was declined
  was not), `Looked` (an order being looked up is at least `Stale` older than the request doing
  so, and what it was told is true), and `PaidOnlyIfApproved`. The argument rests on
  `LookedIsOld`: `tgt + Stale <= now <= clock <= now' + Life < now' + Stale`, so an order being looked up
  is never that of a request still running. Take away `Life < Stale` and recovery can close an attempt the gateway
  then approves.
- `LedgerImplemented`: `Spec => LedgerSpec`. From `MoneyInv` every step maps to one step
  of `ChargeLedger` or to a stutter: `Closes` names the order and the outcome of the four closing
  actions.
- `TokenKept`: `"START" \notin Kinds => (Spec => []TokenHeld)`. The inductive invariant `TokenInv` is
  `Held` (`TokenHeld`, and the owner still holds the token when it ends the subscription)
  with `NoFirstPayment`. `HolderAlone` is the argument: `lastStart <= clock <= now' + Life <= now' + OpTimeout`,
  so the token of a running request has not expired for any other, and a statement guarded by
  the token finds no other holder. A first payment plants no token and sets the row as a
  whole. The hypothesis cannot go: a second first payment (`double_first`) that finishes while a renewal
  holds the token clears it, so `TokenHeld` fails once `START` is among the kinds.
- `CancelStopsCharges`: `"START" \notin Kinds => (Spec => NoChargeAfterCancel)`. A charge begins in the version
  its request has read, so what is needed is that a cancellation writes a version nobody has read and that
  nobody writes that version again. `CancelInv` says so: `Versioned` (the version is the time of a request that
  has written the row, or one more while a token is planted which that time does not outlive), `RowsPast`, `Unwritten` (the
  version a request is going to write has been neither written nor read), `CardClear` (a card replacement
  never recovers another's attempt: one made since it looked is too young) and `CancelSeen` (after a
  cancellation nobody may begin a charge and nobody holds the token). That a claim and its
  result may write the same version, the root of `double_renewal`, is the second half of `Versioned`: the token in between keeps
  the cancellation out.
- `MirrorsSubscription`, `NoneAfterWithdrawal`, `EndedStays`: `PlanMirror`, `LeftWithoutSub` and `EndedStaysUnlessReapplied` for the
  kinds of `EndingKinds` (seat change, nightly item, sweep, deferral, termination, withdrawal, manual-plan
  expiry) with one nightly item at a time. `EndsInv` adds to `CancelInv` that nobody begins a charge of an ended subscription
  (`FarBehind`), that a nightly item with the token has a live one (`DailyLive`), that who found none live
  still finds none (`StillOver`), and what keeps a recovery honest between its read and its write: an open attempt holds the token, and its renewal
  is that of a live subscription, which whoever comes late enough to find that token expired has to settle first (`OpenHeld`, `OwnClosed`); a plan given by hand is one of a
  member who has never paid (`OnGrant`). The write of a recovery whose attempt was settled by another (`Reapplies`) has no such hold on what it read:
  the two action properties exempt it, `PlanMirror` does not need to. Each hypothesis is needed: START crosses a manual expiry (`stale_expiry`), CANCEL and UNCANCEL write a row that has ended
  (`revived`), and a CARD, a RETRY or a second nightly item whose last charge fails ends the
  row in the version that charge has written, in which the other nightly item may then begin its own. TLC finds each of them.
- `EndedCardGone`: `"CARD" \notin Kinds => (Spec => []EndedHasNoCard)`, first payments included; no run checks it. Every other step that ends
  the row drops the key, and none sets it on an ended row. A card replacement stores one without looking at
  the status (section 6, `revived`).

`BillingSerialProofs` is about the requests that charge, recover or move the dates, the `Payers` START CARD SEAT DAILY SWEEP RETRY DEFER,
coming in turn (`InTurn`: one slot, or these kinds within `Batch`), each of which may die at any step, beside any number of requests of the other five
kinds at any moment.
- `NoneChargedTwice`: `InTurn(Payers) => (Spec => []NoDoubleCharge)`. `SeatsArePaid`: `SeatsMatchLastPayment`, where CANCEL and UNCANCEL take turns
  too if first payments occur. `BilledAfterNotice`: `PrenoticeHonest` for a row with a date of payment; `NoticesAreTrue`: for every row, when
  all but the manual expiries take turns.
- `SerialInv` has three parts. `Settling` is about the rows, whoever is at work: an open attempt is the newest, holds the token, and
  a renewal's pays for time not yet covered (`Opened`); the period of a live subscription covers what was taken for it, unless still open
  (`Covered`); flag and mails agree (`Noticed`); the seats are those of the last payment settled (`Seated`); a first payment
  in the making has no live row beside it (`Unstarted`). `Versions` is about who wrote the row when: no row is newer than the last
  request (`Dated`), nobody has the version a payer is about to write (`Unwritten`), and a row that has changed since it was read shows it
  (`Stamped`). `Knows` is about the payer at work: where it stands (`Placed`), that no attempt is open where it has looked for one or
  settled it (`Cleared`), that what it has read is still so or the version tells (`ReadTrue`), and where its own charge stands (`Paying`).
- `Opened` carries a crash over to the next payer: the attempt it left keeps token and period until it is settled. `Covered` alone is not inductive:
  a renewal must know, from the version, that the row it claims is the one it has read, which takes `ReadTrue`, and for that `Stamped` and `Unwritten`.
- TLC checked `SerialInv` before it was proved, with two slots and Horizon 4: CARD SEAT RETRY DAILY SWEEP in turn beside CANCEL UNCANCEL TERMINATE.
- The proof has two kinds of step: a payer's own (`PayerKept`) and any other request's (`OutsiderKept`), of which only `Outside` matters: it
  opens and closes no attempt, and writes the row only under a free token, keeping seats, period and flag. That two payers are never at work together is `TurnsTaken`.
- Each hypothesis is needed. Two payers at once: `double_renewal`; DEFER beside DAILY: *A deferral beside a renewal* in section 6. A CANCEL or UNCANCEL that read a live
  row may write it after it ended (`revived`). Beside a first payment that found it ended, the payment is settled over a live row with the seats
  it had, or is not applied at all; alone, it may leave a row ACTIVE and marked as announced that has no date of payment, which `BilledAfterNotice` leaves to `NoticesAreTrue`.

The money proof sorts the actions by what they do to the payments (`QuietMoney`, `LookingMoney`,
`ClosingMoney`, `CreatingMoney`, `ApprovingMoney`, `DecliningMoney`) and then shows which kind each action is; the later ones
sort them by their effect on token, version, status and card (`TokenEffect`, `StatusEffect`, `CardEffect`).

### Files, sessions, jobs: `ServiceProofs`

- `KeptAttached`: `StorageSafety => []AttachedKept`, from `TokenLife <= Retention` and `TokenLife <= Grace` alone. `StorageInv` says of each
  upload that its pending row is consumed once
  (`Consumed`: where the cleanup holds it, `Held`, there is no pending and no final row) and that an object the audit has found old
  (`Seen`) cannot be replaced by a younger one under the same path, since the token that could has expired (`Aged`). A
  row inserted after the second look has found none (`Cleared`) is therefore late. Without `TokenLife <= Grace` a new upload
  could take the path between the looks.
- `OneLiveToken`, `TokensForValidSessions`: for any tabs, clock and faults. `OneSuccessor` is kept by the conditional update
  of the rotation together with `RowsFit` (a token not minted has no row; the parent of a token is revoked).
- `NoStrikeUnlessLost`: `NoFalseAlarm`, that with Web Locks and nothing lost no valid session is struck. `LockFits` says that who refreshes is the head of
  the lock queue, `CallFits` where a tab stands while its call is under way. From the two, lemma `Alone`: no two refreshes are on the server at once. `Calm` follows
  a good token, one that is live unless its session has ended, from the cookie through the call to the answer. With a
  fault, or without the lock, `Calm` is false: section 6, *Sessions*.
- `JobsExclude`: `AloneUnlessRaced`. `BatchInv` adds that a fresh execution's row is RUNNING, its own, and
  about to be marked as a zombie by nobody (`RowsOwned`), and that whoever has looked and found nothing fresh has raced everybody who starts or
  works (`StartersRaced`).

### Refunds: `RefundProofs`

- `CountedReal`: `RefundSpec => []CountedIsReal`, for any administrators, price, rows and faults. `BooksInv` holds whatever happens:
  rows and cancellations are written one after the other (`RowsPrefix`, `CancelsPrefix`), a key is that of a cancellation of the row's amount (`RowFits`), at most one row is open
  (`OnePending`), and an administrator has a row of his own, cancelled once (`AdminFits`, `OwnRows`). This gives the first half. For the second, `Calm` is what
  holds until a `stray` or a `crossed`: rows are cancelled in the order they were written (`Ordered`, `LastOpen`); a cancellation not yet on
  the books has its row free (`Awaited`), so a webhook always finds a row to link and creates none; and that row, the oldest free one of the amount,
  is the cancellation's own or an older one, which a refund that counts never is, since its own cancellation is an earlier entry and has been
  dealt with (`OwnKeys`, `HookCalm`).
- `StatusFollows`: `PaidFits` adds to the property that the payment is PAID no more only if something counts. From `BooksInv` every step either
  leaves what counts as it was, stays inside a webhook's transaction, sets `unrepaired`, or writes the status from the sum. The sum over the rows is a recursive function; of it the proof needs only that it is a natural number, and zero just
  when no row counts (`Sums`). The provers cannot instantiate the library's induction theorems, so `Sums` takes the least index at which the claim fails, from the well-foundedness of `<`.
- `RefundsTyped`: `RefundSpec => []RefundTypeOK`.

### Projects: `ProjectProofs`

- `OneOpen`, `SwapsOpen`, for any finite set of projects. `LocksInv`: a swap holds the owner's member row alone (`SwapsAlone`), what it decided
  is still so when it commits (`SwapsFit`), and the end of a plan has locked everything before it opens
  one (`PlanFits`). The three writers that do not take the row set `plain`, which both parts excuse.
- `OneOwner`, `RestoresThoseTaken`, for any people and requests. `MembersInv`: while nothing was overtaken, an OWNER row that is active is the recorded owner's and a deletion
  that takes the owner out leaves nobody to become one (`OwnersFit`); and the date of a removed row tells who the deletion took
  out from who was out before (`DatesFit`).

### Documents and work: `DocumentProofs`

- `RoundsCover`, `ClosedJudged`, `ClosedKept`, for any cases, wordings, rounds and testers. The inductive invariant `RoundsInv` adds that a save between its read and its
  transaction is about a round that still exists (`SavesExisting`), that an opened round has a number of its own
  (`OpensNumbered`), and that a result is of a case and a round that are there (`ResultsOfCases`): deleting a case would
  otherwise leave its result behind, and the next case in its place would look judged. `ClosedKept` follows because a case
  with a result is guarded and a closed round takes no new ones.
- `VersionsDiffer`, `CreatorKeepsOthers`, for any saves, members and bounds. `EditInv`: from its update to its commit a save holds the row (`OneHolds`), so
  the versions it planned follow every version there is until it inserts them (`Increasing`, `PlansFollow`); a save by the creator's grant that holds the row
  has found it untouched (`WindowFits`), and an untouched row has the creator's scope (`ScopeFits`).
- `OneWorker`, `WrittenOnce`, `ShownIsDone`, for any tasks, workers and users. The three properties are inductive only together with `AiInv`'s other parts: `HasTask`
  (a busy worker has a task that exists or was deleted), `Claimed` (a task somebody computes is IN_PROGRESS, ended or
  deleted, never waiting, unless relabelled) and `Unseen` (a task not yet reported has shown nothing). The
  users' unconditional writes are harmless because none of them puts a task back to PENDING.
- `ReviewsClose`, `KeysAreRuns`, `ClosedRuns`, for any runs, findings, texts, agents and reviewers. The inductive invariant `SyncInv` says that who decides holds the run alone
  (`RunsLocked`) and its text alone (`TextsLocked`), that what a decision has read under its locks is still so (`Reviewing`),
  and that the findings of a run not yet analysed are empty (`Analysed`).
- `ReviewImplemented`: `SyncSpec => Review!GuardedSpec`. The comparison with the analysed text and the write are
  several steps apart; `TextsLocked` makes them one step of `GuardedEdit`.

### The compositions: `CompositionProofs`

The runs `services` and `records` check `ServicesSpec` and `RecordsSpec`, in which several components stand side by side. The
proofs above are about each component's own specification.
- `RecordsCompose`, `ServicesCompose`: a behaviour of the composition is one of each component (`RecordsApart`, `ServicesApart`: a step of
  another component stutters in this one's variables).
- `RecordsTyped`, `ServicesTyped`, `RecordsSafe`, `ServicesSafe`: hence every safety property that the two runs check holds of the very
  specification they check, for every value of the constants that satisfies the modules' assumptions. What the runs add is liveness.

### Only model-checked

- Liveness under fairness (`UploadsSettle`, `RefreshSettles`, `PendingSettles`), and with it ENABLED: out of the provers' reach.
- `OneFirstPayment` and `ActiveNeverPurged`, which the code does not keep, `RecoveredWhileLive`, and the properties of billing outside the hypotheses above.

## 8. Not modelled

- Of billing: amounts (periods and seats stand for them), mails other than the advance notice, admin
  notifications and audit logs, the check that seats cover the members, a provider other than the one in
  the row, card registration at the gateway (a request has its new key when it starts).
- Pricing: pure date arithmetic; the month ends are enumerated by its unit tests.
- Of storage: system attachments and the images inside documentation pages; the rollback of a multi-file
  prepare, which is one step here.
- Of sessions: other browsers of the same member, revocation by an administrator, password checks, and the repetition of the
  request that met the 401. Login lockout, rate limits and the support session are single counters or rows,
  read and written in one statement or two, with no protocol beyond them.
- Of AI tasks: tasks whose result goes elsewhere than a planning artifact; of content: screens, functions and
  areas, which use the same policy without a version history; max + 1 numbering, one read and one insert.
- The specification editor, project management screens, exports, the MCP server and prompt templates: forms, lists, layout and
  request translation over single-row writes. They are most of the repository's lines, and nothing in them is ordered by more than one request.
