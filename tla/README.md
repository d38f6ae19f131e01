# A verification of the gateway's admission and exactly-once core

gotocc-router (Sub2API Plus) is a Go gateway in front of AI vendors. Many
gateway processes share one PostgreSQL database and one Redis. The vendors see
the requests the gateway lets through; users pay for them from a balance. This
directory holds TLA+ models of the parts that decide *who may run, at whose
expense, and how often*, and of the two longest money protocols (payment orders
and batch image jobs), TLC configurations that check them on small instances,
and TLAPS proofs of all the safety properties that the passing runs check.

Paths below are relative to `src/backend/internal/`.

## 1. Inventory

| Component | Code | State | Operations | Hard behaviour |
|---|---|---|---|---|
| Execution slots and leases | `service/concurrency_lease.go`, `service/concurrency_owner_recovery.go`, `repository/concurrency_cache.go` | Redis sorted set per user and account; per-process recovery map; per-request cancellation domain | acquire, renew, release, recover, reap, disconnect | lost, late and repeated scripts, leases that expire under a running request, a recovery map at its capacity, crashes |
| Idempotency records | `service/idempotency.go`, `repository/idempotency_repo.go`, `service/idempotency_cleanup_service.go` | one row per (scope, key) | Execute, renew, cleanup | statements that fail after their effect, two retries at once, expired records |
| System operation lock | `service/system_operation_lock_service.go` | one row of the same table | Acquire, Release, renewLoop | takeover by another operation, renewals that fail |
| In-flight balance reservations, balance cache | `service/billing_inflight_reservation.go`, `repository/billing_inflight_cache.go`, `service/billing_cache_service.go`, `service/gateway_usage_billing.go` | Redis sorted set and hash per user; cached balance; reference-counted handle | reserve, increase, renew, release, charge, synchronise the cache | stale reads, queued cache writes, billing that outlives the request |
| Live session leases | `service/openai_live.go` | Redis record per call | create, refresh, finalise | an owner that migrates between processes |
| WebSocket ingress leases | `service/concurrency_service.go` | Redis sorted set per API key | acquire, refresh, release | a lease given up only at the next tick |
| Wait queues | `handler/gateway_helper.go` | Redis counters with a TTL | increment, poll, decrement | counters that leak |
| Usage billing | `service/usage_billing.go`, `repository/usage_billing_repo.go` | balances, quotas, a deduplication table | Apply | retries of a request id |
| Batch image jobs | `service/batch_image_*.go`, `repository/batch_image_*.go`, `repository/gateway_unfinished_tasks.go`, `repository/usage_billing_repo.go` | job row, balance hold, unfinished-task reservation, Redis queue with a job lock | submit, cancel, recover, poll, index, settle | money moved, states recorded and queues fed in separate steps; workers that lose their lock; a provider whose answer is lost |
| Asynchronous image tasks | `service/image_task.go` | task record | create, execute, expire | a late result after the deadline |
| Payments | `service/payment_*.go`, `handler/payment_webhook_handler.go` | order row, fulfilment lease, audit log | notify, cancel, expire, verify, fulfil, retry, refund, finalize | notifications repeated and out of order, a lease that runs out under its call, refunds in parts that settle later |
| Redeem codes | `service/redeem_service.go`, `repository/redeem_code_repo.go` | code row | create, redeem | double use |
| OAuth refresh | `service/oauth_refresh_api.go`, `service/token_refresh_service.go` | Redis lock, account credentials | refresh, recover from a race | a lock released without proof of ownership |
| Scheduler snapshot and outbox | `service/scheduler_snapshot_service.go` | Redis snapshots, outbox table, watermark | poll, rebuild | events replayed over a newer rebuild |
| Authentication cache invalidation | `service/auth_cache_invalidation_outbox.go` | outbox table | enqueue, publish | lost invalidation |
| Leader lock | `service/leader_lock.go` | Redis key | acquire, release | expiry while leading |
| Upstream WebSocket pool | `service/openai_ws_pool*.go` | per-account connections | acquire, release, maintain | pool at its limit |
| Message queue, quota flusher, worker pool, RPM counters, wallets | see `PROJECT.json` | | | |

How they meet: a request passes the idempotency coordinator (write endpoints
only), then the wait queue and a user slot, the eligibility check and the
balance reservation, then an account slot; it runs under the cancellation
domain of its slots; its end hands the reservation to a billing task, which
charges the user in one transaction and brings the balance cache up to date
before it lets go. A balance is filled by payment orders, each through a redeem
code that exists for it alone, and emptied again by refunds; a batch job moves
its price from the balance to the frozen balance when it is submitted and
charges it, or gives it back, days later. The slots and the reservations talk to
Redis through the same client library; the idempotency coordinator and the
system operation lock share a table and its repository.

Left aside altogether: vendor protocol conversion and streaming, generated
`ent` code, the Vue front end.

### Properties that make each part correct

* *Slots*: the requests really executing in a pool stay within its limit; a
  request never executes without an unexpired slot; no slot is lost silently;
  a released slot does not come back; every attempt ends and every slot returns.
* *Idempotency*: one owner at a time; what is replayed is the latest result; a
  result that is retained answers for every later call; abandoned keys are freed.
* *System operations*: never two at once; the lock of a running one is locked.
* *Balance admission*: a reservation lasts until its charge can be seen, and no
  longer; a released one stays released; requests in flight beside each other
  never reserve more than the balance.
* *Payments*: an order is credited once, only if paid, and a completed one has
  been; the provider stops notifying only a settled order, or one that the
  notification could not read; a paid order that is still notified is completed
  in the end; refunds never deduct twice, never repay more than was
  paid, and `refund_amount` says what was refunded.
* *Batch jobs*: a hold is charged or given back, once; a job is completed exactly
  when it was charged; the hold of a queued job ends; nothing is given back while
  the provider is known to work on.
* *OAuth* (planned): a rotated refresh token is never overwritten by an older one.

## 2. Modules

| Module | Models | Extends |
|---|---|---|
| `ConcurrencyLease` | slots, leases, cancellation domains, owner recovery | |
| `MCConcurrencyLease` | its instances for TLC | `ConcurrencyLease` |
| `ConcurrencyLeaseProofs` | its theorems | `ConcurrencyLease` |
| `ConcurrencyReleaseProofs` | theorems about its cancellation domains and its recovery map | `ConcurrencyLeaseProofs` |
| `IdempotencyStore` | one row of `idempotency_records` and the repository's statements | |
| `Idempotency`, `MCIdempotency` | the coordinator over that row | `IdempotencyStore` |
| `SystemOperationLock`, `MCSystemOperationLock` | the global lock over that row | `IdempotencyStore` |
| `IdempotencyStoreProofs` | what each statement does to the row | `IdempotencyStore` |
| `IdempotencyProofs` | theorems about the coordinator | `Idempotency`, `IdempotencyStoreProofs` |
| `SystemOperationLockProofs` | theorems about the lock | `SystemOperationLock`, `IdempotencyStoreProofs` |
| `BalanceAdmission`, `MCBalanceAdmission` | reservation, charge, balance cache of one user | |
| `BalanceProofs` | theorems about the reservations, and laws of sums over finite sets | `BalanceAdmission` |
| `PaymentLedger` | what an order promises: one credit for a payment, never more cash back than was paid | |
| `PaymentOrder` | one balance order up to COMPLETED, with its redeem code | |
| `PaymentRefund`, `MCPayment` | the refunds of that order; implements `PaymentLedger` | `PaymentOrder` |
| `PaymentProofs` | theorems about the order and its refunds, for any number of calls and administrators; the refinement | `PaymentRefund` |
| `BatchImage`, `MCBatchImage` | one batch image job with its hold, queue, lock and workers | |
| `BatchImageProofs` | theorems about the job | `BatchImage` |

An operator whose comment starts with "Mutant:" is a faulty version of the
definition after it. No specification uses it; it documents which mistake in
the code the property named in `PROJECT.json` detects.

### ConcurrencyLease

An owner is one call of `acquireRequestSlot`, used once. `members`/`age` are
the sorted sets (expired members stay until a script or the reaper removes
them), `wire` the commands sent and not yet executed. An executed command may
stay on the wire (the client library repeats it), a command may stay there for
ever (it is lost), and it may be executed after its caller gave up. `pc` is the
phase of a call: *recovering* (retry pending releases of the same group),
*reserving* (room in the recovery map), *acquiring*, *running*, *renewing*,
*draining* (the release function waits for a renewal under way), *releasing*,
*uncertain* (the acquire call failed and is compensated), *done*.
`owners/pending/busy/left` is the recovery map, `batch/target/failed` what each
recoverer (an admission or the cleanup worker) has in hand, and
`slots/parentDone/notified/execDone/capDone` the `concurrencyExecution` shared
by the slots of one request. `Crash` empties a process's memory and leaves
Redis alone. `excused` is a ghost: owners whose slot was written after their
caller had given up, or whose process died.

Time is in units; an age is compared with `TTL`, a timer with the deadline of
its phase. `Punctual` states the timing assumption: a process that is not in
`Stalling` acts at its deadlines. Redis's clock ages members; nobody compares
clocks of two machines.

### IdempotencyStore, Idempotency, SystemOperationLock

The row keeps the time *left* to `locked_until` and `expires_at`. Every caller
keeps the time since it read its clock (`lag`), because the code computes its
deadlines and compares "now" from one reading at the start: a slow caller
writes shorter deadlines and sees an older now. Clocks of the processes are
taken to agree. Every statement is a step; it may fail without effect
(`StoreError`) or with it (`ClaimAnswered`, `LockAnswered`, `RecordSuccess`).
A response is identified with the call that produced it. `lastOk`, `retained`
and `fresh` are ghosts: the last call whose side effect happened, the time its
result must answer for, the calls that started since. A claim ends what the
last two promise: when a call that started earlier reclaims the key (it read the
record before it was renewed, see `idem_aba`) and then fails, its record invites
the calls that wait to try again. Proving `RetrySafe` for any number of calls
showed that it was too strong without this; four calls reach the case.

`Timely` is the timing assumption: claims follow the clock reading within
`MaxLag`, which is shorter than a lock and a retention; a claim is worked off,
or renewed, before the retention of its record ends (the handlers' deadlines
are minutes, the default retention a day). `SystemOperationLock` assumes of an
operation only that a renewal loop that is alive gets a renewal through in
time; an operation whose loop ended may run for ever. `ShortSpec` adds what the
lock needs to hold between different operations: one that took another's row
over, and so cannot renew it, ends within one lock. `LockAssumption`, that a
record outlives a lock, holds of the defaults (an hour, thirty seconds); the
service does not check its configuration.

### BalanceAdmission

`db` is the user's balance, `cached/cache` the Redis copy, `writes` the queue of
the cache workers (executed in any order: there are several workers).
`reserved/left` is the pair of Redis keys; expired members stay until a script
removes them, and scripts use their caller's clock, so a late call (`late`, at
most `MaxLate` of them, each executed within a `TTL` or never) may count a
member that has expired and may shorten an expiry that was renewed since. The
handle is `amount/refs/renewing`; the billing task goes from *queued* over
*charged* and *synced* to *done*, or is dropped. A request is charged what it
reserved. `ReserveTwice` is the client library repeating a script whose reply
was lost; an attempt it abandoned is not executed after a later attempt of the
same call was answered.

### PaymentOrder, PaymentRefund, PaymentLedger

A *call* is one execution of a `PaymentService` operation; every statement it
sends is a step, and its program counter holds what it decided from what it
read. The lease of a fulfilment is the row's `updated_at`: the model keeps the
time since the last update (`order.age`) and, per call, whether the version it
read back is still the row's (`held`). Every update of the row changes
`updated_at`, also the one with which a query persists the provider's trade
number in whatever status the order is. Crediting is the transaction that marks
the order's redeem code used, so a repeated fulfilment finds the code used and
goes on to the rebate and the completion. `known` is the part of the row a call
read at its start that decides, later, whether it persists the trade number: the
update goes by the order's id, so a stale row moves `updated_at` under somebody
else's lease.

A notification that returns no error is acknowledged and not sent again. That
includes one that could not read the order: `confirmPayment` and
`alreadyProcessed` drop the error of their reads and the webhook answers success
(`SwallowedRead`). Nobody sends the payment again then; the ghost `blind`
remembers it, and `AckedIsSettled` and `PaidSettles` say what holds otherwise.
An order in that state waits for the administrator's retry, if it was marked
paid, or for a query of the provider.

An *administrator* makes a plan (`PrepareRefund`), takes the order by its status
(`LockRefund`), deducts, asks the gateway, and records what it answered:
success, pending (finalized later by a query), or a failure, which returns the
deduction. `gateway` is what the provider did with each refund it was asked for,
`cash` what it paid back. Amounts are small integers, `PayAmount` and `Amount`
chosen so that the proportional share has to be rounded. `spent`, `lost`,
`silent`, `credits`, `rebates` and `late` are ghosts. `lost` adds up the
deductions that could not be returned, `silent` those of them whose failure is
not in the audit log either, and what was deducted although the log could not
be read: `hasAuditLog` takes an unreadable log for an empty one, and the retry
deducts again (`AuditUnread`). `NoDoubleDeduction` bounds what the user loses by
the order *and* `silent`.

`PaymentLedger` is the abstract specification: `paid`, `credits` and `cash` move
by `Pay`, `Credit` and `Repay` only. `PaymentRefund` implements it with
`paid <- provider.paid` (`LedgerImplemented`) under `FreshSpec`: any number of
administrators act at once, but a plan that takes the order still adds to what
is refunded by then (`FreshPlan`), and a finalization settles the refund that
is pending. Nothing in the code enforces this (`pay_stale_plan`), so it is a
hypothesis on how the requests overlap.

Left out: creation of an order and its price; the checks of a notification's
amount and metadata, whose failure ends a call without a change; subscription
orders, which follow the same lease around an assignment; the providers'
protocols. The gateway answers what it did: a lost answer to a refund call that
was executed, and what a repeated call does there (Alipay's request number is
new for every call, the keys of Stripe and WeChat Pay depend on order and
amount), is outside the model. A crash while an order is REFUNDING leaves it
there for good; the code has no operation that takes it out.

### BatchImage

One job under the processes that touch it: the submission, a cancellation, the
recovery of stale submissions and the workers. `wallet` is the user's balance,
frozen balance and the billing requests claimed (the deduplication keys that
make the hold, its capture and its release happen once); `task` the reservation
in `gateway_unfinished_tasks`; `queue` the Redis ready list, delayed and active
sets, in-flight key and job lock; `prov` the batch at the provider. A fault is a
call that returns an error; a billing transaction may also have committed when
its caller sees the error. A crash ends one process between two steps. A status
change of the row that committed while its caller sees an error is counted as a
crash as well (`LostAnswer`): the caller no more goes on from it. A stall is a
heartbeat that comes too late: the job lock or the active entry runs out under a
live worker, or a submission grows stale while it runs. Calls on the
unfinished-task table and on Redis that fail have no effect, and one Cancel runs
at a time.

A worker that found the job submitted, running or indexing needs one of the
user's slots (`Admit`); the user's other requests may hold them all, and then the
job is requeued, without a limit on how often (`SlotRefused`). Output that cannot
be opened, and a state conflict, put the job back; every other error of the
indexing (listing the items, reading the stream, replacing the items), also of a
worker that finds the job already settling, fails the job (`Index`,
`indexFailed`) and then gives its hold back.

The properties name the exceptions the code has, each of which TLC shows when
it is taken out of the property:

* a Cancel that read the row before the provider's job was recorded moves the
  submitted job to cancelled; hold and capacity are given back though nobody
  asks the provider to stop (`RefundedIsStopped`, `CapacityHeld`). A cancelled
  job whose provider *was* asked keeps its capacity until the provider is done:
  that half of the exception is not granted. The repository's document says that
  a running batch always consumes capacity; `CapacityUntilStopped` is that
  sentence, and `batch_cancel` violates it;
* two workers on one job after a late heartbeat can take the settling job off
  the queue, and one can acknowledge the job that the other is failing; so
  `QueuedSettles` and the first part of `NotStranded` assume that no heartbeat
  is late;
* a hold whose reservation committed though Submit saw an error stays until the
  user cancels; so does the hold of a job that was given up before its provider
  name was recorded, or that two workers had, if a process stops (or loses an
  answer) between the failed state and the release, or if the repair of one
  failed call fails as well (second part of `NotStranded`);
* a job whose user has no free slot is requeued again and again: `QueuedSettles`
  has as a hypothesis that a worker that asks again and again is let in again
  and again;
* a crash, or a failed bind or enqueue, after the provider's job was recorded
  leaves the submitted job in no queue until the same request is repeated or
  cancelled (`QueuedSettles` is about queued jobs); a Cancel whose second step
  fails has to be repeated (`StaleSubmissionRefunded`).

## 3. Runs

Each run takes at most about three minutes with two workers. Deadlock checking is
off in every run: the requests of an instance are finitely many and all of them
may end.

| Run | Instance | Checks | Distinct states |
|---|---|---|---|
| `lease_full` | the whole specification: two calls for one slot, lost, late and repeated commands, a disconnect, crashes, limits 0 (unlimited) and 1 | `TypeOK`, `PoolWithinLimit`, `ExecutionHoldsSlot`, `ExecutionsWithinLimit`, `BusyHasOneRecoverer`, `DisconnectedDomainEnds`, `DrainKeepsCapacity`, `NoResurrection` | 0.70 M |
| `lease_live` | a recovery map of one record for two calls, no cleanup worker, commands may be lost, one process may be suspended past its deadlines | `NoSilentLeak`, `RecoverySpaceReserved`, `AttemptsEnd`, `SlotsReturn`, `LostLeaseCancels` | 61 k |
| `idem_retry` | three calls of one request, one of them detached | `TypeOK`, `SingleOwner`, `ReplayIsLatest`, `RetrySafe`, `OrphanFreed` | 0.38 M |
| `syslock_hold` | two attempts at one operation and one at another; one that took over another operation's row ends within one lock | `OneSystemOperation`, `HeldLockIsLocked` | 0.12 M |
| `balance_hold` | two requests that may raise their estimates to the whole balance, two late calls, billing may never run | `ReservedWithinBalance`, `ReservationsEnd`, `HeldUntilBilled`, `ReleasedForGood` | 0.37 M |
| `pay_fulfil` | one order, two calls at a time, one fault, a lease of one unit | `CreditedOnce`, `CompletedIsCredited`, `AckedIsSettled`, `PaidSettles` | 0.35 M |
| `pay_refund` | one call and two administrators (`FreshSpec`), two refunds of an order of 2 paid with 3, two faults, a user who spends one unit | `TypeOK`, `OneRefundInFlight`, `RefundRecorded`, `NoDoubleDeduction`, `LedgerImplemented` | 1.7 M |
| `batch_hold` | one job, two workers, a balance that covers the hold or not, two troubles among a failed call, a crash or lost answer, a cancellation and late heartbeats | `HoldAccounted`, `CompletedIsCharged`, `RefundedIsStopped`, `CapacityHeld`, `NotStranded`, `QueuedSettles`, `StaleSubmissionRefunded` | 0.33 M |

The bounds are the smallest in which the cases of interest happen. Two calls
and one slot make one call take the place the other lost; a second command of
the same call, a late acquire and a crash are all within reach. A third call is
needed only where two must find the same stale state (idempotency). The
recovery map of `lease_live` has room for one of its two calls, so that it is
full whenever one runs; in `lease_full` it has room for both, so that they run
side by side. A TTL of two units separates *renewed in time* from *expired*. An
acquire call that takes time before its answer arrives, and a domain of several
slots, are left to the proofs, which hold for all deadlines and all domains.

Three runs restrict which troubles meet, to stay within minutes; the MC modules
state the restriction as a formula.

* `lease_full`: two calls hold records at once while clients stay connected,
  processes alive and releases unretried. One after the other they meet
  everything else. The limit is edited before the first request and from then on
  freely. A client disconnects while there is no other request: what a domain
  does with its slots is independent of other domains, and proved for all.
* `balance_hold`: a second request joins only while the cache reflects the
  charges (a stale cache is the subject of `balance_stale_fill`), and nothing
  disturbs the cache from then on.
* `batch_hold`: at most two troubles; all late heartbeats of a behaviour count
  as one, do not come together with a crash, and only one comes with a
  cancellation. A settlement is tried twice, a job is at most twice on the ready
  list. The proofs of the invariants are without these bounds.

`pay_refund` explores two administrators up to their names (`SYMMETRY AnyAdmin`)
and up to what a step can still read (`VIEW Relevant`): it leaves out what a call
or a request that ended had read, the answer of a refund that no request and no
pending order refers to, and the entry of a pending refund once none is pending.
No action reads these before it writes them, and none of the properties mentions
them, so two states with one view have the same future.

### What disagrees with the code's documents or tests

Each of these runs is expected to find a violation.

* `idem_aba` / `SingleSideEffect`: `TryReclaim` does not compare `expires_at`.
  Two retries read the same expired record, the first executes and records its
  success, and the second's statement still matches: it executes again.
* `balance_stale_fill` / `ChargesVisible`: a cache fill queued before a charge
  overwrites the cache after it.
* `pay_stale_plan` / `CashWithinPayment`: a refund's plan is computed before the
  order is locked, and the lock compares the status only. Two administrators
  who plan before either executes both refund: the gateway repays more than was
  paid, and the second overwrites `refund_amount`. With plans that are still
  true when they take the order it holds (`LedgerImplemented` in `pay_refund`).
* `batch_cancel` / `CapacityUntilStopped`: `docs/GATEWAY_TASK_LIMITS.md` says that
  running provider states consume capacity and that a local final state cannot
  release it. A Cancel that read the row before the provider's job was recorded
  moves the job to cancelled after Submit has bound its reservation again; the
  reservation is released while the batch runs. `CapacityHeld` in `batch_hold`
  shows that this is the only way.

Each of the four runs says which property the code's own words promise; the
passing runs of the same module show what holds in spite of it.

One more is not a run: `syslock_hold` checks `ShortSpec`, and with `Spec` in its
place TLC finds both of its properties violated. `TryReclaim` keeps the first
operation's fingerprint, on which renewals match, so an operation that took the
lock over cannot renew it (the renewal answers false), and after one lock another
operation starts beside it. `ShortSpec` delimits where the lock does hold.
Renewals that fail long enough for the lock to run out are excluded by `Timely`
in both.

### Fairness

`lease_live`: the clock advances, each goroutine takes its next step, deadlines
fire, and Redis drops a key at the end of its EXPIRE. Nothing is assumed of the
network, of the cleanup worker or of how long a request runs: `AttemptsEnd` is
about every phase except the execution itself. `idem_retry`: statements
return, executions end, the cleanup ticker runs. `balance_hold`: time passes,
and a renewal goroutine that is alive renews; no billing task is assumed to run.

`pay_fulfil`: a call that runs goes on until it returns, and time passes. The
provider sends a notification again and again until it is acknowledged (strong
fairness: a call may always be busy when it is sent); nothing is assumed of
users, administrators or the expiry loop. `PaidSettles` has a hypothesis,
`LeaseOutlivesCall`: from some point on a lease is taken over only from a call
that has ended. Calls that are always slower than the lease could take it from
each other for ever. It also ends at a notification that was acknowledged
without reading the order (`blind`).

`batch_hold`: every process goes on with what it began, the loops of the runtime
(delayed jobs, stale entries, stale submissions) come round, Redis expires the
lock, rows grow old, and the batch ends at the provider. No user is assumed to
repeat or to cancel anything. That a worker gets the user's slot is not part of
the specification's fairness, because the code requeues a refused job without a
limit: `QueuedSettles` states strong fairness of `Admit` as its hypothesis, next
to the one that no heartbeat is late.

## 4. Proofs

TLAPS proves the following for every value of the constants that satisfies the
named `ASSUME`s: any number of calls, processes, workers and administrators, any
deadlines, capacities and amounts. Each theorem comes from an inductive
invariant; the invariants were checked by TLC on the instances of section 3
before they were proved.

### Slots and leases

`ConcurrencyLeaseProofs`, for any timing with
`AcquireTimeout + RenewEvery + RenewTimeout < TTL`:

* `TypeCorrect`: `Spec => []TypeOK`.
* `PoolBound`: `Spec => []PoolWithinLimit`. Redis never records more owners in a
  pool than the limit one of them was admitted under.
* `LeaseSafety`: `Spec => []ExecutionHoldsSlot`. A request whose capacity
  context is alive has an unexpired slot.
* `ExecutionBound`: `Spec => []ExecutionsWithinLimit`, from the other two: the
  executing requests are among the recorded ones.

The invariant is `LeaseInv`, the conjunction of

* `FreshInv`: an attempt that has not sent its acquire command has no member and
  no such command on the wire. Without it a command of a call that has not
  started could change the limit recorded for a member.
* `ReleaseInv`: a release command exists only after its caller stopped
  executing. Without it a late release could drop a live lease.
* `RecoverInv`: what is pending or in a recoverer's batch is done. A recoverer
  sends releases too, so `ReleaseInv` needs it.
* `TimedInv`: how old a member can be in each phase: at most the time since the
  acquire call began, at most a renewal interval more while running, at most
  a renewal's deadline more while renewing. `LeaseSafety` is this with the
  timing assumption.
* `PoolWithinLimit` itself, which is inductive given `FreshInv` because
  `acquireScript` counts before it adds; it is stated over all subsets of the
  recorded owners so that removals preserve it.

`ConcurrencyReleaseProofs` adds:

* `DisconnectEnds`: `Spec => []DisconnectedDomainEnds`. Once the client is gone
  and the last slot released, the capacity context ends, however the callback
  raced admissions and releases.
* `DrainKeeps`: `Spec => DrainKeepsCapacity`. A disconnect alone never ends the
  capacity of a request that holds slots.
* `SpaceIsReserved`: `Spec => []RecoverySpaceReserved`.
* `OneRecoverer`: `Spec => []BusyHasOneRecoverer`.
* `SlotsAreNotLeaked`: `Spec => []NoSilentLeak`.
* `SlotsStayReleased`: `Spec => NoResurrection`.

The invariant of the first two is `DomainInv`: while the capacity lasts, `slots`
is the number of calls between `retainSlot` and `releaseSlot` (otherwise a
release could take the count to zero too early or never), the callback runs only
after the disconnect, and a domain that is disconnected and empty has ended. The
count is a cardinality, so the proof goes through the library's facts about
adding and removing one element of a finite set.

`RecoverySpaceReserved` is inductive given `RecoverInv`: only records of ended
calls are evicted or recovered. `TakenInv` adds to `BusyHasOneRecoverer` that a
batch contains no record that is pending and not busy (or a second recoverer
could take it: an expired record leaves the map while its recoverer still has
it) and only records of the recoverer's own process (or a crash could leave a
busy record behind). `LeakInv` says what every answer means: a refused acquire
and a confirmed release leave no member, except one that a command nobody awaits
wrote later; and that a pending record lives as long as the member it stands
for, because its time starts anew when it is marked.

### Idempotency and the system operation lock

`IdempotencyStoreProofs` states the effect of each SQL statement once, for both
modules. `IdempotencyProofs` proves `IdempotencyTypes` (`TypeOK`),
`KeyHasSingleOwner` (`SingleOwner`), `ReplayIsOfLatest` (`ReplayIsLatest`) and
`RetriesAreSafe` (`RetrySafe`) from `IdemInv`:

* `LagInv`: the statements that claim use a recent reading of the clock
  (`Timely`).
* `OwnerInv`: an owner's row is in progress, far from the end of its retention,
  and *locked against everyone who decided to reclaim it earlier*. This is why
  statements that do not compare an owner are safe: nobody else can have
  got that far.
* `ResultInv`: a call about to record a result ran the latest side effect.
* `RetainInv`: while a result is retained its record is there for at least as
  long, and a call that started since has got no further than reading it.

`SystemOperationLockProofs` proves, with `LockInv` (a running operation is the
only one, its claim is in the row, and its renewal loop is alive whenever the row
carries its operation id):

* `OperationsExclude` and `HeldLocksAreLocked`: `ShortSpec => []OneSystemOperation`
  and `ShortSpec => []HeldLockIsLocked`. Under `Spec` both are false (section 3).
* `AttemptsExclude`: if all attempts share one operation id, `Spec` alone
  implies both, however long each runs.

### Payments

`PaymentProofs`, for any number of calls *and administrators*:
`PaymentTypes` (`TypeOK`), `OrderCreditedOnce` (`CreditedOnce`),
`OrderCompletedIsCredited` (`CompletedIsCredited`), `OrderAckedIsSettled`
(`AckedIsSettled`) and `RefundsExclusive` (`OneRefundInFlight`). The invariant
`PaymentInv` ties the place of every call to what was done before it: past the
provider's answer the order is paid, past the redemption it is credited, past
the rebate that is settled. The credit equals the state of the code, which is
why a second fulfilment is harmless though leases can overlap. `PaymentTypes` is
more than its name: no plan, however stale, takes `refund_amount` out of the
order or asks the gateway for more than was paid, which rests on the
monotonicity of `CashOf` (`CashOfOrder`).

Its second part, under `FreshSpec` and still for any number of administrators,
proves `RefundsRecorded` (`RefundRecorded`), `RefundsDeductOnce` (`NoDoubleDeduction`),
`RefundsWithinPayment` (`CashWithinPayment`) and `OrderImplementsLedger`
(`LedgerImplemented`: each step is a step of `PaymentLedger` or leaves it alone).
`pay_stale_plan` shows that `CashWithinPayment` needs the hypothesis: a plan made
before another's refund is stale when it is executed. `CashInv` says for each
step of a refund whether the gateway was asked and paid, `BalanceInv` what the
refund in flight took from the balance.

### Balance reservations

`BalanceProofs`, for any number of requests, estimates, failed and late calls,
and *whatever the balance cache does*: `BalanceTypes` (`TypeOK`),
`ReservationsFit` (`ReservedWithinBalance`), `ReservationsHeld`
(`HeldUntilBilled`) and `ReleaseIsFinal` (`ReleasedForGood`). The run checks
these only while the cache reflects the charges; the proofs show that they do
not depend on it, stale fills and overwritten charges included. The invariant is
`BalanceInv`:

* `SpendInv`: every balance that anybody read, cached, queued as a cache write
  or put into a call still on its way is at most the balance the user had
  (nothing in the model credits the user).
* `JointInv`: if two members are there, *expired or not*, all members together
  fit into the balance. `ReservedWithinBalance` alone is not inductive: a member
  that has expired is not counted, and a late renewal that read its clock before
  the expiry still finds it and extends it. So the members that no script has
  removed yet must be counted too; the scripts that add or raise a member remove
  the ones that are expired to their clock, and count all they keep.
* `HandleInv`: a handle has one reference for its handler and one for its
  billing task, and what it reserves covers its amount. Without the count a
  handle could be closed, and released, under its billing task.
* `LateInv`: a call still on its way reserves for a request that got no handle,
  or releases a handle that is closed. Without it a late call could take the
  reservation of a running request.

The sums over the members are folds of the community modules. Their laws (a sum
splits at any element, sums of functions that agree are equal, a sum is bounded
by a larger one's) are proved by induction on the set, put as an argument about
a smallest set for which the law fails: the strict subsets of a finite set are
well founded (`FS_StrictSubsetOrderingWellFounded`), and the library's fact about
a minimal element takes a set, not an operator, as its parameter.

### Batch image jobs

`BatchImageProofs`, for any number of workers, faults, crashes, stalls and
cancellations: `BatchTypes` (`TypeOK`; a transfer never takes the balance below
zero), `HoldIsAccounted` (`HoldAccounted`), `CompletedJobsAreCharged`
(`CompletedIsCharged`), `RefundedJobsAreStopped` (`RefundedIsStopped`) and
`CapacityIsHeld` (`CapacityHeld`). `BatchInv` adds to the properties what each
process knows at each of its steps: a worker past the provider's answer works on
a batch that has ended, whoever is about to give the hold back saw a final state
that lasts, and a submission that has not called the provider has no job there
(`SubmitInv`, `KnowledgeInv`, `ProviderInv`). No assumption on the job lock is
needed: the properties survive two workers on one job. `CapacityIsHeld` needs
`LateInv` as well, which says when the provider can have been asked to stop a job
that Cancel then moves to cancelled by itself: only by a submission that aborted,
and that leaves the reservation uncertain, which a local final state cannot
release.

`HoldsAreNotStranded` (`NotStranded`) needs a second invariant, `StrandInv`:

* `ResultInv`: a worker follows the provider's answer, and at its
  acknowledgement the job is *closed*: its hold is charged or given back or, once
  a heartbeat was late, its results can be settled. It fails a job only if the
  results cannot be read, after a failed call while indexing, or after its hold
  was given back.
* `LockInv`: as long as no heartbeat was late (`Solo`), whoever believes to hold
  the lock does. It makes a worker the only one to change the job's status from
  its read to its acknowledgement, so one that found the job settling settles it
  before it acknowledges.
* `QueueInv`: whatever is left of a job in Redis (on the ready list, delayed,
  active) or in a worker's hands, the in-flight key is there unless the job is
  closed.
* `NamedInv`: a failed job that the provider had is queued until its hold is
  given back; with two workers on it, the one that failed it after its one failed
  call is about to release the hold (`Finishing`).
* `FaultInv`, `UnnamedInv`: the hold of a job that failed before it had a
  provider name is in the care of Submit or of the recovery, each of which lets
  it go only after two failed calls. The first of them is what `FaultInv`
  remembers.

### Only model-checked

Liveness (`AttemptsEnd`, `SlotsReturn`, `LostLeaseCancels`, `OrphanFreed`,
`ReservationsEnd`, `PaidSettles`, `QueuedSettles`, `StaleSubmissionRefunded`):
fairness and `ENABLED` are out of the prover's reach. Every invariant and every
action property of the passing runs has a theorem, for `syslock_hold` under the
hypothesis that the run states (`ShortSpec`).

## 5. Not modelled, and what is left out of the models

* `ConcurrencyLease`: crashes are in `lease_full`, not in `lease_live`, whose
  liveness properties are about lost commands and a suspended process. Live and WebSocket ingress leases, wait counters, API-key
  statistics slots, delegation of an admission inside a worker, and the index of
  active keys (it only tells the reaper where to look).
* `Idempotency`: calls without a key run unprotected and are not modelled;
  validation and metrics are left out; clocks of the processes agree. A call
  with another payload, which is refused before it writes anything
  (`GetRejected`), is in no instance: the three calls that the races need share
  one request.
* `BalanceAdmission`: the estimate of a cost; a reservation made at account
  selection after the first was refused by a failing Redis; subscription,
  API-key, team and reseller scopes. A handle may be retained for several billing
  tasks (`Acquire` in `service/billing_inflight_reservation.go:112`, one per
  turn of a WebSocket session); a request of the model has one. The circuit breaker of the balance check
  and a minimum reserve above zero change the threshold only.
* `PaymentOrder`, `PaymentRefund`: see section 2. Cash and credit are integers;
  the code rounds decimals to the currency's precision, which `CashOf` does to
  units. Codes that users enter are not modelled.
* `BatchImage`: pricing and validation; the limit on unfinished tasks; items,
  downloads and their cleanup; deletion of a record by its user; a hold of zero;
  team and reseller wallets; the seven-day expiry of the in-flight key; the slots
  themselves, whose admission is a free choice (`Admit`, `SlotRefused`).
* The components marked `not_modelled` in `PROJECT.json`, with the reasons there.

## 6. Plan

1. Done: slots and leases, idempotency, system operation lock, balance
   admission, payment orders and refunds with their abstract ledger, batch image
   jobs; the theorems of section 4.
2. Open questions about what is proved: conditions on clocks and deadlines under
   which an idempotent call has a single side effect (`SingleSideEffect` fails,
   `idem_aba`), and a bound on what a user can be charged beyond the balance.
3. Modules not written: usage billing as a component of its own, OAuth refresh
   under a lock that is released by key, WebSocket ingress leases (given up at
   the first refresh tick after their TTL, `service/concurrency_service.go:178`)
   and Live leases on top of the slot scripts, the scheduler's outbox and
   watermark, subscription orders.
4. Questions left to the existing models: two processes that crash over one
   pool; two administrators who finalize pending refunds of one order (the claim
   compares the status only).
