# A verification development of the BKE store

The repository is a Next.js shop for licensed desktop software (PostgreSQL
through Prisma, PayMongo for payments, Resend for mail, S3 for files, Redis for
locks and limits). Its business rules partly live in `@bke/*` packages that are
not in the repository; the code here loads rows, asks a policy, and writes the
answer. What it owns, and what this directory is about, is the *protocol*:
which step is one transaction, what happens between two of them, who retries
what, and what is left when a call fails.

The modules are TLA+, checked with TLC on small instances and, for the
scheduler, the payments, the storage cleanup, the pending orders, the email
outbox, the device authorizations and the backups, proved with TLAPS for every
value of the constants.

## 1. Inventory

Components whose steps interleave or fail in ways that matter:

| Component | State | Operations | Hard behaviour |
|---|---|---|---|
| Scheduler engine (`platform/scheduler`, `platform/host/scheduler`) | `ScheduledJobRun`, `ScheduledJobDefinition`, a Redis key per job | tick, run now, retry, recovery, pause/resume, run a handler under a lock and a timeout | a handler cannot be cancelled; the lock has a TTL; recovery acts by id on a list read earlier; audits that throw inside `try` |
| Payment webhooks and settlement (`apps/web/payments`, `scheduler/handlers.ts`) | `PaymentWebhookEvent`, orders, invoices, payments, settlement facts, redemptions, entitlements, claim codes, licences, subscriptions | ingest, reclaim, settle, fail, refund, retry, acknowledge, cancel, expire, redeem | duplicated, reordered, lost deliveries; aborted transactions; two jobs and a webhook writing one order; limited offers |
| Storage cleanup and product deletion (`platform/storage-cleanup`, `apps/web/storage`, `catalog/product-deletion.ts`) | `StorageCleanupJob`, `Product`, `ReleaseArtifact`, the bucket | sweep, claim, delete, mark, retry, recover, request and finalize a deletion, upload an image, PATCH | claims that expire under a running worker, marks by id, a product that changes while it is being deleted |
| Pending orders (`accounts/agent-order-authority.ts`, `app/api/orders/[id]`) | `PaymentAttempt`, the order, its original checkout | continue, create the checkout, finalize, fail, cancel, expire | the provider's call is outside the transactions; creations given up after five minutes whose answer comes later |
| Email outbox (`platform/email`, `apps/web/email.ts`) | `EmailOutbox` with claims | queue, recover, list, claim, send, mark, send again | one claim expiry for a whole batch, a crash between send and mark, marks that throw |
| Device authorization (`agent-sessions`) | `DeviceAuthorization`, `AgentSession`, `AgentRefreshToken` | start, hand over, approve, poll, acknowledge, refresh, revoke | one-time hand-over whose answer is lost, token rotation and replay, a revocation of three statements |
| Backups (`backups/service.ts`, `lib/backups`) | `BackupArchive`, `BackupOperation`, the bucket | request, claim, create, verify, delete, recover, expire | an hour's limit on running work, a recovery by id, marks without conditions |
| Customer lifecycle, privacy requests | users, accounts, requests | close, pseudonymize, purge, review | a report read outside the transaction that acts on it |

How they meet: the cron container posts to the scheduler; the scheduler runs
`payments.operations`, `commerce.lifecycle`, `storage.lifecycle`,
`email.lifecycle` and others, which share rows with the HTTP routes. Nothing
else connects the components: no job calls another, and there are no callbacks
but the provider's webhooks. What each needs to be correct is listed as
properties in section 4; `PROJECT.json` lists all components, the remaining
thin ones included, and the hazards with their lines.

## 2. Plan

Done, in this order:

1. **Scheduler** with its proofs: everything periodic runs in it; it refines
   **JobExecutions** (abstract).
2. **OrderLifecycle** (abstract) and **Payments** (refines it), with its proofs.
3. **StorageCleanup**, which refines **RetainedObjects** (abstract), with its proofs.
4. **PendingOrders**, which refines **HostedCheckouts** (abstract), with its proofs.
5. **EmailOutbox**, which refines **LeasedDelivery** (abstract), with its proofs.
6. **DeviceAuthorization**, which refines **GrantedSessions** (abstract), with its proofs.
7. **Backups**, which refines **ClaimedOperations** (abstract), with its proofs.

Every safety property of the runs is also a theorem. What is left is code without
a module: section 7 names it.

The runs are one for each question, and small enough to be repeated on every
change; a disagreement that is told in section 6 has a run only where the run
says more than the two lines it quotes.

## 3. Modules and the code they stand for

`PROJECT.json` maps each definition to its lines.

### Scheduler

One registered job; jobs share no state. A *process* executes one engine call
at a time: `pc` is the await it is at, `frame` its local variables. `runs` are
rows by id, `lock` the Redis key with its owner token and expiry. `handlers[p]`
are the runs whose handler promise is still pending in process `p`: a timeout
leaves the call but not this set, since `withJobTimeout` cannot cancel.
`StartTick`, `RecoverRun`, `ListRetries`, `ConsumeRetry`, `ListDue` are
`runDueJobs` and `recoverAbandonedRuns`; `CreateRun` to `ReleaseLock` are
`runJob`, one action per await, each with the failure of that await
(`SucceedThrows`, `MarkFailedThrows`, `ReleaseFails`, `DependencyThrows`, ...).
The order of `markSucceeded` and its audit inside one `try` is kept, so an
audit failure turns a success into a failure, as in the code. `lease`,
`requests` and `faults` are history variables.

`JobExecutions` is what the engine promises about the executions of a job, with
no processes, lock or rows: a run is new, executes under a lease or after its
lease is over, and is over for good; of two executions one has lost its lease;
each attempt of a run is retried automatically at most once. `executionPhase`
and `automaticRetries` map the engine to it.

### OrderLifecycle and Payments

`OrderLifecycle` is what commerce promises about an order with its invoice and
the buyer's right: place, cancel, settle, refund. `Payments` is the code: an
event goes through `Deliver` (claim by unique id), `FindExisting`, `Reclaim`,
one atomic transaction (`processPaidEvent`, `processFailedEvent`,
`processRefundedEvent`) and, on failure, `recordFailure`, which writes by event
id in a transaction of its own. Each transaction is one action because it locks
the order and runs Serializable; an abort is `Abort`, with the error code each
path maps it to. `paymentOperations` and `AdminRetry` are the other two callers;
`commerceLifecycle` expires orders and releases reservations;
`consumeClaimCode` redeems a gift.

Abstracted: quantities (one item an order), amounts (an event matches its
checkout or does not), notifications and mails (idempotent inserts), the lease
issued after a renewal (its errors are swallowed and nothing reads it). Claim
codes never expire because nothing in the code sets `expiresAt`. Refund
initiation is the provider's; `RefundOperation` rows are written only by
`lib/refunds.ts`, which only tests call.

### StorageCleanup

One product with its image and installers. A sweeper runs the
`storage.lifecycle` job, an admin one route at a time; `frame[h].at` is the call
of `process()` or of the route a handler is at. Only `claim` is conditional
(a compare-and-set on status, due time and claim age); the marks are written by
id, so a worker whose claim was recovered overwrites its successor, as in the
code. `UploadImage`, `ReadImage`, `SwitchImage`, `UndoUpload`,
`QueueAbandoned` are the image route; `EditProduct` is PATCH, which also writes
any `imageKey` the administrator types in, or none
(`app/api/admin/products/[id]/route.ts:96`), without a look at the bucket and
without a job for the image it replaces. `typed` is the history of the image
keys that came about so. No rule protects them: a typed key may name an object
that is absent or already queued for deletion, so `Objects`, what the product
needs, is its installers and its image unless that was typed.
`RequestDeletion`, `StartDeletion`, `finalizeProductDeletion` the deletion.

Time is relative: `due` is how far ahead a row's next attempt lies, `age` how
long ago it was claimed, `lag` how old the `now` of a batch is (a batch reads
the clock once). They saturate at `MaxLag`, which only adds behaviours.
`attempts` saturates at `MaxAttempts`, the only value it is compared with. The
eligibility policy is external: archived and without commercial history.
Artifacts are never uploaded (the route answers 410) nor reactivated.

`RetainedObjects` is what is left of it without handlers, jobs and time: the
product is kept, leaving or gone, refers to some objects, and some were
condemned. What it uses is erased only after its deletion was asked for, an
upload never takes a name that was condemned, and the product goes only unsold
and with everything condemned out of the bucket. Its `Replace` condemns what the
uploader had *seen*, not what it replaces, and puts nothing into use when
somebody has typed the new key meanwhile; `Forget` is the image that a typed key
takes out of use. Of two uploads that read the same
image the second leaves the first's in the bucket with no job to remove it, as
the code does, so the specification promises nothing about objects that are
neither used nor condemned. `Phase`, `Objects` and `Condemned` map to it.

### PendingOrders

One order, since none of these operations looks at two. A continuation
(`app/api/orders/[id]/continue`, `continuePendingOrder` of the agent) is two
transactions with the provider's call between them, so `caller` says where each
one is: `Continue` is the first (lock the order, answer the stored URL or the
creation under way, or give up stale creations and insert a `CREATING` row),
`CreateCheckout` the call, `Finalize` the second, `Fail` the catch.
`FinalizeThrows` and `Lost` are its failures. `Cancel`, `CommerceLifecycle`,
`Settle`, `PaymentFailed` and `OriginalFailed` are what others do to the same
rows. `age` says whether an attempt has passed five minutes or a day. `slow`
(a creation that was past its five minutes), `withdrawn`, `swept`, `lost` are
history. Keys, amounts and URLs are left out: an attempt is its number, and
`made` says that the provider gave it a checkout. The checkout the order was born
with, `original`, is no row of `PaymentAttempt`; `Continue` does not look at it,
so it may be open beside a replacement.

A cancellation is Serializable, while `Continue` runs at the default isolation.
Its first statement, `SELECT ... FOR UPDATE`, fixes its snapshot *before* it waits
for the order's lock (`CancelBegins`, `view`). What a continuation inserts while
it waits is not in the snapshot: the updates do not see it, and nothing fails,
because `Continue` locks the order without writing it. `Cancel` therefore closes
what was open in `view`, if none of it was written since (`Intact`); otherwise
the transaction fails to serialize (`CancelFails`). `beside` is the history of
the attempts that were opened while a cancellation waited.

`HostedCheckouts` is what the customer sees of it, without continuations,
transactions and ages. `first` is the order's own checkout, offered from the
start. An attempt to replace it is asked for, offered or closed; a second one is
asked for only when the provider was late with every open one; an expected
answer arrives once or never, and offers nothing when the order has been paid or
closed. A cancellation is asked for (`AskCancel`) and then closes everything that
was open at that moment (`Withdraw`) or nothing (`Refuse`). `First`, `Checkout`,
`Awaited` (the attempts that a continuation holds), `Slow`, `view.on` and `Known`
map to it.

### EmailOutbox

A worker is one call of `dispatchEmailOutbox` at a time; `worker[w].at` is its
await. `StartJob` is the scheduled batch, `Reemail` the administrator's, both of
which may run together. `recoverExpiredClaims`, `listDispatchable`, `claim`,
`send`, `markSent`, `markFailed` are the calls of the store and the provider, one
action each. `markFailed` writes nothing and ends the batch: it casts to a type
that the database does not have (section 6), so the statement always throws.
`MarkSentFails` is a mark that throws inside the `try`. `Crash` kills a worker anywhere; its claims pass to `Dead`, since the
next call draws a new random `workerId`. `lapsed` replaces the clock: a batch
computes `claimExpiresAt` once, so its claims lapse together, at any moment
(`Lapse`) or after its worker's death (`LapseDead`). `sends`, `accepted`,
`recovered` are history.

`LeasedDelivery` is the outbox without workers, lists, marks and faults: a queue
whose claims are leases. `deliveryPhase` maps the status of a row, and the lapse
of its claim, to it.

### DeviceAuthorization

One user and one account. The routes run each operation in one Serializable
transaction, so each is one action: `Start`, `IssueHandoff`, `Approve`,
`Poll` (pending, expired, denied, consumed, or the stored bundle again),
`Acknowledge`, `Refresh` (rotation, or revocation of the family on replay),
`SignOut`, `ChangePasswordByAgent`, `Cancel`. Only the user-wide revocation
(`RevokeTokens`, `RevokeSessions`, `RevokeAuthorizations`) runs at the default
isolation: its three statements take effect at its commit, and the rows it has
touched are locked until then. `client[a]` is what the device knows: the newest
generation it received and whether an answer was lost. A session is named by
its authorization, a token pair by its generation. Instants are flags that one
action sets each.

`GrantedSessions` is what an agent is promised, without rows, windows, devices
and statements: `Ask`, `Grant`, `Open`, `Repeat`, `Rotate`, `Close`,
`Supersede`. `phase` reads the status of the authorization and, once it is
consumed, the state of the session; `keys` are the ACTIVE tokens of a live
session. The tokens of a session that is revoked do not count: a user-wide
revocation may leave one ACTIVE that a poll inserted after its first statement,
and it is refused because its session is revoked.

### Backups

One archive and the operations on it. `worker[w].at` is the step of
`executeBackupOperation` a worker is at; `claimBackupOperation` is the
compare-and-set, `Begin` to `Record` the creation, `Load`, `Check`, `Verified` the
verification, `Delete`, `Remove`, `Deleted` the deletion, `Succeed`, `Fail`,
`FailArchive` the reports of the worker's loop, `Recover` and `Revive` the list
and the updates of `recoverAbandonedBackupOperations`. `CallThrows`,
`CatchThrows` and `Crash` are the failures. `backupRetention` is the two steps of
the daily job: mark EXPIRED, request the DELETE. An object is known by the
execution that wrote it, since each execution of CREATE encrypts anew under the
same prefix; `gaps` are executions whose manifest lists missing source objects.
`disputed` marks an operation that a recovery has touched while its worker was
alive; `clash` says that a creation ran beside another execution.

`ClaimedOperations` is the operations without the archive, its objects and the
calls: `Request`, `Claim`, `Succeed`, `Fail`, `Leave`, `Recover`, and `Dispute`,
after which it says nothing of an operation. `state`, `tries` and `hands` read
the row and who executes it. A success may be taken back (`Succeed` that keeps
the worker), because the audit row is written after it in the same `try`.

## 4. Runs

Each pass run explores its whole instance.

| Run | Instance | What it shows |
|---|---|---|
| `scheduler_safety` | 2 processes, 3 rows, clock to 2, one administrator's request and one fault | `OverlapOnlyAfterExpiry`, `AttemptsWithinBudget`, `HealthyRunsNotAbandoned`, `ImplementsExecutions`, `TypeOK` |
| `scheduler_live` | 2 processes, 2 rows, clock to 3, one fault | `RunningEnds`: no run stays RUNNING |
| `payments_webhooks` | 1 order; paid, failed, refunded, unknown event; 2 processes; two incidents | `CommerceAgrees`, `ProcessedMeansApplied`, `ImplementsLifecycle`, `TypeOK` |
| `payments_renewal` | a subscription, its renewal and a gift; 5 events; an offer for one; one abort | `PeriodsArePaidOnce`, `AccessIsPaid` |
| `payments_live` | a capture and a mismatching event; two aborts or replays | `CapturesSettle`: settled or on the administrators' list |
| `storage_cleanup` | 1 image, 1 installer, a sweeper, an admin, one incident, one edit | `SuccessMeansRemoved`, `LiveObjectsStayStored`, `FinalizedMeansRemoved`, `DeletionCompletes`, `ImplementsRetention`, `TypeOK` |
| `pending_orders` | 2 continuations, 2 attempts, 2 faults | `OneOpenReplacement`, `CancelledLeavesOnlyUnseen`, `ImplementsCheckouts`, `EveryOrderCloses`, `EveryCreationEnds`, `TypeOK` |
| `pending_abandoned` | violated: `AbandonedAttemptsExpire` | the lifecycle job leaves the attempts of the orders it closes open |
| `email_outbox` | 2 workers, 3 messages, one of a retired type, 2 attempts, batches of 2, 2 faults | `ClaimIsExclusive`, `SendsAreAccounted`, `ImplementsDelivery`, `EveryMessageSettles`, `TypeOK` |
| `email_boundary` | violated: `FiveAttemptBoundary` | a refused message is sent for ever: no failed attempt is recorded |
| `device_sessions` | 1 device, 2 authorizations, 1 refresh each | `OneActiveToken`, `HandedOutBundleIsLive`, `OnlyOldTokensReplay`, `ImplementsSessions`, `AuthorizationEnds`, `TypeOK` |
| `backups` | 2 workers, 2 operations, 2 attempts, 3 claims of each, 1 fault | `StatusTellsTheStore`, `ImplementsClaims`, `EveryOperationSettles`, `TypeOK` |

### Bounds and why they are enough

*Scheduler.* `MaxRun` rows let a window, its retry and the run of another
process or request coexist; two processes are what it takes to interleave a
list with an update or a release with an acquire. With `Timeout` 1 and
`LockSeconds` 2, as in the code `lockSeconds > timeoutSeconds`, the clock passes
a lock's end and a recovery's limit. `MaxAttempts` 2 has one automatic retry and
the refusal of a second. The theorems need none of these bounds.

*Payments.* Rows of different orders meet only in subscriptions and offers,
which `payments_renewal` has; one order has everything else. Two processes
interleave every pair of handlers. `MaxIncident` caps aborts, crashes, replays
and acknowledgements together; two of them already reach a failure of a retry.

*StorageCleanup.* Jobs of different objects share only the product's row. Two
handlers give a worker and its successor; `MaxAttempts` 2 gives a failure with
and without a retry; `Timeout` 0 makes a claim recoverable after one tick, the
earliest the code can. `MaxIncident` and `MaxEdit` cap faults and what
administrators edit, upload, remove or retry. With one edit no job is made for a
typed installer, or for an image that took the place of another one; the proofs
cover these.

*PendingOrders.* Two continuations race for every step; two attempts are one
given up and its successor, or one that a waiting cancellation sees and one that
it does not. A second fault is a failure of the catch that handles the first. The
theorems need none of these bounds.

*EmailOutbox.* Two workers give a sender and the one that recovers its claim;
a batch of two has a row claimed under an expiry that the first send has used
up; the third message is listed in the next batch. The theorems need none of
these bounds.

*DeviceAuthorization.* Two authorizations of one device are what supersedes
(a second start expires what is still pending of the first; sessions of both may
live side by side, as no poll revokes another session); one
refresh has a rotated and an active token, so that a replay is possible. With
two devices no operation reads the other's rows but the user-wide ones, which
two authorizations already exercise.

*Backups.* The creation and one other operation, with three claims of each: an
execution, the one that a recovery starts, its successor's retry, and one more
than the attempts allow, so that the limit can be overstepped. The constraint
`DisputesEnd` of MC_Backups does not follow the third claim of an operation that
is disputed, of which only `StatusTellsTheStore` says anything. The constraint
`NoClash` of MC_Backups does not explore what follows two creations
that write one prefix in parallel; the step into such a state is taken, and
`StatusTellsTheStore` makes no statement there (section 6).

### Fairness

*Scheduler* (`FairSpec`): a pending await settles, an awaited handler returns,
throws or times out, time passes, and an idle process receives ticks (the cron
container posts every minute). Nothing is assumed of administrators or faults.
`RunningEnds` is restricted to runs the bounded clock lets time out.

*Payments*: a handler that runs goes on; the provider redelivers until it gets
a success, and each tick retries what the job lists. These two are strong,
because a busy server disables them again and again, which neither the
provider nor cron minds.

*StorageCleanup*: the sweep starts again and again, calls return, time passes.

*PendingOrders*: a continuation that runs goes on, since the provider's client
answers or throws; the scheduler runs the lifecycle job; the order ages.
A dead process is the exception that `EveryCreationEnds` names.

*EmailOutbox*: the job is started again and again, its calls return, and the
claims of dead workers expire. Nothing makes a living batch lapse.

*DeviceAuthorization*: a device polls until it is told the end (the interval is
part of the answer), and its authorization falls due.

*Backups*: the loop of `scripts/backup-worker.ts` goes on and its calls return
or throw. No fairness of restarts: an operation whose worker died may wait for
the next start, which `EveryOperationSettles` says, and the
constraint excludes nothing but continuations of a clash, after which the
property is not claimed.

## 5. Proofs

`SchedulerProofs` proves, for any set of processes, any timeouts, cadence,
attempts, bounds and incidents permitted by `SchedulerAssumption` and
`RetryDelayAssumption` (the delay of every attempt is a natural number; the
provers do not know exponentiation, TLC evaluates the assumption):

* `TypeCorrect`: `Spec => []TypeOK`.
* `MutualExclusion`: `Spec => []OverlapOnlyAfterExpiry`. That two handlers
  overlap only after an expiry is not inductive. `IInv` adds:
  `CallsOwnRows` (the rows that calls, their lists and pending handlers refer to
  exist), `RowsNotShared` (no two calls work on the same row),
  `HandlersAccounted` (a call whose run has a pending handler is made by the
  handler's own process, and awaits it or has timed out), and `LeaseHoldsLock` (an unexpired lease of an
  executing or starting run is exactly the lock). The last one is the heart: a
  release deletes the key only if it holds the caller's own token, so nobody
  takes away a lock that some lease still needs.
* `RetriesAreUnique`: `Spec => []OneAutomaticRetry`, since a row with key
  `retry:<parent>:<attempt>` is created only if none exists.
* `ExecutionsImplemented`: `Spec => ImplementsExecutions`. `RInv` adds to `IInv`
  that the rows with a pending handler are rows that have started
  (`StartsKnown`). `MarkRunning` is a start, under the lease or late; `Tick` ends
  the leases that are due; what returns, throws or dies with its process stops;
  the row of an automatic retry, the only one with its key, is the retry; every
  other step is none (`StepRefines`).
* `RetriesAreBounded`: `Spec => []AttemptsWithinBudget`, with the further
  invariant `RetriesJustified` (whoever is about to create an automatic retry
  has a parent below the limit).
* `HealthyRunsSurvive`: `Spec => []HealthyRunsNotAbandoned`, with the further
  invariant `ListsAreOverdue`: the rows on a recovery's list stay overdue, since
  a row takes its start time once, out of QUEUED, and a call that has not marked
  its row yet is the only one that knows it.

There is one lemma per invariant conjunct, with one step per action; `...Shape`
lemmas say once what a step does to the variables a conjunct reads.

`PaymentsProofs` proves, for any orders, events, renewals, gifts, offers,
processes and incidents, all the safety of the module: `TypesHold` (`TypeOK`),
`CommerceTellsOneStory` (`CommerceAgrees`), `ProcessedIsApplied`
(`ProcessedMeansApplied`), `AccessIsAlwaysPaid` (`AccessIsPaid`),
`PeriodsAreAlwaysPaidOnce` (`PeriodsArePaidOnce`) and `LifecycleImplemented`
(`ImplementsLifecycle`, the refinement of OrderLifecycle). It uses what
`PaymentsAssumption` says of the provider: a payment is of one order, and the
captures of one order are of one payment. `PInv` ties the invoice, redemption,
right and code of an order to its status (`OrdersTellAll`) and the payment of
each capture to its order (`CapturesAgree`); `EventsWereEmitted` is there for
refunds, whose payment must be the captured one. That an event creates the
settlement fact exactly when its order is not yet paid follows from
`CapturesAgree`, and it carries `PeriodsArePaidOnce`: the orders counted for a
subscription and its periods grow together, by one. `CommercialOrQuiet` names the
few steps that move anything of the lifecycle; each is one step of
OrderLifecycle or none.

`StorageCleanupProofs` proves, for any sweepers, administrators, objects,
timeouts, backoffs and incidents, all the safety of the module: `TypesHold`
(`TypeOK`), `SuccessIsRemoval` (`SuccessMeansRemoved`), `LiveObjectsAreKept`
(`LiveObjectsStayStored`), `FinalizationIsRemoval` (`FinalizedMeansRemoved`),
`SoldProductsAreKept` (`SoldProductsSurvive`) and `RetentionImplemented`
(`ImplementsRetention`). Marks are written by id, and two workers may have the
same job in hand; `IInv` says why that does no harm. `Known`: a call's job was
claimed, has counted its attempt, is deleted only with the consent of
`canDelete`, and is marked SUCCEEDED only with its object gone. `Fresh`: an upload
in a handler's hands is held by no other handler and, unless an administrator has
typed its key, named by no job, not the image, and seen by nobody. `ImagesKept`:
the image, and an image a switch has read, leave the bucket only through a job
unless they were typed, so a new key never repeats them. `NothingLiveQueued`:
until the deletion is asked for, no job names what the product needs, but for one
case: an installer whose key was typed as the image is queued when an upload
replaces that image. Its job is an `ARTIFACT_REPLACEMENT`, which `canDelete`
refuses while the installer is there (`Spared`). `LiveObjectsAreKept` speaks of
installers, and of the image unless its key was typed. The run has one image only;
replacements of one image by another are covered by these proofs.
For the refinement `IInv` is enough: claims, marks, recoveries and the clock leave
the set of rows as it is (`SameRows`) and are invisible; what `deleteObject` or an
undone upload takes was condemned or is nobody's (`EraseRefines`); a typed key
takes the image out of use, and nothing else (`EditRefines`); and a
finalization finds everything condemned gone because each of its jobs is
SUCCEEDED.

Some theorems state a property that no run lists: `SoldProductsAreKept`,
`LateAnswers`, `ApprovalsDie`, `OperationsAreExclusive` and `LimitHolds`. The runs
check the refinements instead, whose abstract specifications promise as much or
more.

`PendingOrdersProofs` proves, for any number of continuations, attempts and
faults, `TypesHold` (`TypeOK`), `OneReplacement` (`OneOpenReplacement`),
`OnlyUnseenLeftOpen` (`CancelledLeavesOnlyUnseen`), `LateAnswers`
(`OnlyLateAnswersReopen`, an action property), `CreationsHaveHolders`
(`CreationsAreHeld`), `AttemptsNeverExpire` (`NoAttemptExpires`) and
`CheckoutsImplemented` (`ImplementsCheckouts`). `IInv` adds to the types: `Held`
(a continuation's attempt has no checkout yet and is CREATING, or FAILED because
it was slow, or CANCELLED with its order), `RowsAgree` (a creation past its five
minutes is slow), `InOrder` (rows are numbered without gaps), `Sole` (after an
open attempt that is not slow there is none), `Watched` (while a cancellation
waits, what is open is in its snapshot or `beside`) and `Withdrawn` (after it,
what is still open is `beside`). `Held` is what `Finalize` needs, since it writes by key
whatever became of the row; `Sole` turns the check of the newest attempt in
`Continue` into a statement about all of them.
`CreationsAreHeld` is the safety half of `EveryCreationEnds`, which stays with
TLC: who holds a creation ends it once it moves. `AttemptsNeverExpire` is the
disagreement of section 6 for every number of attempts: the job's second
update never matches. The refinement rests on `RInv`: `IInv`, `CreationsAreHeld`
(what a failed payment closes is no creation) and `FreshRows` (a row that is not
there was never late); each action is one step of HostedCheckouts or is not seen.

`EmailOutboxProofs` proves, for any number of workers, messages, batches and
faults, `TypesHold` (`TypeOK`), `ClaimsExclude` (`ClaimIsExclusive`),
`SentIsTaken` (`SentMeansAccepted`), `CallsAccounted` (`SendsAreAccounted`),
`AttemptsAreDeliveries` (`AttemptsCountDeliveries`) and `DeliveryImplemented`
(`ImplementsDelivery`, the refinement of LeasedDelivery).
`IInv` adds `ClaimsAreHeld` (the worker a
row names works on that row, and both have lapsed or neither has),
`HoldersKnowTheirRow` and `MarkersWereAnswered` (who is about to mark SENT has
seen the message taken). The recovery looks at the row only, and `ClaimsAreHeld`
is why it then takes nothing from a batch that still runs.
`CallsAccounted` has an invariant of its own above it, `Accounts`: the workers
about to call the provider for a row are counted among its calls, and that sum
never exceeds attempts, recoveries and the claim under way; a mark exchanges the
claim for an attempt because the owner of a row knows its attempts. It needs
the set of workers to be finite.
The refinement has a third layer, `DInv`: lists and holders know only rows of
living types that were never delivered (`ListsAreFirst`, `HoldersAreFirst`), what
the provider took is under way (`TakenAreUnderway`), and rows of retired types
are claimed by nobody. A mark that lost its claim is then no step of the queue,
one whose claim lapsed in time is still its completion, and the job's last
statement gives nothing up, since no waiting row has an attempt.

`DeviceAuthorizationProofs` proves, for any devices, authorizations and
refreshes, all the safety properties of the module: `TypesHold`,
`ActiveTokenIsUnique` (`OneActiveToken`), `BundlesLive`
(`HandedOutBundleIsLive`), `ReplaysAreOldTokens` (`OnlyOldTokensReplay`) and
`ApprovalsDie` (`OldApprovalsAreDead`). The invariant `DInv` says of each
authorization that its rows `Agree` with each other and with what its client
received (a live session has the active token of its generation and has rotated
every earlier one, an unread
bundle belongs to a session that was never refreshed, a superseded approval is
denied or consumed by a session that is over), and of the user-wide revocation
that the sessions its second statement has locked include those of the tokens
its first has seen: that is why a session that survives it keeps its token.
`SessionsImplemented` is the refinement of GrantedSessions
(`ImplementsSessions`), one lemma per operation on top of `DInv`, to which it
adds that a client is never ahead of its session: the phase is a function of the
rows (`PhaseMap`), the key of a live session is its generation (`KeyMap`), a
refresh that rotates exchanges exactly the key its client was told, and every
other operation closes, grants, or changes nothing that GrantedSessions sees.
The three statements of the user-wide revocation are one `Close`, at their
commit.

`BackupsProofs` proves, for any workers, operations, attempts and faults,
`TypesHold` (`TypeOK`), `OperationsAreExclusive`
(`UndisputedOperationsAreExclusive`), `StatusIsTrue` (`StatusTellsTheStore`),
`ClaimsImplemented` (`ImplementsClaims`) and `LimitHolds`
(`AttemptsWithinLimit`). The argument has three layers. `OInv` is about rows and workers only: `Placed`
(a busy worker is in the calls of its operation's type), `Counted` (what is
PROCESSING was claimed) and `Sole` (an undisputed operation waits for nobody who
executes it, and is old only when no worker is at it any more, which is why a
recovery of it takes nothing from anyone). `SInv`, on top of it, holds while no
creation ran beside another execution: `Alone`, and `Seen`, what each worker has
made of the store or seen of it and that is still so. A deletion that runs
beside a verification is harmless because what is deleted has expired, and no
execution brings an archive back before its date. The run bounds what follows a
clash by its constraint; the theorem needs none. `BInv` carries the refinement:
to `OInv` it adds `Existing` (what a recovery has listed is a row) and
`Budgeted`, the limit on attempts. No claim looks at the limit. It holds because
of an operation that waits nobody has the claim, so whoever made it wait counted
its last claim; and since each step has been shown to be one of
ClaimedOperations, `Budgeted` is proved of its few actions only (`LimitKept`).

The only assumptions are the ASSUMEs of the modules about their constants.

Model-checked only: all liveness (`RunningEnds`, `CapturesSettle`,
`DeletionCompletes`, `EveryOrderCloses`, `EveryCreationEnds`,
`EveryMessageSettles`, `AuthorizationEnds`, `EveryOperationSettles`), since
neither fairness nor ENABLED is in the provers' reach.

## 6. Disagreements met

Two have a run and an entry under "findings":

* `markFailed` of the outbox casts to `"EmailOutboxStatus"`
  (`apps/web/email.ts:158`), a type no migration creates: the statement is
  refused, the batch ends, the attempts stay uncounted, and the message is sent
  again when its claim is recovered (`email_boundary`).
* The lifecycle job first cancels the aged orders and then expires the attempts
  whose order is PENDING (`scheduler/handlers.ts`), so it finds none of theirs
  (`pending_abandoned`).

Behaviour of the models that is worth knowing, without a run of its own:

* An event whose process dies between its claim and its transaction stays
  RECEIVED; redeliveries are acknowledged as duplicates
  (`apps/web/payments/webhook-ingestion.ts:228`) and the retry job does not list
  it, while `docs/payment-flow.md:19` speaks of *completed* duplicates.
* A reservation that the lifecycle job has released
  (`apps/web/scheduler/handlers.ts:395`) is applied by a late capture
  (`apps/web/payments/settlement-transaction.ts:291`), so a limited offer may be
  used once more than its limit (`docs/discount-offers.md:55`).
* A refund that arrives before its capture fails with PAYMENT_REFUND_CONFLICT
  (`apps/web/payments/webhook-processing.ts:628`), which the automatic list does
  not retry.
* Publishing or restoring a product does not stop its queued deletions
  (`app/api/admin/products/[id]/route.ts:98`, `apps/web/storage/cleanup.ts:182`;
  `docs/product-deletion-workflow.md:3`).
* Of two uploads of a product's image that read the same current image, both
  queue that one for deletion, and the image of the first stays in the bucket with
  no job that removes it (`app/api/admin/products/[id]/image/route.ts:28`).
* The retry of a dry run is live (`platform/scheduler/scheduler.ts:233`).
* After a timeout the lock is kept, which delays the overlap of the two handlers
  until it expires but does not prevent it (`OverlapOnlyAfterExpiry`).
* The backup recovery updates the rows of its list by id
  (`apps/web/backups/service.ts:83`): of two workers that start together the
  second revives an operation that the first has revived and claimed since.
  Two creations may then write one prefix, and the archive can become AVAILABLE
  over the objects of the other; `StatusTellsTheStore` holds up to there.
* The retention job that dies between EXPIRED and the request of the DELETE
  leaves an archive that its later runs do not list
  (`apps/web/backups/scheduler.ts:39`).
* The audit row after SUCCEEDED is inside the `try` of the engine
  (`lib/backups/engine.ts:230`): when it throws, the operation becomes RETRYING
  or FAILED, the first of which is done again, and a creation's AVAILABLE archive becomes FAILED.
* Attempts of an order that was paid by its original checkout stay PENDING, and
  before that the original checkout may be open beside one of them.
* "Cancellation marks creating/pending attempts cancelled"
  (`docs/architecture.md:99`), and the continuation is said to hold a
  "Serializable order lock" (`docs/phase-reports/phase-4.2-maintainability-audit.md:65`),
  but it runs at the default isolation
  (`apps/web/accounts/agent-order-authority.ts:84`). `CancelBegins`, `Continue`,
  `Cancel` leave an order CANCELLED with an attempt CREATING: the snapshot of the
  cancellation is older than the attempt, so its `updateMany` (line 293; line 30
  of `app/api/orders/[id]/cancel/route.ts`) does not see it.
  `CancelledLeavesOnlyUnseen` says that this is all that is left. A
  creation left so becomes CANCELLED when its provider answers and FAILED when it
  throws, unless its process dies.
* PATCH writes whatever `imageKey` it is given
  (`app/api/admin/products/[id]/route.ts:96`): the image may then name an object
  that is absent, or that a job is about to delete, and the image it replaces
  stays in the bucket without a job.
* The scheduler's recovery writes by id, so it may overwrite a run that has
  SUCCEEDED since its list was read by ABANDONED, and that run is then retried
  (`platform/scheduler/scheduler.ts:219`). `JobExecutions` allows it: its `Retry`
  asks of no run how it ended.
* A refresh token that is not ACTIVE is answered `replay_detected`, whatever made
  it so (`apps/web/agent-sessions/device-authorization.ts:512`). That is a client
  whose answer was lost and who presents its token again, but also one that holds
  every answer: a late duplicate of a refresh presents an older, ROTATED token and
  ends the session, and a client whose session was signed out or revoked presents
  a REVOKED one. `OnlyOldTokensReplay` says what is left for a live session: its
  newest token is refused only to a client that has missed an answer.
* A retry whose parent timed out finds the parent's retained lock, is SKIPPED,
  and its source is already consumed: no automatic retry happens
  (`platform/scheduler/scheduler.ts:106`).
* `markRunning` that throws leaves the run QUEUED for ever
  (`platform/scheduler/scheduler.ts:119`).
* A gift's receiver keeps an ACTIVE `claim:` entitlement after the buyer's
  refund (`apps/web/payments/webhook-processing.ts:534`); licence and
  subscription are revoked, which is what `AccessIsPaid` says.
* A retry aborted by PostgreSQL outside the settlement capability is stored as
  PROCESSING_FAILED and leaves the automatic list
  (`apps/web/payments/webhook-processing.ts:731`); `CapturesSettle` counts it as
  escalated.
* A replacement checkout of `orders/[id]/continue` writes only the host's
  `PaymentAttempt`, so its capture does not match the checkout that can settle
  (`apps/web/payments/settlement-transaction.ts:141`;
  `docs/customer-purchase-flow.md:7`).
* "Concurrent workers cannot both delete" (`docs/storage-cleanup-jobs.md:7`)
  stops being true after a recovery, and a claim late in a batch carries the
  batch's start as `startedAt`, so it may be recoverable at once. The deletion
  is idempotent, which is why `SuccessMeansRemoved` survives it.
* `recoverAbandoned` does not look at `attempts`, so a job whose worker dies
  each time exceeds the five automatic attempts.
* An object is lost in the bucket when a process dies between an upload and its
  switch, or when `ABANDONED_UPLOAD` cannot be inserted because the product is
  gone. `FinalizedMeansRemoved` speaks of queued objects only.

## 7. Not modelled

Policies inside `@bke/*` packages; the generated Prisma client; the user
interface; start-up wiring; observability; single-transaction administration
(seats, trials, catalog, legal, organizations), whose only concurrency control
is the database's row lock or Serializable isolation. The customer lifecycle
reads its report outside the transaction that acts on it
(`apps/web/accounts/customer-lifecycle-operations.ts:449`), but what it decides
is in a package.

Of the modelled components:

* Scheduler: failure acknowledgements, health counters, list limits (100, 50,
  20) and orderings, audit rows as data, several jobs.
* StorageCleanup: several products, `permanentlyDeleteProduct` (tests only).
* PendingOrders: the status COMPLETED, which only the external settlement
  capability writes; `store-checkout-recovery.ts`, which replays a stored answer;
  the lists of orders.
* EmailOutbox: templates, recipients and their minimization by the customer
  lifecycle.
* DeviceAuthorization: the pace of polling (`pollIntervalSeconds`, `lastPollAt`),
  the native MFA challenge, the recent-authentication mark.
* Backups: dry runs (a `DELETE_EXPIRED` ignores `dryRun` once it executes),
  `RESTORE_ISOLATED`, which writes to another database and bucket, the daily
  idempotency key, encryption and the dump itself.

`PROJECT.json` gives the reason for each component.

## 8. Running

    tlc -config MC_Scheduler_safety.cfg MC_Scheduler
    tlapm SchedulerProofs.tla
    tlapm PaymentsProofs.tla
    tlapm StorageCleanupProofs.tla
    tlapm PendingOrdersProofs.tla
    tlapm EmailOutboxProofs.tla
    tlapm DeviceAuthorizationProofs.tla
    tlapm BackupsProofs.tla

and likewise for the other configurations; the longest takes about two
minutes with two workers.
