# TLA+ models of the Emigrantes FT back end

Formal models of `emigrantes_ft_backend`, a NestJS service with which migrants
prepare powers of attorney (POAs), pay for them and are kept informed. Paths
below are relative to `src/src/modules/` unless they start with `src/`.

## 1. The system

One Node process serves HTTP with NestJS, keeps its state in PostgreSQL through
TypeORM, its jobs in Redis through Bull, and uses Stripe for payments. The code
opens no transaction, takes no lock and uses no version column. Every `await` on
the database, on Bull or on a provider is therefore a point where other requests
run, and a place where the request can fail with what it already wrote left in
place. `repository.save(entity)` of a loaded entity selects the row again, and
updates the columns in which the entity in memory differs; `repository.update`
writes exactly the columns it is given. These two facts are the basis of every
module; `EntitySave` states the first, for the modules written after
`NotificationQueue`.

| Component | State | Operations | Interacts with | Hard behaviour | What makes it correct |
|---|---|---|---|---|---|
| POA life cycle (`poa/poa.service.ts` 45-760) | `poas` row, `poa_history`, `poa_executions` | create, update, submit, cancel; assignAdmin, markInReview, approve, reject, notarize, activate, executeInstruction | emits `poa.created`; encryption service | checks on a stale copy, whole-entity saves, history in a second write, in-place decryption of the entity that is saved | status follows the documented flow, dates and history are evidence of it, fields stay encrypted |
| Encryption (`src/src/shared/encryption.service.ts`) | none | encrypt, decrypt | POA | undecryptable text becomes null or stays | what was stored encrypted stays so |
| POA threads and messages (`poa/poa.service.ts` 1091-1494) | `poa_threads` counters and status, `poa_messages` | createThread, createMessageInThread, markThreadAsRead, closeThread, reopenThread, markMessageAsRead, deleteMessage | POA | read-modify-write counters | counters equal the messages they count |
| Files (`poa/poa.service.ts` 780-887, `users/services/file-upload.service.ts`) | `poa_documents`, `users.profilePhoto`, files on disk | upload, delete, download; change a photo | POA status (checked in the controller) | file and row are changed in two steps, and files are named by the millisecond | a row has its file, a file has its row |
| Notifications (`notifications/services/notification-queue.service.ts`, `notifications.service.ts`) | `notifications` row, Bull jobs | send, schedule, process, retry, cancel | channels, Redis | worker and requests share the row; retries; cancel | what is sent is SENT, what is cancelled is not sent, what failed is FAILED and can be retried |
| Preferences (`notifications/entities/user-notification-preference.entity.ts`) | one row per user | getOrCreate, update, reset; isAllowed, isInQuietHours | notifications | check-then-insert; hours over midnight | one row per user, quiet hours respected |
| Subscriptions (`payments/subscriptions.service.ts`) | `subscriptions`, `payments` | checkout, 7 webhook handlers, cancel, activateAfterContractSigned | Stripe | events redelivered and reordered; Stripe changed before the row | the row follows Stripe's status, each charge is recorded |
| Accounts (`auth/auth.service.ts`, `users/services/users.service.ts`) | `users` row: password, refresh token, OTP, reset token, e-mail, telephone, their marks | register, verifyEmail, resendOtp, login, refresh, logout, forgot/reset/change password, profile, verification of the telephone, the administrator's edits | e-mail, SMS | whole-row saves after `bcrypt`; one column for all codes | ended sessions stay ended, decisions stand, codes are accepted once and guesses bounded, marks belong to their address; under overlap, which saves may break that |
| Users and roles (`users/services/users.service.ts`) | `users` row: role, active | updateRole, toggleActive, deleteUser, ... | sessions | count-then-write | a super admin remains |
| Plans (`plans/plans.service.ts`) | `plans` | CRUD, seed at each start | Stripe ids | the seed counts, then inserts one by one | a seed that ends is whole, no type twice |
| Templates (`notifications/services/notification-template.service.ts`) | `notification_templates` | CRUD, clone, render, seed | notifications | every rendering saves the whole template it read | system templates stay as they were seeded |
| Events and e-mail, channels, activity log, SMS, Stripe wrapper | - | pass-through I/O | providers | errors swallowed | - |

`PROJECT.json` lists every component with its status and every hazard at the
line where it bites.

## 2. Plan

| # | Module | Abstract specification | Runs | Theorems |
|---|---|---|---|---|
| 1 | `PoaLifecycle` (done) | `PoaWorkflow`, `PoaTrail` | overlap, stages, serial, and one per disagreement | type, evidence invariant and its consequences, refinement of `PoaTrail`, and, one request at a time, of `PoaWorkflow`; all its properties (done) |
| 2 | `NotificationQueue` (done) | `NotificationDelivery`: at least once, nothing after the end | worker against send, cancel and reading; faults and crashes; liveness under fair processes | type, `QueueInv` and its consequences, refinement of `NotificationDelivery`; all its safety properties (done) |
| 3 | `Subscriptions` (done) | the stages of a subscription; what the row shows of Stripe's status | webhooks repeated, reordered, failing; overlapping activation; liveness | type, stages, recording of charges, instalments; one process at a time, links, orphans, set-backs and Stripe's status (done) |
| 4 | `Accounts` (done) | - (the observers of its properties) | overlapping methods of all kinds | type, the inductive invariant, all its properties (done) |
| 5 | `PoaThreads`, `Uploads`, `UserRoles`, `Templates`, `Plans`, `Preferences`, composed in `MCServices` (done) | - | one run of the six | types and the properties of all six (done) |
| 6 | what section 8 lists | | | |

## 3. PoaLifecycle

### What it models

One POA from the insert in `create` on. A *request* (1..`MaxRequests`) is one
call of a service method and a process of its own; its program counter `pc[r]`
says which database access is next:

| `pc` | Code | Action out of it |
|---|---|---|
| `idle` | `findOne`, the ownership and status checks, the assignments to the entity | `Update`, `Submit`, ..., `ExecuteInstruction`, or `Refuse` for a 400/403 |
| `insert` | `executionRepository.save` (executeInstruction only) | `InsertExecution` |
| `load` | the select in `repository.save` | `SaveLoad` |
| `write` | the update of the differing columns | `SaveWrite` |
| `log` | `createHistoryRecord` | `Log` |
| `done`, `refused`, `failed` | answered | - |

`Fail` stands for any access that throws and for the death of the process at
that point: what is written stays written. `create` continues with
`LogCreation` and `AnnounceCreation` (the re-read and the `poa.created` event) or
`FailCreation`, while requests on the new POA may already arrive.

| Variable | Code |
|---|---|
| `row` | the row of `poas`: status, administrator, six dates, identification, instructions (standing for instructions and beneficiaries), whether there are activation triggers |
| `history`, `executions` | rows of `poa_history`, `poa_executions` |
| `local[r]`, `before[r]`, `diff[r]` | the entity in memory, `previousStatus`, the columns `save` will update |
| `seen` | observer: statuses the row has had |

Dates hold the number of the request that set them, so two dates compare as
their requests do; texts carry the request whose text it is and its form,
`cipher`, `plain`, or, in memory only, a decrypted `object`. `findOne` decrypts
for the client's methods only, so those carry decrypted text into the save.

Left out: names, address, notes, reasons and the POA type (no property tells
them apart), the 404 for an unknown POA, and the read-only methods. `completed`
is a status no method sets (ROADMAP.md plans it); it is kept in `Status` because
the checks mention it.

### The promises, and what is left of them

`PoaWorkflow` is the documented flow. `PoaTrail` is what survives when requests
on one POA overlap: a stale save may move the status back to one it had, but a
status it never had is reached only by a step of the flow from one it did have.
`PoaPromises` instantiates both on `row.status` and states the other promises of
the documentation.

### Runs

| Run | Question | Result |
|---|---|---|
| `poa_overlap` | any 3 requests of any method, fully overlapping, one failing: types, `FollowsTrail`, `AuditMissesOnlyUnlogged` | hold |
| `poa_stages` | 6 requests, 2 at a time, through all stages, one failing: `StageOrder`, `DatesAreEvidence`, `AuditIsSound` | hold |
| `poa_serial` | 6 requests one at a time, one failing: `FollowsWorkflow`, `DatesTellTheWay`, `AuditIsAPath`, `CipherLostOnlyToUpdate` | hold |
| `poa_lost_instructions` | does a PUT that omits the instructions keep them (update-poa.dto.ts:4)? | no: the second client request empties them |

Three more disagreements of this kind are reachable in the same model and are
listed with the hazards rather than run: an update that read the draft edits a
submitted POA (against poa.controller.ts:169), a cancel that read the POA before
its execution overwrites `executed` (against poa.controller.ts:197), and a
submit stores in clear the identification that `findOne` decrypted (against
poa.entity.ts:129). `FollowsTrail` and the texts of the model describe how far
that goes.

Bounds. Five stages separate a draft from an executed POA, so 6 requests reach
every status with one to spare. A race needs two requests that hold stale
copies, and the ones that set up their states; 3 overlapping requests of any
method, or 2 at a time along the whole way, contain each. One failure reaches
every partial state, since a failed request does nothing more. One
administrator suffices as no check reads which one it is. A refused request
changes nothing, so one of them, in `poa_overlap`, is enough. `poa_serial` takes
three bodies of PUT (`EachDto`) that between them set, clear and keep each field.
`CHECK_DEADLOCK FALSE` is set since the bounded requests end. No fairness is
assumed: all properties here are safety properties.

### Proofs

`PoaLifecycleProofs` proves, for every number of requests, overlaps, failures
and refusals, every set of administrators and of PUT bodies (from
`BoundsAssumption`, `NullAssumption`, `InputsAssumption`):

| Theorem | States |
|---|---|
| `TypeCorrect` | `Spec => []TypeOK` |
| `EvidenceHolds` | `Spec => []EvidenceInv` |
| `StagesInOrder`, `DatesProveStages`, `AuditNeverLies` | `StageOrder`, `DatesAreEvidence`, `AuditIsSound` always hold |
| `ImplementsTrail` | `Spec => FollowsTrail` |
| `AuditMissesLittle` | `AuditMissesOnlyUnlogged` always holds |
| `SerialHolds` | one request at a time: `SerialInv` |
| `DatesAlwaysTellTheWay`, `ImplementsWorkflow`, `CipherAlwaysKept`, `AuditIsAlwaysAPath` | one request at a time: `DatesTellTheWay`, `FollowsWorkflow`, `CipherLostOnlyToUpdate`, `AuditIsAPath` |

`StageOrder` is not inductive: a save writes what a request computed long ago.
`EvidenceInv` adds, for each request in flight, that the status it read was
stored and the one it will write follows from a stored one (`ReadsWereStored`),
that the dates it carries belong to stages reached or to the one it is about to
set (`CarriedDatesAreEvidence`), that a status it will not write or has written
is stored (`UnwrittenStatusIsStored`), and that executions are inserted first
(`ExecutionsComeFirst`). The proof has one step per action; only `SaveWrite`
changes the row and the first step of each method creates obligations for it.

`AuditMissesLittle` carries, besides `EvidenceInv`, that what the row shows and
the history does not is due to a request that has saved and is at its entry, or
failed there.

The last two rows assume `OneAtATime` (`MaxInFlight = 1`), for any number of
requests and failures. `SerialInv` then says that whoever runs is alone and came
last (`Alone`); that its copy is the row but for one step of the flow, and its
`diff` exactly what differs (`CopiesFresh`), which also keeps instructions that are
in the row in every copy but that of a PUT; and that the dates of the row are
those of the stages up to its status (`Farthest`), in order, each of a request
that has come (`WellDated`). `FollowsWorkflow` needs the first two: with a fresh
copy the checked status is the stored one. The order of the dates needs that they
are bounded by the requests that came, so that a new one is the latest. The path
of the history (`PathInv`) needs that the entries are those of requests that are
done, so that the entry of the one that runs is the last. Without the assumption
each of the four is false, as the hazards tell.

## 4. NotificationQueue

### What it models

The delivery of one notification, from the insert of its row in
`NotificationsService.send` to the end of its job. The processes are:

| Process | Code | Steps |
|---|---|---|
| the sender | the rest of `send`: `queueNotification` adds the job, then updates the row to `queued` | `AddJob`, `MarkQueued`, or `SenderFails` |
| the worker (process 0) | `processNotification`, one job at a time | `Fetch`, a save, `SendAccepted` or `SendRejected`, a save, `Complete`; on an error `Report`, a save, `Rethrow` |
| requests 1..`MaxRequests` | `cancel`: find, look the job up, remove it, mark the row; `markAsRead`: find, save; `markMultipleAsRead`: one update | `Cancel`, `Lookup`, `RemoveJob`, `MarkCancelled`, `MarkAsRead`, `MarkMultipleAsRead`, `Refuse` |

`row` is the row of `notifications`, `job` the job in Redis, `local[p]` and
`diff[p]` the entity and the columns of a save as in PoaLifecycle, and `then[p]`
where the code goes on after its save, so that the two accesses of a save are
written once. `deliveries` and `faults` count what the provider accepted and
what went wrong; `afterSend` observes which requests came when `send` had ended.

Bull is external: it hands a job out under a lock (`TakeJob`), refuses to remove
a locked one (`RemoveLocked`), repeats it after a back-off when the worker
throws, at most `JobAttempts` times, and hands out again the job of a worker that
died, at most `MaxStalls` times. `Crash` is the death of the Node process, which
takes the worker, the sender and all requests with it; `SendLost` is a provider
that delivers and whose answer is lost.

`retry` is modelled as the refusal it always is: it accepts `failed` and
`bounced`, which no code reaches with more than one attempt (`NeverRetriable`,
proved as `RetryIsDead`). Left out: the failed-job processor, as nothing adds
jobs of its name; `cleanOldJobs`, as the age it passes matches no job;
`markAllAsRead`, whose `readAt: null` condition depends on TypeORM's version;
how preferences decide (a notification may start cancelled or delayed); a lost
answer of the database, and a lock lost to a blocked event loop.

### Runs

| Run | Question | Result |
|---|---|---|
| `queue_delivery` | with two requests of any kind and two faults or crashes: is a sent notification delivered, a duplicate paid for by a fault, a cancel after `send` final, the date of reading lost only to the worker, `retry` never possible (`NeverRetriable`), and does the queue implement `NotificationDelivery`? | yes |
| `queue_liveness` | does every job leave the queue? | yes |
| `queue_exhausted` | is a notification whose attempts are used up marked failed (notification-queue.service.ts:207, 254)? | no: it stays `sending` |

Bounds. Two requests contain a cancel against a reader and two cancels; two
attempts and one stall, with two faults, reach the bound of attempts, the bound
of stalls and both in one job, and every access can be the one that fails.
`queue_exhausted` uses the code's three attempts. `CHECK_DEADLOCK FALSE` as a
notification ends.

Fairness (`FairSpec`): weak fairness of each process that is running, since
Node's event loop resumes what an await has answered, and of Bull's timers and
worker. Nobody is obliged to send a request or to fail.

### Proofs

`NotificationQueueProofs` proves, for all values of the four constants,
`TypeCorrect`, `QueueInvHolds`, and from it `SentMeansDelivered`,
`DuplicatesBounded`, `CancelsAreFinal`, `SentAtKept`, `DeliveryImplemented`
(the refinement), and, assuming `JobAttempts > 1`, `RetryIsDead`. `QueueInv` adds
to the properties where each process may be (`EveryoneInPlace`: the worker is
at work exactly while the job is locked), what is in memory
(`SentInMemoryWasDelivered`), how deliveries use up attempts and stalls
(`DeliveriesAreSpent`), what a cancel past its look-up left (`CancelsHold`),
and where the date of a delivery is (`SentAtIsComing`). `SentAtKept`, that the
date of sending is lost only to a reader's save, is proved and not run.
`ReadAlwaysKeptByReaders` is the converse, `ReadLostOnlyToWorker`: it rests on
`ReadersRemember`, that a reader on the way to its save has its own mark in the
entity, so that only the worker's copy can lack it. `JobEnds`, a liveness
property, is only model-checked.

## 5. Subscriptions

### What it models

One subscription from the insert of its row in `createCheckoutSession` on. The
*creator* is the rest of that method; each *handler* runs one webhook or one
request (`cancel`, `activateAfterContractSigned`) at a time, to its end.

| `pc` | Code | Action out of it |
|---|---|---|
| `idle` | the look-up of the row, the checks, the changes to the entity | `HandleCheckoutCompleted`, ..., `Cancel`, `ActivateAfterContractSigned` |
| `session` | `checkout.sessions.create` | `OpenSession` |
| `intent` | `retrievePaymentIntent` | `RetrieveIntent` |
| `stripe` | `cancelSubscription` or `createSubscription` | `StripeCancel`, `StripeRefuses`, `StripeCreate` |
| `load`, `write` | the two accesses of `subscriptionRepository.save` | `SaveLoad`, `SaveWrite` |
| `count`, `insert` | `generateInvoiceNumber`, `paymentRepository.save` | `Count`, `InsertPayment`, `InsertCollides` |

`row` and `payments` are the tables; a payment's position is its invoice number.
`findById` loads the payments too, so the saves of `cancel` and `activate` detach
a payment that was recorded after their load: `linked` is its `subscriptionId`.
`Fails` is any await that throws, or the death of the process; the controller then
answers with an error, and Stripe keeps the event.

Stripe is external: `charge` is the initial payment, `stripe[s]` the status of
each monthly subscription created for the row, `inbox` the events not yet
answered with 200, `answered` those it may still deliver again. With `Ordered`
it delivers the oldest first; otherwise in any order, to several handlers at once.

Left out: the Stripe customer, prices, dates and reasons; whether the plan has a
monthly price (either way of `activate` is possible). Stripe is configured
throughout, as no checkout succeeds without it, so the branch of `cancel` that
then changes the row alone (subscriptions.service.ts:607) is not modelled; `payment_intent.succeeded`, whose handler does nothing; payments of
other subscriptions, which can collide with an invoice number too, and whose
collision is a `Fails`.

### Runs

| Run | Question | Result |
|---|---|---|
| `subs_overlap` | two handlers and the creator, events in any order, one delivered twice, both ways of paying: `StagesHold`, `AnsweredIsRecorded` | hold |
| `subs_serial` | one handler, six events in order, three requests, two failures: `FollowsStripe`, `OrphansCostFailures`, `PaymentsStayLinked`, `SetBackCostsFailures`, and fairly `ChargeIsRecorded` | hold |
| `subs_double` | is the monthly subscription created once (subscriptions.service.ts:666)? | no: two overlapping activations each create one |

Failures belong to `subs_serial`; what overlaps in `subs_overlap` can fail only by
colliding with an invoice number, and the proofs below hold with any failures.
`InstallmentsNeverComplete`, proved and not run, states a limit of the code: only the first instalment
is ever charged or counted, so a subscription paid in instalments cannot reach
its contract.

`StagesHold` says that somebody activated the subscription after the payment, not
who: any user who is logged in may (`JwtAuthGuard` only,
payments.controller.ts:356). Nor does it exclude that an active subscription is
set back to `pending_contract`.

`FollowsStripe` is not agreement. `handleSubscriptionUpdated` has no case for
`incomplete` and `incomplete_expired` (subscriptions.service.ts:413), while every
monthly subscription is created incomplete (stripe.service.ts:90) and expires so
unless its first invoice is paid. The row is `active` from the activation on, and
stays so for good in that case, or `pending_contract` after a setback. `Shown`
says this of the two statuses, and the one status that matches of the four others.

The properties of `subs_serial` are what the code keeps when one webhook or
request runs at a time; each of them fails when two overlap, which is why the run
has one handler. There every event is delivered until it is handled, which covers
redelivery after a failure, and `OrphansCostFailures` and `SetBackCostsFailures`
say what a failure can leave. A row that an answered event, delivered once more,
sets back is excluded by `MaxRedeliveries = 0` and is listed with the hazards.

Bounds. Two handlers suffice for every pair of stale copies, as a third only
repeats what the first two do to the row; two spontaneous events are the charge
and one change of the subscription, besides those that `cancel` causes, and six
reach arrears, suspension and the end of a subscription. `AnyHandler` is a sound
symmetry: handlers are interchangeable, and the properties checked with it are
invariants. `CHECK_DEADLOCK FALSE` because events and requests are bounded.

Fairness (`FairSpec`): a running process goes on, and Stripe delivers what is
unanswered. Payments, requests, redelivery of answered events and failures are
not forced. Failures are bounded, so a delivery succeeds in the end: Stripe
retries for days, and the claim is about outages that end.

### Proofs

`SubscriptionsProofs` proves for any set of handlers and any bounds, ordered or
not: `TypeCorrect`, `StagesAlwaysHold`, `AnsweredAlwaysRecorded` and
`InstallmentsAlwaysStall`. `StagesHold` is about the row, and a save writes what
was computed long before; `StagesInv` therefore says the same of every entity in
memory (`MemoryHolds`), that the event of the initial payment exists only after
the charge (`EventsHold`), that nobody pays before the session is open
(`NobodyPaysEarly`), and who may be where (`EveryoneInPlace`). All these are
stable: a charge stays paid and `signed` stays true, so an entity that fits goes
on fitting. `AnsweredIsRecorded` is inductive as it is. `InstallmentsInv` carries
"still at the first instalment" through row and memory, and needs `StagesInv` to
exclude an activation in flight.

The safety properties of `subs_serial` are proved for any bounds and failures,
from assumptions added where they are needed: `OneHandler`, requests and webhooks
do not overlap (the creator, which runs before anybody can pay, may);
`NoRepeats`, Stripe repeats no event it got a 200 for; and `Ordered`. The run
makes all three.

| Theorem | Assumes | Argument |
|---|---|---|
| `PaymentsAlwaysLinked` | `OneHandler` | `LinksInv`: a save under way knows all payments, and the next invoice number is the one generated, so no insert collides |
| `OrphansAlwaysCostFailures` | `OneHandler` | `CreatedInv`: unless something failed, what exists at Stripe is in the row or in the entity an activation is about to save |
| `SetBackAlwaysCostsFailures` | `OneHandler`, `NoRepeats` | `RecordedInv`: unless something failed, an unanswered event of the initial payment means that nothing is signed, and that only its own handler can have moved the row past the payment |
| `AlwaysFollowsStripe` | all three | `AgreesInv`: of a subscription that Stripe has reported on, its last word is still in the inbox (`Coming`), or the row has its status and nothing in the inbox could change that (`Heard`). `UnpaidInv`: of one that Stripe never collected there are no events but those the handler has no case for, so no save moves the row away from `active` or `pending_contract`; and nobody knows one that is not created |

All but the first use `CopyInv`: once signed, the copy of a handler is the row but
for what its task changes, including what it did at Stripe before the save. It is
about signed subscriptions only, as before that the creator's save may overlap. The
last two use `EventsInv`: events are numbered as sent, that of the initial payment
is unique and older than any about a monthly subscription, and a handler works on
the oldest event if the order is kept. This is where each assumption bites: a
repeated event has no place in the inbox, and out of order the last word may be
heard first.

## 6. Accounts

### What it models

One row of `users`: the credentials, the session, the one-time codes and the
contact addresses of a client, under every method of `AuthService` and
`UsersService` that writes them. Each request is a process:

| `pc` | Code | Action out of it |
|---|---|---|
| `idle` | for routes behind a guard, the strategy's `validate`; for the others the method up to its save | `Validate`; `VerifyEmail`, `Login`, `ToggleActive`, ... |
| `authorized` | the method's own `findOne` and all up to its save | `Refresh`, `Logout`, `ChangePassword`, `UpdateProfile`, ..., or `Refuse` |
| `load`, `write` | the two accesses of `userRepository.save` | `Load`, `Write` |

A request that fails writes nothing, as one that stops. Hashing and signing are
awaited between the first step and `load`, on the entity in memory, so a copy is
old by the time it is saved. Passwords, refresh tokens, codes and reset tokens are
named by the request that made them (0 is the registration); all the codes share
the columns `otpCode` and `otpAttempts`, whatever they were sent for. The secret a
caller presents is right or wrong; a refresh is accepted while any token is stored,
as the stored bcrypt hash covers the first 72 bytes only. Expiry is a refusal and
left open.

The count of wrong guesses is compared with two limits: `OtpMaxAttempts`, which
`AuthService` reads from the configuration (auth.service.ts:149, :584), and
`PhoneMaxAttempts`, which `UsersService` fixes (users.service.ts:28, 189). They
are two constants, as the code lets them differ.

`missed[r]` is the set of columns that others changed since request `r` read the
row: what it does not know of when it saves. Nothing is cut off when such a
request saves; requests overlap and overwrite each other freely. The observers say
what callers saw:

| Observer | Meaning |
|---|---|
| `issued` | tokens have been handed out |
| `ended` | a logout or a new password ended the sessions, and since then neither a login nor a request that missed it stored a token |
| `barred` | an administrator shut the user out, and neither did one let him in again nor a request that missed it since |
| `sentTo[c]` | the address code `c` was sent to |
| `accepted[s]`, `wrong[c]` | how often secret `s` was accepted, and the wrong guesses of code `c` answered by each service |
| `stale[s]` | the saves that accept, refuse or write back secret `s` and missed a change of it or of its count |
| `proven` | the addresses that a code *sent there* came back for, or that a super administrator marked |
| `strayed` | the addresses marked otherwise: by a code sent elsewhere or for another purpose, or put together with a mark by a save that missed a change of either |

### Run

`accounts`: four requests of any method, of which the first three overlap freely
and the fourth comes when they have ended. The code does not keep its promises
under overlap, and one of them not even without. So each property says what is
kept and counts, one by one, the saves that may break it; every other way is
excluded, in every interleaving.

| Property | Promise | What may break it, and does |
|---|---|---|
| `SessionsEnd` | after a logout or a change of the password, in any way, no refresh token is stored until the next login | a refresh or another request that read the token before and saves it, or a new one, after |
| `SpentOnce` | a code or reset token is accepted once, wherever it is presented | once more for each save that missed a change of it: the second of two requests that present it at the same time, or the first after a save wrote the accepted one back |
| `GuessesBounded` | `AuthService` answers at most `OTP_MAX_ATTEMPTS` wrong guesses of a code, and the two services together the larger of the two limits | one more count begins with each save that missed a guess, or the end of the code |
| `MarksBelong` | a verified mark is about an address to which a code was sent that came back, or one a super administrator marked | `strayed`: nothing compares the address a code was sent to, so a code sent to one telephone marks the one that `updateProfile` has put in its place (users.service.ts:84-88 leaves `otpCode`), and one mailed for a new password marks the telephone (:206) |
| `DecisionsStand` | once an administrator deactivated or deleted the user he stays out, and no login or refresh is answered | a request that read the user before the decision and saves after it, as a login under way (auth.service.ts:267-288) |

Bounds. A promise is broken by one request that sets it up, one that breaks it and
perhaps one between, overlapping either; the fourth, alone, sees what they left.
The two initial states (registered; logged in) save the requests that lead there.
One attempt in `AuthService` and two in `UsersService` tell the two limits apart in
the direction in which the telephone's route takes a guess more; two addresses of
each kind tell the old one from the new, and `SomeDtos` are the edits of an
administrator that move an address, with a super administrator's word for it and
without. `CHECK_DEADLOCK FALSE` since the requests are bounded; there is no
fairness, as all properties are safety.

### Proofs

`AccountsProofs` proves all six, for any number of requests and overlaps, any two
limits above 0, any addresses and bodies (`BoundsAssumption`, `InputsAssumption`).
Each method changes the row it read in a lawful way (`Effect`, `MethodLawful`: e.g.
a new code starts with no attempts, a moved address loses its mark unless the
administrator gives it one). A request that is about to save made its entity
lawfully from *some* row, which differs from the present one only in the columns it
missed (`ReadFrom`, `Prepared`); this is what becomes of a copy under overlap, and
what the save does to the row follows from it and from `missed[r]`. The inductive
invariant `IInv` adds that the observers fit the row (`SessionGood`,
`DecisionGood`, `SecretsGood`: a secret in the row has an acceptance left;
`GuessesGood`: the count in the row accounts for the guesses since the last stale
save), that the secrets and marks in the row and in every such copy were made and
given (`SecretsKnown`, `MarksGiven`), and that a secret not yet saved is nowhere
(`Fresh`). The properties alone are not inductive: they do not exclude a request
about to write a spent secret back that missed nothing.

## 7. Six services

`MCServices` runs six services that share no state: `about` says which one a
behavior is about. What each of them promises is promised of every interleaving,
and the observers say what it depends on.

| Module | What it models | Promise |
|---|---|---|
| `PoaThreads` | one conversation of a POA, its counters and messages; a post is the insert of the message, then the save of the thread read before it | `CountersTell`: the counters never exceed what was posted; when no request acted on a stale copy (`stale`) or failed half-way (`failed`) they equal it, and `unreadCount` equals what is unread unless single messages were read or deleted (`disturbed`), which the code does not count. `ReadStays`: what was read stays, what was deleted stays away, unless both meet |
| `Uploads` | documents and their files, named by the millisecond and the name given; the profile photo, whose file is replaced before the row | `FilesAgree`: a listed document has its file unless a deletion took it (`unlinked`), a file without a row is a request under way or failed, the photo of the row is the one on disk unless a request failed or a stale user was saved |
| `UserRoles` | several users under the administrator's methods; a demotion counts the super administrators, then saves | `SuperAdminRemains`, unless a request saved after what it had read or counted changed |
| `Templates` | the templates, the seed, and the rendering that saves the whole template to count its use | `SystemTemplatesStay` but for their count, also when saves insert a row again that was deleted |
| `Plans` | the plans, the seed at each start (a count, then three inserts), the administrator's methods | `SeedIsWhole`: no type twice; and once a seed got to its end (`looped`) and no type was changed (`retyped`), one plan of each |
| `Preferences` | the row of one user, and what `send` decides from it: cancelled, now, later | `QuietHoursKept`: a routine notification is due outside of quiet hours, and no later than they end, also over midnight; only a clock that reaches the end between its two readings delays it by a day |

Bounds (`Services.cfg`). Two requests overlap, the number a stale copy needs. Four
requests about a thread are its creation, a post and two that race over them; four
about files or templates contain a creation, a deletion, and what overlaps them;
three demotions, or seeds with an edit, suffice for two that race. One name and
two milliseconds make two uploads share a file. Two users are the least of which
one must remain; of two codes one is a default. `Preferences` counts hours
(`MinutesPerHour = 1`), so that all hours of a day are tried as the time of a
decision, with times of day before, at and after midnight and one written with one
digit; its two requests suffice for a decision on any row, as a decision depends
on the row it read only. No fairness, and `CHECK_DEADLOCK FALSE`, as in chapter 6.

Proofs, for all values of the constants but as stated:

| Theorem | Assumes | Argument |
|---|---|---|
| `FilesAlwaysAgree` | bounds in `Nat`, a name | `IInv` of `UploadsProofs`: who inserts has written its file, nobody has two documents (`DocumentsSound`); a file on disk belongs to an insert under way or to a document no deletion has reached (`FilesSound`); the photos on disk are those of the row and of swaps not yet saved (`SwapsSound`) |
| `SystemTemplatesAlwaysStay` | there are codes, the default ones among them | `IInv` of `TemplatesProofs`: rows and the copies in memory together agree on what is a system template, and each of those is as it was seeded (`CopiesSound`); who deletes holds none (`DeletesSound`) |
| `SeedAlwaysWhole` | `PlanRequests \in Nat` | `IInv` of `PlansProofs`: a seed about to insert a type has inserted those before it (`Sound`) |
| `SuperAdminAlwaysRemains` | finitely many users | `RolesInv`: who is to demote one has counted two, and if the count still holds when it saves, the other remains |
| `CountersAlwaysTell`, `ReadAlwaysStays` | `ThreadRequests \in Nat` | `ThreadInv`, below |
| `QuietHoursAlwaysKept` | `QuietBounds`: 1 to 60 minutes counted in an hour, delays in `Nat`, times of day that are times | below |
| `AllTypesCorrect` | the bounds above | the types of the six, which make `TypesOK` |

Each is proved of its module alone; the lemma `ServicesImplemented`, that a
behavior of `MCServices` is one of each module, carries it over.

`ThreadInv` says of the counters that they lag behind the messages by exactly the
posts that are inserted and not yet saved (`MessagesCounted`, `UnreadCounted`), in
both directions: a thread marked as read counts its messages before it saves the
count. That a save whose copy equals the row really is not stale needs an argument,
as a counter could have come back to its old value: while no stale copy is saved,
`messageCount` only grows, and while it is equal `unreadCount` only falls
(`CopiesOrdered`), so an equal copy has missed nothing. The bounds from above
hold with stale saves, too (`CountersBounded`). Since nothing like it was checked by
the run, `ThreadInv` was model-checked with four requests, three at a time, before
it was proved.

`QuietHoursAlwaysKept` is about every minute of a day. The code compares times of
day as strings; with two digits this is the order of their minutes
(a lemma, over all the digits), and with one it is not. The rest is
arithmetic: modulo the day, the first minute after quiet hours that is not before
now, for hours within a day and over midnight. The run counts hours, the theorem
covers minutes, as `MinutesPerHour` is any number up to 60.

Three remarks on the code behind `Preferences`. The DTO accepts `9:00`
(preferences.dto.ts:120), which compares as a string after `22:00`, so
`QuietHoursKept` speaks of times written with two digits. The `timezone` of the
preferences is never read, so quiet hours are those of the server, and a time the
client scheduled gives way to the end of quiet hours. And the guide
(src/NOTIFICATIONS_GUIDE.md:441) says that security alerts ignore the
preferences, while `send` asks `isAllowed` for every notification
(notifications.service.ts:71).

## 8. What is left

Not modelled, since no state of the service depends on it: the POA event listener
and its e-mails, the channels and the rendering of texts, the activity log and
SMS, the Stripe wrapper (what is used of it is external in `Subscriptions`),
start-up, guards, DTOs and the HTTP layer. Refusals of the controllers count where
a property needs them, and otherwise a model allows more than the code.

Not combined: a notification's preferences and its queue, an account's roles and
its sessions. The modules meet in one row each, and abstract what the other one
writes to "another method saves what it read".

Every invariant and action property of the passing runs is a theorem. Liveness
(`JobEnds`, `ChargeIsRecorded`) stays with TLC: it rests on fairness, and fairness
on ENABLED, which the proof system does not support. So do the three properties
expected to be violated.

Of five hazards no property that a run checks would catch the harm. That
instalments never complete (payments/subscriptions.service.ts:260) is proved
instead. The others the code really does, so that nothing true excludes them: a
reader's save turns a sent notification back into one being sent
(notifications/services/notifications.service.ts:308); a `customer.subscription.*`
event that arrives before the Stripe id is saved
(payments/subscriptions.service.ts:405) is answered and lost; a save of `cancel` or
`activate` detaches a payment recorded meanwhile (:630); a rendering overwrites an
administrator's edit of a template, or inserts it again after its deletion
(notifications/services/notification-template.service.ts:255). The theorem
`SentAtKept`, and the properties `FollowsStripe`, `PaymentsStayLinked` and
`SystemTemplatesStay`, say how far each of these goes.

The same holds of other hazards in part: where the code breaks a promise under
overlap or after a failure, the property names the requests that may break it
(`stale`, `failed`, `missed`, `strayed`, ...) and excludes every other way; the
notes in `PROJECT.json` say so hazard by hazard. In particular no property excludes
that a stale save moves the status of a POA back to one it had (`FollowsTrail`
bounds it to those), or that an activated subscription is set back to waiting for
its contract when webhooks overlap or are repeated after their answer.
