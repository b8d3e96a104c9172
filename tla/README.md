# Verification of the campus backend

TLA+ models of the Go backend in `src/` (a campus application: marketplace,
errands, carpools, activities, comments, notices, academic verification), the
TLC runs that check them and the TLAPS proofs about them. Paths below are
relative to `src/`; `internal/` is left out where it is clear.

## The system and its parts

One HTTP server binary and one worker binary run in several processes over one
MySQL database, one Redis and an asynq task queue. MySQL transactions, row locks
and conditional updates are the only synchronisation between processes.

| part | state it keeps | operations | what is hard |
| --- | --- | --- | --- |
| domain events (`core/domainevent`, `infrastructure/domainevent`) | `domain_events` rows with status, attempts, lease | write in the business transaction; relay leases a batch, publishes, settles | overlong ticks, takeovers, late settles, redelivery, failing subscribers, clock skew |
| marketplace and trade (`modules/marketplace`, `modules/trade`) | listings, reservations, orders, the transition ledger | edit, submit, review, withdraw, remove, reserve, cancel, complete, expire | unlocked reads before locks, three tables that must agree, batches that roll back |
| idempotent requests (`core/idempotency`, `api/httpapi/idempotency.go`) | `idempotency_records` | reserve, run the handler, complete, replay; callbacks after the commit | racing inserts, gap-lock deadlocks, reused keys, crash between commit and callbacks |
| notice centre (`modules/notice`) | notices, recipients, deliveries, outbox rows, asynq tasks | draft, queue, publish, revoke, requeue; relay; claim, load, send, record | leases, retries, timeouts that leave handlers running, revocation while under way |
| role administration (`core/permission/service.go`) | role assignments, account status, each process's policy cache | set roles, disable, create and delete roles, base-role changes | snapshot reads before a lock, cached policy read at login |
| policy synchronisation (`core/permission/sync.go`) | policy outbox, each process's enforcer | record, relay, notify, reload | lost notices, stale reloads, leases of dead processes |
| sessions (`core/auth`, `redisclient/session_store.go`) | session families in Redis, session versions in MySQL | login, refresh with rotation, logout, revoke | login racing a revocation, reuse of a rotated token, lost callbacks |
| activities (`modules/activity`) | activities, registrations, the registration counter, event keys | edit, submit, approve, reject, cancel, finish, register, cancel a registration | the last place, repeated registrations, event keys that do not move |
| errands (`modules/errand`) | tasks, trade orders, transitions | post, edit, review, accept, pick up, deliver, complete, cancel, by task or by order | two tables that must agree, orders read before they are locked |
| carpools (`modules/carpool`) | trips, participants, the seat counter | post, edit, review, join, leave, cancel; complete departed trips | the last seat, a batch read without locks, a time read before the lock |
| academic verification (`modules/academic_verification`) | requests, identities, materials and their encrypted files, base roles | upload, submit, verify, approve, reject, revoke; clean up | files and rows that part, cleanups taken over, identity and membership in three tables |
| comments (`modules/comment`) | comments, pins | write, reply, edit, withdraw, review, pin | a tree that loses inner nodes, pins that outlive their comment |
| campus circle (`modules/campus_circle`) | sections, posts, likes | post, move, review, archive, activate | a section archived while a post is written into it |
| configuration centre (`core/configcenter`) | settings with versions | create, update, delete, runtime view | edits from the same read |
| migrations (`infrastructure/migration`, `generator/schema.go`) | drafts, formal files, manifest, schema snapshots | plan, draft, promote, snapshot, check | statement order, failed file operations, edited history, stale renames |
| WeChat login, payment, bootstrap, generator templates, generated code, HTTP adapters | none of their own | | |

The parts meet in four ways: a business transaction writes a domain event and
the relay turns it into a notice; an idempotent request wraps a manager's
transaction and runs its callbacks (session revocation, policy reload) after the
commit; academic verification changes base roles in its own transaction; the
worker's loops call the stores' periodic operations.

## Modules

| module | models | composed of |
| --- | --- | --- |
| `EventDelivery` | what the outbox promises: an event is queued, delivered to its notice once, dispatched or given up | |
| `DomainEventRelay` | `relay.go`, `notice_publisher.go`, `writer.go` | instantiates `EventDelivery` for the refinement |
| `DomainEventRelayProofs` | theorems about it | extends `DomainEventRelay`, `TLAPS` |
| `Marketplace`, `MarketplaceProofs` | the two `store.go` files of marketplace and trade | |
| `WriteOnce` | what an idempotency key promises: one change per key, recorded in the step that makes it, one answer per request, drawn from that record | |
| `Idempotency`, `IdempotencyProofs` | `idempotency.go` of core and of the HTTP layer | instantiates `WriteOnce` for the refinement |
| `NoticeCenter` | the notice store, relay and processor, with asynq as an external part | |
| `RoleAdministration`, `RoleAdministrationProofs` | `core/permission/service.go`, account status and WeChat login of `core/user/service.go`, approval and revocation of members | |
| `PolicySync`, `PolicySyncProofs` | `core/permission/sync.go`, `redisclient/policy_notifier.go` | |
| `Activity`, `Errand`, `Carpool`, `Comment`, `CampusCircle`, `AcademicVerification` | the module of that name: rules, manager and store | |
| `MemberOffers` | the promise the three response builders share: what a viewer is offered the store accepts | extends `Activity`, `Errand`, `Comment` |
| `MemberServicesProofs` | theorems about carpools, activities, errands, comments and the campus circle | extends these modules, `MemberOffers`, `TLAPS` |
| `Sessions` | `core/auth/service.go`, the scripts of `redisclient/session_store.go`, the account changes of `core/user/service.go` | |
| `ConfigCenter` | `core/configcenter/service.go`, `mysql/config_repository.go` | |
| `SchemaPlan` | `planSchemas` of `lifecycle.go`, `orderEntities` of `generator/schema.go` | |
| `MigrationLifecycle` | drafts, promotion, manifest and snapshot of `lifecycle.go`, `rootfs.go` | |
| `AccountProofs` | theorems about settings, sessions and academic verification | extends these modules, `TLAPS` |
| `OperationsProofs` | theorems about the notice centre and the migration files | extends `NoticeCenter`, `MigrationLifecycle`, `TLAPS` |
| `MCDomainEventRelay`, `MCMarketplace`, `MCNoticeCenter`, `MCRoleAdministration`, `MCActivity` | constants for TLC | extend the module they are named after |
| `MCServices` | one run for nine components whose safety is checked | roles, activities, errands, comments, campus circle, sessions, settings, plans, migration files |
| `MCWorkers` | one run for four components that must also get somewhere | idempotent requests, policy synchronisation, carpools, academic verification |

`MCServices` and `MCWorkers` put components side by side that share no table. A
variable `focus` chooses one component at the start of a behaviour and the
variables of the others stay as they began, so every behaviour of each component
is there and the state spaces add up instead of multiplying. Nothing is claimed
about components interacting there; where they do interact they are in one
module (an errand and its trade order, an approval and the base role, a password
change and the sessions).

### How state and actions correspond to the code

A database transaction, a conditional update or one Redis command is one step;
whatever a Go function does between two of them is a place where other
processes, crashes and time come in. Versions that a request must carry are
implicit where the operation is a single step (it succeeds only with the
current version) and explicit where it is not (`Remove`).

* **DomainEventRelay.** `row[e]` is the table row. `BeginTick`, `Lease`,
  `PublishNotice`, `PublishAudit`, `markDispatched` and `release` are the calls
  of `Relay.tick` in their order; `PublishFails` is an error of either
  subscriber; `Abandon` is a crash, a cancelled context or a database error in
  mid-batch. The lease token is the tick's time, as in the code, so two relays
  may in principle draw equal tokens; clocks may be skewed by `Skew`.
* **Marketplace.** One action per store method. `Remove` and
  `ExpireReservations` read without locks first, so each has a `Begin` step whose
  result may go stale, and a roll-back. `transitions` is the ledger and `events`
  the domain events written in the same transaction.
* **Idempotency.** An attempt runs lookup (`SELECT ... FOR UPDATE`), insert,
  second lookup, handler, completion, commit and callbacks. Row locks and, under
  REPEATABLE READ, gap locks are modelled from what MySQL does (external);
  `gapLocks` chooses the isolation level, and both are checked.
* **NoticeCenter.** Time enters as choices (a row becomes due, a lease becomes
  old). `slot[h]` is a handler goroutine of the asynq server; `live` is false once
  asynq has given its task up. `task` is the queue: task ids are unique while a
  task exists, which the relay relies on. `faulted` remembers deliveries whose last
  attempt met a fault; queueing one again takes it out. The transaction of
  `Publish` is one step: that recipients, deliveries and outbox rows are written
  all or not at all is MySQL's and assumed, not checked.
* **RoleAdministration.** `tx[q]` is an administrative request. `Open` is the
  transaction's first read (`users.Get`), which under REPEATABLE READ fixes what
  all later plain reads see; `lockSuperAdminRole` is the row lock; `SetUserRoles`
  and `DisableUser` check what the request has seen, write and commit.
  `snapshotReads` chooses the isolation level, since the code sets none: both are
  checked. `cache[p]` is a process's enforcer, reduced to the members it knows; a
  login reads it (`BeginLogin`) and then writes a base role
  (`EnsureCurrentBaseRoleForUser`). `outdated` records that a request relied on
  an administrator who was one no more.
* **PolicySync.** Policies are numbered by the changes committed. `want[i]` are the
  goroutines waiting for `reloadMu`, `reading[i]` the reload under way;
  `sub[i]` is the place of the subscription loop of `runReloadLoop`, `mail` an
  unread Redis message. `List`, `Claim`, `Publish`, `Complete` and `Release` are
  the statements of `relayPolicyChanges`. A restart loads the policy and draws a
  new instance id, so claims of the old one belong to `Gone`. Enforcers of
  different processes do not influence each other, so only those of `Watched`
  are followed; every process commits changes and runs a relay.

* **Activity.** `activity[i]` and `registration[i][u]` are the rows. Every write
  locks the activity row, so it is one step; `now` is read before the wait for
  the lock and may be `MaxActivityWait` old. `cancelEvents[i]` holds the versions
  for which an event of a cancelled registration exists, the only event whose key
  can be met again. `CanStillPublish` shows that `Publish`, which approval has
  already done, can never change anything.
* **Errand.** `task` and `errandOrder` are two tables written together. A request
  that names the order reads it first (`ReadOrder`, `finishTradeOrder` of the
  handler) and finishes the task later (`FinishOrder`). `GetVisible` is the query
  as gorm builds it.
* **Carpool.** `trip` and `rider` are the tables. `SelectDue` reads a batch without
  a lock, `CompleteTrip` takes one of it at a time, `CompleteDueFails` ends it.
* **Comment.** `comment` and `pin`; threads, root lists and reply counts are
  operators on one state.
* **CampusCircle.** The only module with explicit shared and exclusive row locks:
  a call takes the post's lock, the section's and the root's in separate steps
  and holds them to its commit.
* **AcademicVerification.** `material` rows and `files` are written apart. A cleanup
  claims rows, deletes files and completes rows in separate steps and may stop
  between them; its batch is a set that it works through in id order. Clocks are
  reduced to what the code compares them with. A request takes its id before its
  transaction locks the identity, so a step takes any free id (`FreeRequestIds`):
  transactions commit in any order of their ids.
* **Sessions.** `account` is MySQL, `session` and `index` are Redis; each script is one
  step. `handedOut` remembers every token pair with the pair it was bought with
  and the password its family was opened with. `revocation` holds the callbacks
  that have not run yet and may be lost.
* **ConfigCenter.** `edit[e]` is an update that has read its row and not yet written.
  The version it names is the client's: it is compared with the row only in the
  WHERE of `UpdateVersion`, never with what was read, and may be ahead of it.
* **SchemaPlan.** A behaviour is one plan: snapshot and declaration are chosen, the
  statements are run against a database that is at the snapshot, then the way
  back. What MySQL accepts and does is external; it refuses to drop the only index
  a foreign key has (`MayLose`). A field with a foreign key has the type of the
  parent's id, so widths vary on another column.
* **MigrationLifecycle.** `drafts`, `formal`, `manifest` and `drift` (the snapshot) are
  files. `Promote` is one step per file, each of which may fail, which undoes
  the others, or be the last before the tool is killed, which does not. `Promote`
  skips the check of the manifest where there is none; the model begins with one.

## Runs

Five runs hold and seven show a disagreement.

| run | bounds | shows |
| --- | --- | --- |
| `MCDomainEventRelay` | 2 events, 2 relays one of them a clock unit ahead, lease of 1, 2 attempts, 1 crash; prompt ticks to time 6, unhurried ones to 4 | leases are exclusive; one notice per event, for its recipients; refines `EventDelivery`; prompt relays settle every event |
| `MCMarketplace` | 2 listings, 3 users, 2 orders, 2 keys, 1 administrator, 1 worker with batches of 1 | listing, order and reservation agree; ledger and events are complete and a listing is sold once; the contact for the owner until the listing is closed and for the holder; offered actions are accepted; overdue reservations are released |
| `MCNoticeCenter` | 1 notice of every kind of draft, 2 relays, 2 handlers, 1 requeue, 1 retry, 2 leases per row, 1 fault, 1 disabled user | a live handler keeps its lease; no delivery is forgotten except by a fault on its last attempt; the snapshot of recipients is complete; revoked is final; deliveries settle |
| `MCServices` | see below | nine components, safety |
| `MCWorkers` | see below | four components, safety and liveness |
| `MCMarketplaceKey` | as `MCMarketplace` | violation: another buyer's key blocks an order |
| `MCNoticeCenterRetry` | 1 fault | violation: a delivery is left that nothing comes for |
| `MCRoleAdministrationAdmin`, `MCRoleAdministrationMember` | 2 users, 2 concurrent requests | violations: the last two administrators are removed; a login demotes a member |
| `MCActivityEvents` | 1 activity, 3 users | violation: a second cancellation is refused |
| `MCErrandView` | 2 tasks, 2 users | violation: another task than the one asked for |
| `MCSchemaDrops` | 2 tables, 2 columns | violation: a dropped column is not reported |

In `MCServices`:

| component | bounds | property |
| --- | --- | --- |
| roles | 2 users, 1 custom role, 2 requests at a time, 3 in all, 1 process, both isolation levels | `OneBaseRole`: everyone is guest or member and never both |
| activities | 1 activity, 3 users, 2 keys, capacity 1 or 2 | `CountMatchesRegistrations`: the counter is the number of active registrations, within the capacity, and the registered can open what they registered for |
| errands | 2 tasks, 2 users | `TaskAndOrderAgree`: task and order are one thing, closed once |
| comments | 3 comments, 2 users, depth 2 | `ReadersSeeTheVisibleTree`: a thread is what hangs under its root through visible comments; pins name visible roots |
| activities, errands, comments | | `OffersAccepted`: what a viewer is offered the store accepts |
| campus circle | 2 sections, 1 post, 2 concurrent calls | `PostsEnterOpenSections`: no post enters a section that is, or whose root is, archived at the commit |
| sessions | 1 account, 2 sessions, limit 1, 2 callers | `OldPasswordLocksOut`, `RefreshedOnce` |
| settings | 1 key, 2 editors, 2 rows in turn | `EditsCompose`: an update whose version is not ahead of the row it read changes only what it names; every update moves the version by one and leaves a valid row |
| plans | every pair of schemas over 2 tables, 3 columns, 1 index name; the key and the index on one column, 2 widths on another; both orders of declaration | `PlanWorks`: MySQL takes every statement both ways and ends at the declared schema and back at the snapshot, if every `rename_from` of a snapshot column names it alone (`RenamesAreClean`) and, for the way back, no index is added under a key that was there without one (`KeysHaveTheirIndex`); what happens otherwise is under Disagreements |
| migration files | 2 drafts, 2 faults, 1 second | `FailedPromoteLeavesNothing`, `HistoryKept` |

In `MCWorkers`:

| component | bounds | property |
| --- | --- | --- |
| idempotent requests | 4 attempts on 2 keys, one with another body, both isolation levels | `KeepsItsPromise`: the attempts implement `WriteOnce`; `EveryAttemptEnds` |
| policy synchronisation | 2 processes, the enforcer of one followed, 1 change, 2 faults | `EnforcerNeverGoesBack`, `EveryChangeDispatched`, `Converges` |
| carpools | 2 trips, 3 users, 2 seats, batches of 1, 1 failed batch | `SeatsMatchRiders`, `TripOffersAccepted`, `TripEndsOnce`, `DepartedTripsComplete` |
| academic verification | 2 students, 2 numbers, 1 material, 2 requests, 2 cleaners, 1 fault | `PendingMaterialKept`, `MembershipHasItsRequest`, `DueMaterialsDeleted` |

Why the bounds are enough: the hazards are races of two actors over one row, so
two relays, handlers, attempts, buyers or calls and one administrator or worker
reach every order of their steps; attempts, retries and versions are bounded just
above the boundary that matters (first try, last try, used again after a
release); three members for two seats and two places; a comment tree of depth two
has a root, an inner node and a leaf. A crash may fall between any two steps. The
proofs lift the bounds where they exist. Versions are bounded in the guards; a
property about offered actions leaves out rows at that bound.

### Fairness

* Relays (`WF` of a relay's step): `Run` loops until the process stops. A tick that
  takes longer than its lease for ever settles nothing, so progress is promised
  only of prompt relays: the variable `prompt` of `MCDomainEventRelay` says whether
  time passes only between ticks, and `PromptRelaysSettle` is about those
  behaviours. Safety is checked for both kinds.
* Expiry worker: `WF` of its read, `SF` of its commit: `runPeriodic` repeats the
  call, and a batch that is rolled back by a deadlock or lost connection is
  collected again; an error that recurs for ever is not covered.
* Notice handlers and relays: `WF` of their steps, and of time.
* `HandlersGoOn`: each idempotent attempt's own next step; waits end because
  MySQL resolves deadlocks and times lock waits out.
* `PolicyLoopsGoOn`: the ticker, `reloadPolicy`, the subscription loop and each
  relay, all endless loops with timers; and time, for a claim nobody works on. A
  relay still at work when its claim turns 30 seconds old counts as a fault, of
  which there are finitely many: relays that always take that long would take a
  row from each other for ever.
* `DueTripsAreTaken`: the worker's minute ticker calls `CompleteDue`, and a batch that
  was read is worked through. Failed batches are bounded.
* `CleanupGoesOn`: the worker's ticker calls `CleanupExpired`, and tokens, retentions
  and claims grow old. Failures and stops are bounded.

The fairness of `MCWorkers` is guarded by `focus`: it asks nothing of the
components a behaviour is not about.

`CHECK_DEADLOCK FALSE` is set where the system may stop: all listings closed, all
attempts done, all deliveries settled, a plan finished, and the bounds used up.

## Proofs

All proofs are for arbitrary constants that satisfy the named assumptions.

* `DomainEventRelayProofs`. The inductive invariant is `TypeOK`, `LeaseInv` (with
  `TokenInv`: any token a tick still holds is older than whatever the row has
  become, so no two ticks can both pass the conditional update) and `ChainInv`
  (which subscribers an event has passed at each point of the loop). It is
  needed because exclusiveness of leases depends on time: a takeover moves
  `locked_at` strictly past the old token, and a release moves `available_at`
  past it. Theorems: `TypeCorrect`, `LeasesExclusive`, `SettledStaysFinal`,
  `FailedAreExhausted`, `DispatchedAreDelivered`, `NoticesOnce` and the
  refinement `RelayRefinesDelivery`.
* `MarketplaceProofs`. `IInv` is `TypeOK`, `LinkInv` (an order that exists points
  at an existing listing), `HeldByOneOrder` and `RemoveSawTruth`: the safety of a
  Remove depends on its stale read, which in turn depends on every change of a
  reservation moving the listing's version. For the ledger a second invariant,
  `LedgerInv`, rests on it: `Told` (an order that does not exist has no entry and
  no event, which is what makes the first ones its first) and `SoldInv` (a listing
  is sold exactly if one order on it was completed; a sold listing is never
  reserved again, so there is no second). Theorems: `TypeCorrect`,
  `OneOrderHolds`, `RemoveReadHolds`, `ClosedStaysFinal`, `LedgerIsComplete`,
  `ContactIsForHolders`, `OfferedIsAccepted`.
* `IdempotencyProofs`. The invariant is `OneOwner`: between reservation and commit
  an attempt owns its key's record alone, and a visible record is completed and
  belongs to a committed attempt. Theorems: `TypeCorrect`, `CommittedAtMostOnce`,
  `SuccessShared`, `NobodyInProgress`, `CallbacksOnlyAfterCommit`, and the
  refinement `KeepsPromise`. It maps the outcome of a key to the attempt whose row
  others can see (`Recorded`), the change to the commit, a replay to the locking
  read that meets such a row, and a crash to a lost answer; reservations, failed
  inserts and rollbacks are stutters, because they touch only a row that nobody
  else sees. Besides `IInv` it needs `AnsweredWhenDone`: an attempt that can still
  move has told its client nothing.
* `RoleAdministrationProofs`. `IInv` is `TypeOK`, `OneBaseRole`, `LockInv` (at most
  one request holds the lock), `WantedInv` (no request asks for a base role),
  `SeenInv` (what a request has read names an administrator, and under READ
  COMMITTED those it names stay administrators while it holds the lock) and
  `LostOnlyByOldView`. Theorems: `TypeCorrect`, `BaseRoleIsOne`,
  `AdminsLostOnlyByOldView` and `LockSuffices`: with READ COMMITTED the property
  that fails in `MCRoleAdministrationAdmin` holds for every instance.
* `PolicySyncProofs`. `IInv` is `PolicyTypeOK`, `RelayInv` (a relay about to complete a row
  has published it), `ReloadInv` (one reload at a time, which read a policy not
  older than the one enforced) and `DispatchedWasPublished`. Theorems:
  `TypeCorrect`, `RowsArePublished`, `PolicyOnlyAdvances`.

* `OperationsProofs`, the notice centre. `NoticeInv` is `TypeOK` and four parts.
  `SlotInv`: a busy handler works on an active task of its own, and two that hold
  deliveries hold different ones. `QueueInv`: a task has its row, a row its
  delivery, and a relay carries only leases that were given. `KeptInv`: a delivery
  under way has a task, and one that waits has a task or a row the relay still
  has to make one of (`Owed`); "a row exists" would not be inductive, because a row
  that is enqueued and only waits to be marked brings nobody. `SnapInv`:
  deliveries are those of the recipients. `TurnInv` goes along for `Publish`
  alone. Theorems: `NoticeTypeCorrect`, `LeaseIsKept`, `NothingForgotten`,
  `SnapshotIsComplete`, `RevocationIsFinal`; `LiveSpecIsSpec` carries them to the
  specification with fairness.
* `OperationsProofs`, the migration files. `LifecycleInv` is the types and
  `Undoable`: while a promotion runs, what it began with is what is there without
  its own two files, and the manifest lags behind or has just caught up.
  `HistoryIsKept` needs no more than that the manifest is only written when it
  agrees with the files. Theorems: `LifecycleTypeCorrect`, `FailedPromoteIsUndone`,
  `HistoryIsKept`.
* `MemberServicesProofs`. Carpools: `RowFits` (the counter is the number of riders,
  the seats suffice, an active trip is full when it says so and only an approved
  one has riders), without which neither a join nor a revoked review keeps the
  counter. Activities: `ActivityFits`, likewise; it also says that no draft is
  approved, since approval publishes. Errands: `TaskFits` (a task names an order
  exactly when it has a runner, and both are closed together), `OrdersHaveTasks`
  and `CallsKnowTasks` (what a request read before it locked). Campus circle:
  `HoldsItsRows`, which says that a transaction that has passed the check still
  shares the section and the root and that both are as it found them, with
  `RootsOpened` (a root has a row). Theorems: `CarpoolTypeCorrect`,
  `SeatsAreRiders`, `EndedTripsStay`, `TripOffersHold`, `ActivityTypeCorrect`,
  `CountIsRegistrations`, `ErrandTypeCorrect`, `TaskAndOrderAreOne`,
  `CommentTypeCorrect`, `ReadersSeeTheTree`, `OffersHold`, `CircleTypeCorrect`,
  `WrittenInOpenSections`.
* `MemberServicesProofs`, the comment tree. A reply is written after its parent,
  under the parent's root, target and one level deeper; nothing moves a comment
  afterwards. This invariant makes the number of a parent smaller than its
  reply's, so that "the least comment for which the claim fails" is a
  contradiction: a comment hangs under its root through visible comments exactly
  if `depthFirst` walks to it. The recursive functions behind `depthFirst`
  (`ThreadComments`) and behind the reference (`HangingUnder`) are shown to be well
  defined first, in the same way.
* `MemberServicesProofs`, the offers. Each operation that a response may offer has
  its guard under a name (`MayJoinTrip`, `MayRegister`, `MayAcceptTask`,
  `MayPinComment`...), of which the action is the guard and its effect; an effect
  assigns every variable, so the guard holds exactly when the action can be taken, and
  the property needs no `ENABLED`. Some offers are accepted only because of an
  invariant: an edit of a trip, because what is stored is an input once given
  (`TripInputsKept`); an edit of a draft activity with any valid capacity, because
  a draft has no registrations (`ActivityFits`); the acceptance of an open task,
  because it has no order whose key could be in the way (`TaskFits`,
  `OrdersHaveTasks`).
* `AccountProofs`. Settings: `ConfigInv` (an edit whose id and read version are still
  current has read the row as it is; if it names no version ahead of that, it is
  written only while that version is current, so what it does not name it writes
  back unchanged). Sessions: `SessionsInv` (a token carries the password of its session
  version, so the version a password change raises shuts out the old ones;
  a family has one pair for each generation and a live session is at its last, so
  two pairs never share a parent). Academic
  verification has two invariants that do not need each other. `MaterialInv` turns
  on `Doomed`: a material whose retention began, or that was not used in time, stays
  so; only such a row is claimed, and a pending request's material is not one.
  `RequestInv` says that a verified identity has an approved request of its number
  and method, and `PendingAreCards` that a request under review is by card, as the
  identity its approval writes. A revocation takes the latest approved request,
  which exists by `GreatestNumber`. Theorems: `ConfigTypeCorrect`,
  `UpdatesCompose`, `AuthTypeCorrect`, `OldPasswordIsLockedOut`,
  `TokensRefreshOnce`, `AcademicTypeCorrect`,
  `PendingRequestsKeepTheirMaterial`, `MembersHaveTheirRequest`.

Least and greatest elements of sets of numbers (`Min` of a batch, the latest
request) come from well-foundedness of the naturals
(`WFMin`) and need no induction over data.

Some theorems state properties that no run repeats, because a deeper one is
checked there: `SettledStaysFinal`, `FailedAreExhausted`,
`DispatchedAreDelivered`, `RemoveReadHolds`, `ClosedStaysFinal`,
`CommittedAtMostOnce`, `SuccessShared`,
`NobodyInProgress`, `CallbacksOnlyAfterCommit`, `AdminsLostOnlyByOldView`,
`LockSuffices`, `RowsArePublished`, and the type theorems, whose conjunctions
`MCServices` and `MCWorkers` check as `ServicesTypeOK` and `WorkersTypeOK`.

Only model-checked:

* all liveness properties (`PromptRelaysSettle`, `OverdueReleased`,
  `DeliveriesSettle`, `EveryAttemptEnds`, `Converges`, `EveryChangeDispatched`,
  `DepartedTripsComplete`, `DueMaterialsDeleted`), which the prover cannot do;
* `PlanWorks` and the types of `SchemaPlan`: it sorts and executes statements by
  recursion, and what a recursion computes for every input needs an induction over
  data;
* `ServicesTypeOK` and `WorkersTypeOK` as conjunctions; except for `SchemaPlan`,
  each of their parts is a theorem about its own component.

## Disagreements found

* A database error on a delivery's last attempt puts it back to `pending`, and
  nothing ever takes it up again (`MCNoticeCenterRetry`).
* Order keys are documented per buyer, but the ledger's unique key ignores the
  buyer (`MCMarketplaceKey`).
* The last super administrator is not protected under REPEATABLE READ: two
  requests that open before either commits are serialised by the lock, but the
  second counts administrators in a view from before the first
  (`MCRoleAdministrationAdmin`). A locking read of the count, or READ COMMITTED,
  would do.
* A login outside a transaction decides the base role from the process's policy
  cache, so a member approved elsewhere, or during the login, becomes a guest
  again (`MCRoleAdministrationMember`).
* The event of a cancelled registration is keyed by the activity's version, which a
  registration does not change. A second cancellation meets the key; the writer
  compares bytes with a JSON column, which MySQL has reformatted, and refuses
  (`MCActivityEvents`).
* `GetVisible` of errands builds `id = ? AND approved OR requester = ?`: a requester
  who asks for another's task is given the oldest of their own (`MCErrandView`).
* A `rename_from` that is done hides a later drop of the column it names: it is
  neither dropped nor reported (`MCSchemaDrops`).
* Without a run: an update of a setting whose request names a version one ahead of
  the row (2 while the row is at 1) is written if somebody else's update brings the
  row to 2 between its read and its write, and takes that update's fields back to
  what they were. `Update` never compares the version with the row it read.
  `EditsCompose` promises nothing to such requests.
* Without a run: two verifications by credentials of one verified user can lock the
  identity in the reverse order of their requests' ids. The identity is then the
  one of the lesser id, while `Revoke` strikes the approved request with the
  greatest and leaves the identity's own approved. `MembershipHasItsRequest` says
  that some approved request is the identity's, not that the latest is.
* Without a run: two fields may name one column in `rename_from`. `Normalize` accepts
  it and the plan renames the column twice; the second statement fails.
* Without a run: an index declared on a field whose foreign key was there before
  replaces the index MySQL had made for the key, and the way down, `DROP INDEX`, is
  refused because the key needs it (error 1553).
* Without a run: `DeleteRole` and `SetUserRoles` do not lock the same rows, so a
  role may be deleted while it is being assigned.
* Without a run: `Submit` takes a rejected listing straight to review and
  `Publish` a scheduled notice straight to published, both outside the tables of
  the packages' own `CanListingTransition` and `CanTransition`, which nothing calls.
* Without a run: a comment at the last level is offered `reply`, which the store
  refuses; a member whose verification was revoked is still offered the errand
  actions the gate on member writes refuses; a marketplace key of 115 to 128
  characters passes its check but not, with its prefix, the ledger's column;
  `campusctl` stopped between the manifest and the removal of a draft leaves a
  draft that can be promoted again.

## Not modelled, and the plan

What is left, in this order:

1. Proofs: `EventDelivery` and `WriteOnce` are implemented by the relay of domain
   events and by idempotent requests; the notice centre's outbox and the policy
   relay keep a promise like the first and could be shown to implement one too.
   `SchemaPlan` stays with TLC.
2. `SetPermissions`, `UpdateRole` and the creation of users in
   `RoleAdministration`; read marks in `NoticeCenter`; the category tree of the
   marketplace.
3. Reads of several statements (`ListRoots` of comments, pages of lists), which a
   write can fall between.

Left out for good:

* the generated query code (`*.gen.go`) and `api/generated/api.gen.go`, about half
  of the implementation's lines: it holds no decision of its own;
* HTTP decoding and encoding, and lists' filters, pages and sort orders;
* the templates of the module generator, start-up and wiring;
* WeChat calls, the credential provider, encryption and token signing (pure I/O or
  libraries), and the rate limiter, whose limits no other part relies on;
* payment: interfaces without an implementation;
* wording and formatting of notices, listing images, places, prices and notes.
