# qc-backend in TLA+

qc-backend registers physical assets for tenants, writes a log of their life
cycle to blockchains, keeps them in escrow, and sells the credits that
registrations cost. It is an Express server over PostgreSQL (Prisma) whose
operations are methods of "facets" (`src/src/services/core-facets/`), plus
workers that a scheduler starts by cron and adapters for five blockchains.

The hard part of it is the same everywhere: one operation is a row of awaited
statements, against a database at READ COMMITTED and chains that no transaction
spans, and nothing holds the statements together unless the code says so. These
modules model what happens between two awaits, who may run in between, and what
is left when a step fails. Paths below are relative to the repository.

## 1. Inventory

### Components

| Component | State | Operations | Hard behaviour | Correct if |
|---|---|---|---|---|
| Event log (`EventLogFacet`) | `EventLog`: status, signatureHash, dltTxId | record, suggest, review | review while the queue is claiming | only approved events are anchored |
| Anchoring queue (`AnchorQueueService`) | markers in `EventLog.dltTxId` | `processQueue` | overlapping runs, failures between chain and database | one run per event; markers are always somebody's work; records are true |
| Retry worker (`RetryWorker`) | `PendingTransaction` | `processRetries`, `enqueue`, `executeTransaction`, `handleFailure` | runs in two processes, stale copies, dead letters | outcomes are final; success means anchored |
| Escrow (`TikinEscrowFacet`, `EscrowFacet`) | `Escrow`, `Asset.status`, the chain's escrow | lock, release, cancel | chain first, then three separate updates | rows never claim more than the chain did; custody is backed |
| Release worker (`EscrowReleaseWorker`) | `Escrow.status` PROCESSING | `processReleases` | unconditional mark, revert on any error | each due AUTO escrow is released, once |
| Asset life cycle (`LifecycleFacet`, `TransferRegistryFacet`, `BillingFacet`) | `Asset.status`, `WebhookInbox` | transition, transfer, payment notices | read, check, write by primary key; notices repeated and stuck | terminal statuses stay; a notice acts once, and confirms only what was asked for |
| Asset registry and curation (`AssetRegistryFacet`, `CurationFacet`) | owners, contributions, events | create, edit, grant, revoke, accept, submit, review | rows read outside the transaction that writes them | events tell the truth about owners; one decision per contribution |
| Credit ledger (`CreditLedgerFacet`, `RegistrationCreditFacet`) | `CreditLedgerEntry`, append-only | reserve, consume, release, grant, adjust, revoke, purchase | balance summed and entry written by two statements | never overdrawn; once per key |
| Tenant users (`TenantUserFacet`) | `TenantUser`, memberships, profile assets | upsert, update, status, registration with compensation | stale copies written back, four rows that say one thing | no free dependent; documents are unique; profiles are current |
| User authentication (`TenantUserAuthFacet`, `AdminAuthorizationFacet`) | credentials, sessions | register, login, logout, administrators' check | suspension while requests are under way | a suspended administrator stays out |
| Receivables (`ReceivablesProviderFacet`) | `PurchaseOrder`, `PaymentEvent` | intents, webhooks | redelivered and unordered events | an order is credited once |
| Circuit breaker (`CircuitBreakerService`) | the contract's flag, `chainStates` in memory, `PanicLog` | pause, resume, pause all | toggle instead of set, one chain failing, restarts | paused until resumed |
| Watchdog (`SecurityWatchdogService`) | anomaly history in memory | `checkAnomalies`, `triggerPanic` | runs beside administrators | panics when it should |
| Scheduler (`SchedulerService`) | one flag per job and process | cron jobs | jobs of two processes | keeps the jobs of one process apart |
| EVM contract (`TransferFacet.sol`), Soroban and Solana contracts | escrows, pause flag, transfers | create, release, cancel, toggle | reached through adapters that may lose answers | an escrow closes once |
| Chain adapters (`multi-chain/`) | the account's sequence numbers, `ChainTransaction` | anchor, escrow calls, transfers | one account for all calls; mined but not acknowledged | what is reported has happened |
| Blockchain observer, wallets | `Deposit`, `UserWallet`, last scanned block in memory | scanning, confirmation, deposit addresses | several servers, restarts, reorganisations | no deposit missed, none counted twice or too early |
| QTag fulfillment, commissioning (`QTagFulfillmentFacet`, `CommissioningFacet`) | `QTagLedgerEntry`, `QTagFulfillmentOrder`, `EncodingSession`, `Device`, `Asset.deviceId` | grant, reserve, release, transition; start and confirm a session | confirmation in five statements, repeated or late confirmations, stale statuses | activation is never half done; tags are true; one order per asset |
| API keys, rate limiter, idempotency guard | `ApiKey`, `RateLimitCounter`; marks in memory | create, rotate, revoke, authenticate, count, mark | reads in two statements, parallel requests, restarts | dead keys open nothing; limits hold; one run per key |
| Tenants (`TenantManagementFacet`, `AdminTenantOperationsFacet`) | `Tenant`, commercial profiles | create, deactivate, reactivate, transitions, plan, profile | a sweep of keys beside calls that make them | closed tenants stay out |
| Devices, NFC and SDM tags | `Device.lastCounter`, tap logs | register, validate | replay, parallel taps | no reading is accepted twice |
| Backfill (`TenantQuantumBackfillFacet`) | runs, checkpoints, records | `run` | resumed, repeated, overlapping, killed | everything moves once, together |
| Agents, recycling, documents, context | their rows | CRUD | few | - |
| Cryptography, routes, controllers, facet registry | none | pure or dispatch | - | - |

### Interactions

* A request passes `requireApiKey`, `requireIdempotency` and `tenantRateLimiter`
  before its handler, each with statements of its own; `/v1/diamond` passes only the
  first. Handlers of other requests change keys and tenants meanwhile.
* A facet that writes an event writes the row and starts `processQueue` without
  awaiting it. Cron starts it too. `processQueue` calls an adapter, updates the
  event, and on failure creates a `PendingTransaction` for the retry worker, which
  cron starts. Both tell the tenant's webhook.
* `lock`, `release` and `cancel` read the asset and the escrow, call the adapter,
  then update escrow, asset and event log. The release worker calls
  `EscrowFacet.release` for escrows in AUTO mode. Other facets write
  `Asset.status` too.
* Every adapter signs for the one account of the platform; API calls, the queue and
  the retry worker each make adapters of their own, so that their transactions
  compete for sequence numbers.
* A dependent's registration is reserve, create, consume, with release and archive
  as compensation. Payment webhooks append purchases to the same ledger.
* A transfer makes its asset AWAITING_PAYMENT and asks the provider for a
  preference; the provider's notice is put into `WebhookInbox`, from which a batch
  activates the asset.
* The watchdog and administrators call the circuit breaker, which toggles the
  contracts on EVM chains.
* Administrators reserve QTAGs for assets; an encoding station starts a session for
  an order and confirms it, which links the chip's device to the asset, consumes the
  reservation and activates the order.
* Every server runs an observer, which writes the `Deposit` rows that balances sum.
* Shared state is the database, the chains, and nothing in memory: the flags of the
  scheduler, the breaker's map, the observer's last block and the guard's marks are
  one per process.

## 2. Modules

| Module | Models | Extends or uses |
|---|---|---|
| `AnchorPipeline` | event log, queue and retry worker together | |
| `AnchorLedger` | abstract: what anchoring promises | refined by `AnchorPipeline` |
| `AnchorPipelineProofs` | theorems about `AnchorPipeline` | `AnchorPipeline` |
| `EscrowCustody` | escrow, release worker, asset statuses, the chain's escrow | |
| `EscrowCustodyProofs` | theorems about `EscrowCustody` | `EscrowCustody` |
| `CreditLedger` | ledger, registrations, administrators, payment webhooks | |
| `CreditLedgerProofs` | theorems about `CreditLedger` | `CreditLedger` |
| `CreditAccount` | abstract: accounts that are never overdrawn | refined by `CreditLedger` |
| `CircuitBreaker` | breaker, watchdog, pause flags, panic log | |
| `QTagFulfillment` | orders and ledger of QTAGs, encoding sessions, devices | |
| `QTagFulfillmentProofs` | theorems about `QTagFulfillment` | `QTagFulfillment` |
| `RequestAccess` | API keys, tenants' states, authentication, idempotency, rate limits | |
| `RequestAccessProofs` | theorems about `RequestAccess` | `RequestAccess` |
| `Identity` | users, memberships, profile assets, sessions, commercial profiles | |
| `IdentityProofs` | theorems about `Identity` | `Identity` |
| `AssetRecords` | owners, contributions, transfers and payments, tags' counters | |
| `AssetRecordsProofs` | theorems about `AssetRecords` | `AssetRecords` |
| `Deposits` | deposit addresses, the observers and an EVM chain | |
| `Backfill` | the migration of the dashboard's users | |
| `ChainAdapters` | the five adapters, the account and the ledger behind it | |
| `PlatformJobs` | `Deposits`, `Backfill`, `ChainAdapters` and `CircuitBreaker` side by side | extends the first, instantiates the others |
| `PlatformJobsProofs` | theorems about the four | `PlatformJobs` |
| `MC*` | model values, symmetry and small instances of each | the module named |

Definitions whose name ends in `_Something`, like `Write_NoIndex`, are not part of any specification: they are the plausible bugs that the properties
were tried against.

### AnchorPipeline

A row of `EventLog` is spread over `status`, `hashed` (has a signatureHash) and
`dltTxId`, an integer that is `Null`, one of the two markers, or the number of a
transaction in `chain`. `row` is the `PendingTransaction` table. Runs of
`processQueue` have `qpc`, `qbatch` and `qcur`; runs of `processRetries` have
`rpc`, `rtodo` and `rcur`, whose copies are as old as the query that fetched them.

| Actions | Code |
|---|---|
| `RecordAuthenticatedEvent`, `SuggestPublicEvent`, `ReviewEvent`, `RecordUnhashedEvent`, `Commission` | the writers of `EventLog` |
| `QSelect`, `QClaim` | `SELECT ... FOR UPDATE SKIP LOCKED` and the claim that commits |
| `QAnchor`, `QRecord`, `QRecordFails` | the adapter's call with each outcome, the update and its failure |
| `QReturn`, `QEnqueue`, `QMark` | insufficient funds; the retry row; the marker that is written only over `PROCESSING` |
| `QAbort`, `RAbort` | the run dies, or something outside its `try` throws |
| `RFetch`, `RLock`, `RExec`, `RSettle`, `RSettleFails`, `RHandleFailure` | `processRetries` and what it calls |

An outcome is `ok`, `lost` (it happened, the caller saw an error), `error`,
`funds`, `critical` or `refused`. Messages, signatures, back-off times and
payloads are abstracted; a row's back-off has always expired, since any delay is
possible.

### EscrowCustody

`asset`, `rec` and `chain` are the three places. A handler's `pc` is the await at
which it stands: `chain`, `record`, `asset`, `event` for API calls, and `next`,
`read`, `revert` for the worker's loop. `job` is what it carries from its read to
its writes, which is where staleness comes from. Escrow ids are their unlock
times, so `now` is enough of a clock. `Chain` is the contract's answer: a second
close is refused; and SOLANA's adapter, which does not look at the error that
`confirmTransaction` returns, may report as done what failed (outcome `unseen`).
Three variables are history: `broken` remembers escrows whose handling a failure cut
short after the chain had acted, `unseen` those of which such a failure was taken for
done, and `byHand` the assets whose status LOCKED_IN_ESCROW came with a body:
`createAsset` (`Initial`) and `updateAsset` (`Edits`) write any status that the
request names.

### CreditLedger

`ledger` counts the rows of each possible entry, which carries its idempotency key
and its two deltas. Balances are sums over the entries in scope, as in
`getBalanceProjection`; without a user the scope is the whole tenant. A call is cut
into `Find` (the key), `Check` (the balance), `Insert` (the unique index decides),
and for a dependent `Upsert` and `Archive`. Which call comes next, and the
compensation, are in `Returned` and `Failed`. `person[r]` is the set of ACTIVE rows
that registration `r` has made: one that `findTenantUser` finds again has one row, and a
`Nameless` one, without id, document or e-mail (or with others under the same explicit
key), a new one each time. Two histories follow overlap: `stale` are the calls whose
check another call's entry has outdated (`Outdates`), `late` the entries they wrote.

### CircuitBreaker

`paused` is `TransferFacet`'s flag, which can only be flipped; `local` is each
process's `chainStates`; `logged` the unresolved `PanicLog` rows. A call reads,
toggles, notes and logs, and a panic does so for one chain after another, catching
what each throws. `Restart` loses a server's map and its calls, whose toggles may
or may not have been sent. A toggle whose receipt never came (`Throw`) or whose caller
died (`Restart`) is kept in `sent` and mined by `Mine` at any later time, or never.
Anomalies are an input of `CheckAnomalies`; only the rule that turns them into a panic
is modelled. Signatures are taken as verified. Three histories follow the claims:
`told` has the chains that a call reported paused, `held` those of them of which no
other toggle was due or under way (`Contended`) while the call worked, and `missed`
has what a call may not claim.

### QTagFulfillment

`ledger` holds the entries by idempotency key (every entry but a grant has one),
`order`, `session`, `device` and `tag` are the rows; `device` says whose session's
keys a chip's device has, and `tag` is `Asset.deviceId`. A call's `pc` is the
statement it comes to next: `find` (key and active orders), `balance`, `write` for
the ledger; `move`, `start`, `encoding` for orders and sessions; `report`, `device`,
`link`, `find` to `write`, `activate` for a confirmed success, and `failed` for a
reported failure. What a transaction writes is one step, `Commit`, which the unique
index may refuse; `start` and `confirm` have no transaction, so each of their writes
is a step, and `Die` may end any call between two. Where looking for a key and being
refused by the index end alike, the lookup is part of the next step. `reported`
and `forced` are history: what stations reported, and what administrators activated
by hand.

### RequestAccess

`tenant`, `keys` and `count` are the rows; `seen` is each server's store of
idempotency keys. A request's `pc` is the await at which it stands: `keys` and
`tenant` (the two queries of `validateApiKey`), `idem`, `plan`, `count` and
`handle`, and in the handlers `create`, `revoke` and `rotate`, which follow a read.
What a request has read of its key it carries in `from`. The two counters are
upserted side by side, in either order, and the decision uses the values that the
upserts returned. A request for one of a tenant's own operations gets its operation
when the handler runs. `Restart` empties a server's store and drops its requests;
`FailOpen` is the limiter's `catch`. `gone`, `passed` and `ran` are history, and so
are `dead` and `shut` of a request: whether its key was gone when it was sent, and
whether its tenant has been closed ever since.

### Identity

`user`, `member` and `shown` are the four rows that tell of one user (the profile
asset's metadata is a copy of the row). An operation reads outside its transaction
or before its first write, then writes: two steps, since from the first write on the
row's lock keeps other writers out. `Upserting` covers upserts, registrations of
members and dependents, and their compensation; `Editing` updates and status
changes; `Entering` register, login and the administrators' check, which reads the
session, the user and the membership one after another; `Firms` the rows of tenants
(`tenant`), their commercial profiles, and what is shown of both. `updateCommercialProfile`
updates the tenant and holds its row's lock (`Locked`), or reads it without one, and
then writes the profile, the asset, whose metadata have the row and the profile, and the
event; the other changes of the row (`MoveTenant`: `transitionTenant` and the older
routes) refresh neither, and are remembered in `moved` until the row is read again for
what is shown; a call that read the row before it changed carries `late`. `Platform` is `ensureTenantQuantum`, which runs before most of them.

### AssetRecords

`CreateAsset` takes the status and the owners' labels from the request, as
`AssetController.create` does; `UpdateAsset` is also whoever else writes the status
without looking at the rest (life cycle and escrow, which `EscrowCustody` models).
Each call carries in `arg` what it has read and in `holds` the rows whose contents
it relies on. Two calls that hold one row at once, or one that is cut short, put it
into `disturbed`; what the code promises only for calls apart is stated for
undisturbed rows, everything else without the exception. Reviewers are not excepted:
`decided` and `late` count the decisions made of a contribution and those made by a
reviewer who had not seen the one before. `byHand` counts how often a request set
AWAITING_PAYMENT, `acted` what each notice confirmed. `Throw` ends a call whose
statement failed, with what its `catch` does (a notice becomes FAILED); `Die` ends
it without. `HandleMercadoPago` is both routes of a payment notice, `ClaimNotices`
the update with SKIP LOCKED.

### Deposits

`head` and `mined` are the chain, which grows and may replace its last `MaxReorg`
blocks; `scan` is each server's observer. `Begin`, `ReadWallets`, `Query`,
`UpsertDeposit` and `NoteScanned` are the awaits of `scanEVM`, `ReadReceipt` and
`Confirm` those of `checkConfirmationsForChain`. An address is the index it is
derived from, since `deriveAddress` does not use the tenant. Assumed: fewer blocks
appear between a receipt and the height read next than the confirmations required
exceed the deepest reorganisation.

### Backfill

A call of `run` goes through its list in batches: `OpenBatch`, for each user
`SkipUser` or `FindUser`, `UpsertUser`, `ReadKeys` and `Migrate`, then `CloseBatch`
and `Finish`. The transaction of a user is two steps, what it reads (`ReadKeys`) and
its commit, where unique keys decide. `Fail` throws at any statement, after which
`RecordError` or `Abandon` write what the code's `catch` blocks write, and `Kill`
stops the script. A conflict (two users of a list with one document) is found by
`run` before it begins.

### ChainAdapters

Each method is a sequence of its awaits and checks, such as `EthRelease`, and one
action per kind of step carries out whichever call is at such a step. A transaction
has the sequence number it was signed with: only one per number is mined, in order,
and one of a number already used never. What the contract holds is `escrow`, and
what it may draw of tokens `allowed`. `rows` is `ChainTransaction`, whose insert may
fail unnoticed. Not waiting, as on Algorand, or ignoring the outcome, as on Solana,
are steps that the sequences lack.

`PlatformJobs` holds the last three and `CircuitBreaker`, with the names of their
properties. They share no table: a behaviour of `MCPlatformJobs` is one of them at
work (`Parts` says which it may be), so that a run's states are the sum of theirs.
`jobs_safety` takes all four, `breaker_claim` the breaker alone. `Hosts` and `MaxBreaks`
are the breaker's servers and bound on failures.

## 3. Runs

| Run | Instance | Shows |
|---|---|---|
| `anchor_safety` | 2 events, 2 rows, 2+2 runs, any 2 failures | claims are exclusive, only approved events reach a chain, records are true, markers are somebody's work, outcomes are final, the pipeline implements `AnchorLedger` |
| `anchor_liveness` | 2 events, batches of 1, 1+1 runs, any 2 failures, one STELLAR event | every claimable event is anchored, or its run died |
| `escrow_safety` | 2 assets, 2 escrows (on SOLANA and ALGORAND), 2 clients and the worker, 1 failure, statuses written by hand | closed rows are true, custody is backed, unfinished work is held |
| `escrow_serial` | 2 assets, 3 escrows, one of them on ALGORAND, one handler at a time, all six client operations | the three places agree when all is quiet; due AUTO escrows are released |
| `escrow_terminal` (a violation) | 1 asset, 2 clients, transitions that overlap | ARCHIVED and BURNED are not terminal |
| `credit_calls` | 1 user, 2 registrations (one nameless, up to 2 rows), 1 revocation, 1 payment event, 2 calls whose checks and inserts overlap, 1 failure | once per key, settled only if reserved, active only if paid; users are solvent and the ledger implements `CreditAccount`, but for entries whose check was outdated |
| `breaker_claim` (a violation) | the breaker of `jobs_safety`, no failures | a chain reported paused does not stay paused |
| `qtag_safety` | 2 assets, 2 orders, 2 sessions, 1 chip, 1 QTAG, 2 calls that may stop anywhere | reservations and orders agree, activation is complete, tags are true, one order per asset |
| `access_safety` | 2 tenants, 3 keys, 3 requests, 2 at a time, 2 minutes, 1 restart or failing limiter | dead keys open nothing, limits hold, one run per idempotency key |
| `identity_safety` | 2 users, 2 names, 1 document, 2 tenants, 3 calls, 2 at a time | documents are unique, suspensions hold, what is shown is current, but for the row of a tenant that was moved |
| `assets_safety` | 1 asset, 2 owners, 1 contribution, 2 tags, 1 payment with 2 notices, 4 calls, 2 at a time, 1 failure | events about owners are true, one event per contribution but for reviewers overtaken, no reading twice, transfers add up, a notice acts once |
| `jobs_safety` | deposits: 2 tenants, 2 servers, 1 transaction of 2 coins, 4 blocks, 1 fault; backfill: 3 users, 3 owner rows, 2 runs, 2 calls, 1 fault; adapters: 5 ledgers, 1 escrow, 2 calls; breaker: 2 chains, 1 of them EVM, 2 calls that may overlap, any 2 failures, toggles mined late | balances are funded and nothing is missed; everything moves together and a completed run is complete; what adapters report has happened, and one settlement per escrow; a pause holds until it is resumed, restarts included, unless another toggle was due or under way, and a panic reaches every such chain |

### Bounds, and why they are enough

Every bound is a constant with a comment: `MaxFaults`, `MaxActive`, `MaxCalls`, the
sets of runs, events, rows, calls. The races here are between two runs over one row, so two
of each make them happen; a second event or escrow lets a run hold one thing while
it works on another, and makes a `LIMIT` of one bite. Two failures are needed for
the histories that matter most: an answer that is lost, then a failure of the
update or the death of the run that could have repaired it. `MaxAttempts = 2`
separates a retry from giving up. Three escrows in the serial run let a worker's
batch of two leave one over. No escrow is on SOLANA there: one whose lock failed unseen is
refused for ever after, like the one on ALGORAND. In `credit_calls` the bonus pays for two
registrations, so that both succeeding and one failing are reached. In `qtag_safety`
one QTAG makes reservations compete, and one chip makes two sessions collide;
administrators set only READY_FOR_ENCODING, which reopens what was cancelled or
failed (the module allows any status, ACTIVATED among them), and choose no keys of
their own (`Keys`): with them an asset may have several orders.

In `access_safety` limits of one and two per minute and two per day bind within
three requests, the second minute opens a new window, and finds the keys expired that the first one
made to expire at once; the
second tenant is the one that is founded, drafted or closed by the first one's
administrator or the platform. In `identity_safety` two users compete for a document
and for a name, the third call follows what two overlapping ones left. In
`assets_safety` four calls are a grant, an acceptance, a revocation and one more, or
two transfers and two batches of notices; of the statuses only ACTIVE, AWAITING_PAYMENT and
BURNED are ever looked at, and LOCKED_IN_ESCROW stands for the others. In `jobs_safety` one transaction with two
coins meets the unique `txHash`, four blocks are two more than the depth required,
the second server repeats what the first one does; two of the dashboard's users
share an e-mail and two a document, and lists of three and two with batches of two
make the second batch a short one, whose key differs; every escrow of the adapters
may exist from the start, so that two calls are enough to settle it twice. Larger
instances of backfill and adapters (3 calls each, 2.0 and 1.8 million states) were checked
by themselves with the same result.
What these bounds leave open, the proofs close for the properties listed in
section 5, whose constants are arbitrary.

Symmetry is used where a set's members are alike (runs, calls, servers), never in a run that
checks liveness. `CHECK_DEADLOCK FALSE` stands where the system may stop: in every
run the bounded calls, events and escrows may be used up.

### Fairness

`anchor_liveness` and `escrow_serial` assume weak fairness of the steps of each
run (`QStep`, `RStep`, `Proceed`, `Run`): cron starts each worker again and again
(`SchedulerService.ts`), and a started run awaits statements that return or throw.
In `escrow_serial` one handler is at work at a time, so that a worker may find the
system busy whenever its turn comes; there its start is strongly fair (`SerialSpec`): between two
clients' calls cron's turn comes sooner or later.
It is not assumed that a failure happens, nor that it does not: failures are
bounded in number, so that eventually they stop. A client's call that has begun
is awaited to its end; that clients begin calls, that reviewers review and that the
clock moves is not assumed. Deaths are excepted in `EventuallyAnchored`, since no code
resets a `PROCESSING` marker. `EventuallyReleased` assumes that fewer escrows
are stuck than the batch holds (one in a batch of two): ten stuck ones starve the
rest, because the batch is the ten oldest ACTIVE escrows and failed ones return to
it.

## 4. Met while reading

`escrow_terminal` and `breaker_claim` expect violations: the counterexamples of
`TerminalStays` and of `ReportedStaysPaused`, for the first two items below. The rest was seen while modelling:
places where a comment or a message says more than the code does, and histories
that the models allow and the properties except.

* 'ARCHIVED e BURNED são estados TERMINAIS' (`LifecycleFacet.ts:18`), but `transition`
  reads and checks the status and then updates the row by its id: of two overlapping
  transitions of an ACTIVE asset, the one that read before the other archived it may
  write SUSPENDED afterwards, from where ACTIVE is one call away. Locks, payments and
  releases write over a status in the same way, and one `asset.update`
  (`AssetRegistryFacet.ts:235-246`) takes an asset out of ARCHIVED without any overlap.
* A paused chain should stay paused until resumed
  (`circuitBreakerRoutes.ts:85-86`), but pausing is read, then toggle: two overlapping
  pauses both report PAUSED and leave the chain active (`breaker_claim`). So does a
  toggle whose receipt was lost (`CircuitBreakerService.ts:217-218`, `259-260`) and that
  is mined after a later call has read the flag. `PauseHolds` says that nothing else
  undoes a pause.
* `createAsset` and `updateAsset` accept the status LOCKED_IN_ESCROW from the body:
  such custody has no escrow behind it (`byHand` in `CustodyIsBacked`).
* A lock, release or cancellation that failed on SOLANA is reported as done and the
  row is written accordingly (`unseen` in `ClosedRowIsTrue` and `CustodyIsBacked`).
* `AnchorQueueService.ts:16-17` promises no double-processing, but
  an event marked `RETRY_QUEUED` is claimable by the queue while its row is with the
  retry worker, so it may be anchored twice.
* 'Available credits cannot become negative.'
  (`CreditLedgerFacet.ts:140`), but the check and the insert are not atomic: of two
  calls that have both seen the last credit each takes it. `Solvent` and `AccountSpec`
  except the entries written so (`late`), and nothing else.
* A registration repeated under its key returns the entries it finds, but upserts
  again: without id, document and e-mail `findTenantUser` (`TenantUserFacet.ts:948-993`)
  finds nobody, and one credit makes several ACTIVE dependents. So does an explicit
  `idempotencyKey` sent with the data of somebody else. `ActiveIsPaid` asks of each row
  that the registration's credit was spent, not that it has one of its own.
* The payload of a retry has no tenantId, which `SorobanAdapter` demands: a STELLAR
  event's row is refused until it is dead-lettered (the queue still anchors it).
* Commissioning writes its event as PENDING, which the queue never selects.
* An event that once lacked funds keeps status PENDING_FUNDS after it is anchored,
  though the webhook announces APPROVED.
* A retry run whose lock throws ("Atomic lock", `RetryWorker.ts:77`), or whose settlement
  commits without an answer, still calls `handleFailure` (`:131-135`), which writes
  FAILED or DLQ by the row's id from the copy it fetched: a row that another run has
  settled or holds is written over, and may be tried and anchored again. `OutcomeFinal`
  excepts such rows (`blind`).
* Overlapping retry runs count attempts from stale copies, so that a row may be
  tried more often than `maxAttempts` (never counted more often than tried).
* The mark "to prevent double-release" (`EscrowReleaseWorker.ts:29`) is unconditional.
  The scheduler's flag keeps the runs of one process apart, not those of two: both
  may call the chain, which refuses the second.
* A release whose answer was lost is reverted to ACTIVE and refused by the chain
  from then on.
* A registration retried after its reservation was released consumes another one's.
* Of two identical registrations at once the loser archives the winner's dependent.
* Two confirming events of one order (say CONFIRMED, then PAID) credit it twice.
* Revocation for a tenant as a whole is covered by its users' credits.
* The watchdog escalates "more than two" critical anomalies, but there are only two
  kinds, so that only a failure rate ever causes a panic (`Escalates`).
* Nothing calls `isChainPaused`, so pausing a chain without a contract stops nothing;
  the `ALL` row of a panic is not resolved by resuming any of the chains.
* 'Activated QTAGs cannot be released silently.' (`QTagFulfillmentFacet.ts:321`), but an
  order that is released while it is being encoded, or after a late report of
  failure, is consumed all the same: the QTAG is both released and consumed.
* A failure reported after a success moves an ACTIVATED order to ENCODING_FAILED.
* A reservation's default key belongs to the asset: once its order is cancelled,
  reserving again answers with the cancelled order, as if it were a repetition.
* A transition to CANCELLED or EXPIRED leaves the reservation in the ledger.
* Nothing calls `purchaseConfirmed`, so that QTAGs are granted, never bought.
* `DeviceGuardFacet` and commissioning normalise a chip's uid differently (upper and
  lower case), so that one chip may have two devices.
* `EthAdapter`'s ABI gives `createEscrow` five parameters, the contract has six.
* An answer of 429 comes after the idempotency key was marked: the retry is answered
  409, though nothing was done.
* The API's documentation asks for an `Idempotency-Key` where keys are generated and
  rotated (`apiKeyRoutes.ts:31-38`, `254-261`) and tenants created
  (`tenantRoutes.ts:29-36`), "to prevent duplicate" ones; none of these routes calls
  `requireIdempotency`, so that a retry makes a second key. `HandledOnce` is about the
  routes that call it: assets, owners, transfers, devices and agents.
* Reactivating a tenant, says `tenantRoutes.ts:346`, makes its existing active keys
  valid again; but `deactivateTenant` has revoked them all
  (`TenantManagementFacet.ts:219-226`) and `reactivateTenant` restores none.
  `DeadKeysOpenNothing` says what the code does.
* A key that is generated or rotated while its tenant is being deactivated escapes the
  sweep and works once the tenant is reactivated; suspending and archiving sweep no
  keys; two rotations at once leave two successors.
* `updateProfile` and `updateTenantUser` write role, status and guardian from the copy
  they read, so that a suspension in between is undone in the user's row (the
  membership stays SUSPENDED under `updateProfile`).
* `document` has no unique index: two overlapping registrations may share one.
* `lockedUntil` is read and never set, so that ACCOUNT_LOCKED does not happen.
* A process that dies between the credential and the bonus loses the bonus.
* Every `register` and `login` sets the platform's tenant back to ACTIVE.
* Renaming a tenant makes a second profile asset.
* The public part of a tenant's profile asset is its row (`publicDataKeys`,
  `AdminTenantOperationsFacet.ts:96`), and `transitionTenant` (363-409),
  `deactivateTenant`, `reactivateTenant` and `updateTenant` change the row without
  refreshing asset or event: a suspended tenant is shown as active until its profile is
  edited. An edit that reads the row without its lock may show an old row after a newer
  one. `ShownIsCurrent` excepts such rows (`moved`), and only rows: the commercial
  profile is always current.
* 'The counter can ONLY advance' (`schema.prisma`), but `SDMVerifierService` writes it
  unconditionally: two taps at once may set it back.
* 'If process crashes after this write, the event is recoverable'
  (`WebhookController.ts:58`): a notice that was PROCESSING is never taken up again,
  nor is one that FAILED.
* 'Uses prisma.$transaction to atomically update inbox and asset state'
  (`BillingFacet.ts:111`): they are separate statements. The
  histories of `AssetRecords` include a notice that FAILED although its payment was
  confirmed.
* A repeated notice of an old payment activates a later transfer of the same asset, which
  nobody has paid for: the code keeps no link from a payment to a transfer.
  `TransfersAddUp` therefore compares confirmations with transfers, not with payments. A
  preference that fails leaves the asset AWAITING_PAYMENT without a link.
* `DeviceRegistryFacet.registerDevice` is called with (context, payload) only, so that it
  always throws; recycling's event names an asset that does not exist.
* Deposit addresses depend on the chain and the index, not on the tenant: every tenant's
  first address is the same, and the observer credits the tenant whose row it read
  last.
* `txHash` is unique: the second transfer of a transaction is not recorded. An observer
  that was down for more than 100 blocks, or lags by more than 500, skips blocks, and a
  transfer that a reorganisation moves into a scanned block is missed.
* `checkConfirmations` (`BlockchainObserverService.ts:133`) says that the scheduler calls
  it; only tests do.
* Rows of `ChainTransaction` are written for a tenant 'SYSTEM' that nothing in `src/`
  creates; the failure is swallowed.
* `SolanaAdapter` ignores the error in a confirmation, so that a failed transaction is
  CONFIRMED; `AlgorandAdapter` waits for nothing, pays the receiver when the escrow is
  created, and refuses release and cancel.
* `SorobanAdapter` gives up polling while the transaction may still be mined.
* Two token escrows at once spoil each other's allowance.
* A later call of the backfill overwrites MIGRATED by SKIPPED or ERROR; two calls of one run
  at once may leave it COMPLETED with an ERROR record; an upsert sets roles and statuses back.
* Soroban's escrow moves no tokens, though its comments say so
  (`contracts/soroban/payment/src/lib.rs:139`, `:196`, `:229`); Solana's `toggle_pause`
  takes any signer.

## 5. Proofs

TLAPS proves these for every value of the constants that satisfies the modules'
assumptions.

**`AnchorPipelineProofs`.** `TypeCorrect`, `ClaimsAreExclusive` (`ClaimExclusive`),
`OnlyApprovedIsAnchored` (`OnlyApprovedOnChain`), `RecordsAreTrue`
(`AnchoredIsOnChain`). Assumed: events and rows are numbers (their database order),
limits are positive. None of the invariants is inductive alone. Two runs of
`processQueue` stay apart because a held event's `dltTxId` is neither null nor
`RETRY_QUEUED` once the claim is committed (`QueueInv`). Only approved events reach
the chain because every run and every retry row knows its event to be approved, and
no review undoes that (`QueueInv`, `RowInv`, `ChainInv`). A record is true because
the transaction number that a run carries to its update names a transaction for
that event (`QueueInv`, `RetryInv`, `RecordInv`); for the retry worker this needs
that a row keeps its event. That two runs never work on one row (`RetryExclusive`) holds
except for rows on which a run lost a database call (`blind`).

Three more theorems are about what is left when a step fails. `NothingIsLost`
(`NothingLost`) needs a second invariant, `LossInv`: whoever is about to mark an
event RETRY_QUEUED has its row in the table (`MarkInv`), and no row counts more
attempts than were made (`CountInv`). It rests on two lemmas about every step: a row
that was inserted stays and keeps its event (`RowsStay`), and a transaction id that
is recorded is never taken back (`IdsStay`). `OutcomesAreFinal` (`OutcomeFinal`)
follows step by step from the same. `ImplementsLedger` is the refinement: under the
mapping of the module, the initial states of `AnchorPipeline` are those of
`AnchorLedger`, and each action is one of the ledger's or leaves its variables
unchanged; that an anchored event is approved and that a recorded number is one of
the event's own transactions come from `IInv`.

**`EscrowCustodyProofs`.** `TypeCorrect`, `ClosedRowsAreTrue` (`ClosedRowIsTrue`),
`CustodyBacked` (`CustodyIsBacked`), `UnfinishedHeld` (`UnfinishedIsHeld`). Assumed:
escrow ids are positive numbers, clients are not workers. Nothing a handler has
read need still be true when it writes, so the argument is by what never changes
back (`Mono`): an escrow put on the chain stays there, one closed on the chain
stays closed the way it was, a row keeps its asset. `JobInv` says in these terms
what each handler knows at each await, `HeldInv` who will settle a row that is
between two states.

`ClosedRowsAreTrue` and `CustodyBacked` say nothing of escrows in `unseen`, and the
second nothing of assets in `byHand`; otherwise nothing is excluded, overlap, failures
and any status in a body included. What holds only while handlers take turns
(`CustodyIsConsistent`) is model-checked, not proved.

**`CreditLedgerProofs`.** `TypeCorrect`, `KeysAreUnique` (`OncePerKey`),
`SettledIsReserved` (`SettledWasReserved`), `NoFreeDependent` (`ActiveIsPaid`).
Assumed: those of the module; nothing about overlap or amounts is needed. Entries
are only added, so that what a call has once seen in the ledger stays true.
`CallInv` says what it has seen: whoever is about to consume or release has the
reservation in the ledger behind it, and a call holds a dependent exactly from the
upsert to its end. `PurchaseInv` ties purchases to received events, which is why the
webhook's insert, the only one made without looking for its key, never meets a
taken key.

`NeverOverdrawn` (`Solvent`) and the refinement `LedgerKeepsAccounts` (`AccountSpec`)
assume `Finitely` and nothing about overlap: users, registrations, requests
and events are finite sets, without which a balance is no number. The balances are
folds, and what a fold comes to is not assumed: the definition chooses a recursive function,
`SumsExist` shows that there is one, `SumsAgree` that all agree, each by the least size of
a set for which it would fail (`LeastNumber`, from the well-foundedness of `<`).
`SumsChange` is what one more entry does to a sum, `BalancesMove` what it does to each
balance. `FundsInv` says that a user is overdrawn only if `late` has an entry of theirs
that takes that balance, and that an entry about to be inserted is still covered as it
was when it was checked (`CoveredBy`), unless its call is in `stale`: whatever else is
written meanwhile does not take from that balance (`CoveredStays`), or puts the call there
(`Outdates`). For the refinement, an entry inserted is by its kind one of the account's
operations (`EntryOperates`); `CoveredBy` is its guard (`EntryAllowed`), and without it the
entry is a late one.

**`IdentityProofs`.** `TypeCorrect`, `OneOwnerPerDocument` (`DocumentsApart`),
`SuspendedStayOut` (`SuspensionHolds`), `PublicIsTrue` (`ShownIsCurrent`). Assumed: those
of the module, that is, inputs and changes have the fields of a row, and `None` is no
row. A call reads outside its transaction, so that what it carries may be stale when it
writes; `CallInv` says what survives. `Checked`: whoever is about to write a document
has met every user who has it by now, because each write of a document after the check
is by someone whose transaction overlaps, and is entered in `met`. `Stopped`: a call
for a user who was barred before it came is still before the check of the membership,
which only a deliberate change makes ACTIVE again (`BarredInv`), and a call with a session that has ended is
before the check of the session. `Numbered`: a session has the number of the call that
opened it and no other call has it, so that a session is not opened again after its
end. `PeopleInv` and `FirmsInv` tie rows to what is public of them; a call that is about to
announce a tenant carries its row, or knows that it is late (`Aware`).

**`PlatformJobsProofs`, of `CircuitBreaker`.** However calls overlap:
`BreakerTypes`, `PausesHold` (`PauseHolds`, which joins what holds chains with a
contract and what is on record of those without) and `PanicsReachAll`
(`PanicReachesAll`). Assumed (`BreakerChains`, `BreakerBounds`, `BreakerCalls`): chains
are numbered, in the order a panic visits them, and calls are finitely many. A claim
about a chain, by a report (`Holds`), by a call that pauses it (`Aims`) or by a panic
that has it behind (`Reaches`), is a claim that it `Stands`: paused, and nothing about
to change it; of a call that is yet to toggle, that it is the only one (`Sole`). Steps
that change a chain are of something that was about to, so that nothing was claimed;
a call that comes to a chain toggles what was not claimed, or withdraws the claims.
That a panic takes the least chain next uses the well-foundedness of `<`.

**`QTagFulfillmentProofs`.** `TypeCorrect`, `ReservationsAreWhole`
(`ReservedTogether`), `ActivationsAreComplete` (`ActivatedIsComplete`), `TagsStayTrue`
(`TagsAreTrue`), `OneOrderEach` (`OneOrderPerAsset`). Assumed: the key `None` is none
of the ledger's. What a call has read may be stale when it writes, so the argument is
by what only grows (`Grows`): entries are not overwritten, orders and sessions keep
what they are about, a device or a tag that is set is never empty again. `EntryInv`
says which orders and keys an entry may have, `JobInv` what a call has behind it at
each statement; a confirmation, for one, comes to `activate` with its tag linked and
its reservation consumed. An asset has one order unless an administrator chose a key: a reservation's default key
is made of the asset, and an entry that has that key is not written a second time.

**`RequestAccessProofs`.** `TypeCorrect`, `DeadKeysStayDead` (`DeadKeysOpenNothing`),
`HandledAtMostOnce` (`HandledOnce`), `LimitsHold` (`WithinAllowance`). Assumed: there
is a plan, which keeps the default plan meaningful. A key that is gone never works
again (`KeyInv`), and of the rows that a request has read it only uses what was not
live or not open then (`WorthInv`), so that stale reads refuse too much and never too
little. Who is past the idempotency guard holds a mark that nobody else finds missing
(`MarkInv`). The limits are the hard part: requests decide on the value which their own
upsert returned, and they decide in any order. `AllowInv` says of any finite set
of requests that a counter has admitted and that are not through yet: the counter
has counted them besides those let through, so that each had an increment of its own,
and the limit of one of them covers that many. Induction on the set is not needed,
because a step adds or removes one request.

**`AssetRecordsProofs`.** `TypeCorrect`, `OwnersToldTruly` (`OwnersAreTold`),
`ReviewedAtMostOnce` (`ReviewedOnce`), `CountersOnlyOnce` (`CounterOnce`),
`TransfersBalance` (`TransfersAddUp`), `NoticesActedOnce` (`NoticesActOnce`). Assumed:
those of the module, which let requests set any status. `CallInv` says
that a call holds each row it relies on, and that of two calls holding one row the
second has put it into `disturbed`. So of a row that is not disturbed nobody else has
written since it was read, and what its reader knows is still true: `Owning`, `Reviewing`,
`Tapping` and `Paying` say what that is, for one owner, contribution, tag or asset.
`validateAndRecordTap` needs none of this, since it looks at the counter in its UPDATE.
`Stage` is the balance of an asset's books at each statement of a transfer and of a
payment; a status set by hand adds a transfer that is due. `Reviewing` needs no such
exception: a reviewer who has seen all decisions made of a contribution knows that it
waits still, and any other is late. `Claimed` and `Noticing` say that batches are
disjoint, and that what is left of one is marked and has confirmed nothing.

**`PlatformJobsProofs`, of `Deposits`.** `BalancesFunded` (`BalancesAreFunded`) and `NoDepositMissed`
(`NothingMissed`). Assumed (`DepositsAssumption`): a transaction transfers some coin,
reorganisations reach no deeper than confirmations do (`MaxReorg <= Required`), and
in `Mine` that few blocks appear between two readings. A scan's list of wallets, its
events and its receipt may all be out of date when they are used. What saves it is
that wallets stay, that a transaction pays what it pays, and that one which leaves
its block was shallow. `DepthInv` keeps that in mind between the receipt and the
height; `BookInv` says that a scan knows all addresses that were paid in its range,
because they are read after the height; `ScanInv` says which events are recorded already.

**`PlatformJobsProofs`, of `ChainAdapters`.** `ReportsAreTrue` (`ConfirmedIsMined`) and
`SettledAsReported` (`OneSettlement`), with no assumption. `Reporting` says of a call that its wait is still before it, with nothing said before and
nothing submitted after, or that its transaction took; lemma `Methods` shows that
every method of the ledgers that wait begins so, and `Tails` that a step keeps it.
`SettledOnce` says that a mined settlement is the only one of its escrow, which the
contract holds as settled that way: a second one is mined only as a failure.

**`PlatformJobsProofs`, of `Backfill`.** `GoodsMoveTogether` (`MovedTogether`) and
`CompletedRunsAreDone` (`CompletedIsMigrated`). Assumed (`BackfillAssumption`, which is `Migratable`): ids of tenant users are no ids, e-mails or
documents of the dashboard's users, and a list is of those users, no longer than
there are. `MoveInv` is that a call about to commit found both keys of its user in
use, and then they still are, or neither, and then the unique keys refuse it if
another call was faster. `WorkInv` follows a call that is alone with its run
(`Alone`: what `shared` remembers is enough for that) through its list: `Migrated` up
to the user it is at, `Checked` up to the batch it is at, `Place` for the two to
meet the batches' ends, which needs a little arithmetic (`OnlyFirst`).

Not proved, and only model-checked: liveness (`EventuallyAnchored`,
`EventuallyReleased`: weak fairness and ENABLED are out of the prover's reach) and
`CustodyIsConsistent`, which is about handlers that take turns. Every other property
that a passing run checks is a theorem.

## 6. Plan

Done, in this order: the anchoring pipeline, its ledger and proofs; escrow custody
and proofs; the credit ledger, its account and proofs; the circuit breaker and
proofs; QTAG fulfillment with commissioning; request access; identity; asset
records; deposits, backfill and adapters.

Every safety property that a run checks is proved, except `CustodyIsConsistent`. The `TypeOK` of the modules are
stated for their proofs; no run lists them, since they say little by themselves (TLC
found them to hold in the instances above).

Next models: the funds and fees of the three contracts, of which `EscrowCustody`'s
`Chain` and `ChainAdapters`' `escrow` should be shown to be abstractions; the
receivables' intents.

## 7. Not modelled

The components listed as not modelled in `PROJECT.json` are left out for
good, the contracts excepted: cryptography and encodings are pure functions over bytes; most routes, controllers
and the facet registry validate and dispatch; agents, recycling, documents and
context are single-statement handlers. Within
modelled components, these are left out: prices, fees and amounts
on chains, message texts, audit rows, back-off durations, custom scopes of keys,
searches and statistics, outgoing transfers, Algorand's scan (it records nothing) and
the calls of `AlgorandAdapter` that nothing makes. `Identity` models the users of one
tenant, the platform's; `EscrowCustody`, `CreditLedger`, `QTagFulfillment` and
`AssetRecords` the rows of one tenant.
