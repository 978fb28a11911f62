# VaultKey in TLA+

VaultKey is a custodial signing service in Go. An HTTP API stores *signing jobs*
in Postgres and pushes their envelopes onto Redis lists; a pool of worker
goroutines takes them, signs (or relays) a transaction, records the outcome and
calls the merchant's webhook. The cloud edition adds organisations, prepaid
credits, payments and a monthly free grant. Any number of instances of the same
binary, API and workers together, may run against one Postgres and one Redis.

The specifications here model the parts whose correctness depends on the order
of steps of several actors, or on what survives a crash or a failed call. TLC
checks them on small instances; TLAPS proves their safety properties for all instances.

## 1. Inventory

| Component | State | Operations | What is hard |
|---|---|---|---|
| Job queue (`internal/queue`) | lists `vaultkey:jobs`, `…:processing`, `vaultkey:dlq` | Enqueue, Dequeue, Acknowledge, MoveToDLQ, Requeue, RecoverStalled | Requeue and RecoverStalled are several commands; LREM removes *an* equal envelope, whosever it is |
| Submission (`handlers.submitJob`, `sweep.TriggerSweep`, `stablecoin.Transfer`) | rows of `signing_jobs` | insert row, then enqueue | crash in between; idempotency keys resubmit a row |
| Worker pool (`internal/worker`) | status, attempts, webhook status of a row; what a goroutine holds in memory | Start, loop, processJob, handleJobFailure, deliverWebhook | the row is read once and used stale; most errors are ignored; several instances |
| Nonces (`internal/nonce`, `relayer.RelayEVM`, `worker.sign`) | Redis counter per account, 24 h TTL; the node's transaction pool | Peek, Next, SyncFromChain, broadcast | draws racing resyncs, failed broadcasts, an expiring counter |
| Credits (`internal/credits`) | `org_credit_balance`, `credit_ledger` | Debit, Credit | row locks, a row that does not exist yet, rollback |
| Free grant (`internal/cron`) | `free_tier_grants` | check, mark, credit | several instances, crash between mark and credit |
| Payments (`payment_handler.go`, `storage/payments.go`) | `stripe_payments`; at Stripe the intents and unacknowledged events | create intent, handle event | duplicated, overlapping and reordered events; a mark that does not follow its credit |
| SDK billing (`sdk_handler.go`), wallet limits | wallet and job counts, ledger rows | debit, forward; caps | debit without refund; count checked before the insert |
| API keys (`api_key_cache.go`, `cloud_handlers.go`), Auth and SDKAuth | `api_keys`, `rate_limit_rps`, their copy in Redis | create, revoke, look up | a slow reader repopulates after the invalidation; fields the lookup does not read |
| Rate limiter (`internal/ratelimit`) | sorted set per project | Allow | a pipeline that is not atomic; fails open |
| Organisations, members, invites (`cloud_handlers.go`, `cloud_store.go`, Clerk's webhook) | `organizations`, `org_members`, `projects`, `invites` | onboard, delete, change role, remove, invite, accept, revoke | every handler checks in one statement and writes in another |
| Relayers (`handlers/relayer.go`, `internal/relayer`) | `relayer_wallets` | register, deactivate, relay | a NULL chain id never conflicts; whose key signs |
| Sweeps, master wallets (`internal/sweep`) | `project_sweep_config`, `wallets.is_master` | provision, configure, trigger | check-then-create, six statements without a transaction |
| Token registry and transfers (`internal/stablecoin`) | `stablecoin_tokens`, Redis entries and list | upsert, disable, resolve, transfer | stale entries; a transfer resolves its token three times |
| Webhook delivery (`internal/webhook`) | none | Deliver with backoff | retries, lost answers |
| Wallets, KMS, configuration, migrations, test client | keys at rest, none | | cryptography, I/O, start-up: not modelled |

Components meet in five places: the handlers and the workers share the job's row
and the queue; the workers and the relayer share the nonce counter; SDK handlers,
the grant job and the payment webhook share an organisation's balance; sweeps,
transfers and provisioning share a project's wallets and relayers; and every
instance starts by recovering the processing list all the others use.

What makes each correct: a job in the queue is processed by one worker at a time
and ends completed or dead; a final row stays final; what the webhook says is
true; an account's nonces are distinct and contiguous; a balance is the sum of its
ledger and never negative; a grant or a payment is credited once; a revoked key
stops working; an organisation has an owner and a chain one master wallet.

## 2. Modules

| Module | Models | Role |
|---|---|---|
| `QueueContract` | `queue.go` as counts of envelopes | what callers rely on; extended by `SigningJobs` |
| `JobQueue` | `queue.go` with ordered lists | implements `QueueContract` |
| `JobQueueProofs` | | the refinement, and the order of the lists |
| `SigningJobs` | submitJob, worker.go, the status updates of store.go, crashes, restarts | core composition: queue, rows, workers, instances |
| `SigningJobsProofs` | | theorems about `SigningJobs` |
| `EVMNonce` | `nonce/manager.go` with its users | one account |
| `EVMNonceProofs` | | theorems about `EVMNonce` |
| `CreditLedger` | what `credits.go` promises | abstract specification |
| `Credits` | Debit and Credit as Postgres transactions | implements `CreditLedger` |
| `CreditsProofs` | | the refinement and its invariants |
| `BillingState` | balances, the purchase flag, the goroutines that use them | extended by the next three |
| `Payments` | `payment_handler.go`, `storage/payments.go`; Stripe external | component |
| `FreeGrant` | `cron.go` | component |
| `SDKBilling` | `sdk_handler.go`, ResolveWalletLimits | component |
| `Billing` | the three together | composition, run `billing` |
| `BillingProofs` | | theorems about `Billing` and its three components |
| `Organisations` (`MCOrganisations`) | `cloud_handlers.go`, `cloud_store.go`, OrgAuthz, Clerk's user.deleted | run `orgs` |
| `OrganisationsProofs` | | theorems about `Organisations` |
| `APIKeys` | keys, their Redis cache, Auth, SDKAuth, `limiter.go` | run `keys` |
| `APIKeysProofs` | | theorems about `APIKeys` |
| `FundsState` | a project's wallets, its sweep and transfer jobs, requests | extended by the next three |
| `Relayers` | `handlers/relayer.go`, `relayer_wallets`, who signs | component |
| `MasterWallets` | `sweep.go` and its handler and store | component over `Relayers` |
| `TokenTransfers` | `stablecoin/registry.go`, `service.go`, `admin.go` | component over `MasterWallets` |
| `Funds` (`MCFunds`) | the three together | composition, runs `funds`, `sweep_payer` |
| `FundsProofs` | | theorems about `Funds` and its three components |

**QueueContract / JobQueue.** One action per Redis command. `moving[c]` is the
envelope a caller has removed with Requeue's LREM and not yet pushed back;
`scan[i]` (`items[i]`) what RecoverStalled has read with LRANGE and not handled.
The contract forgets the order of the lists, because nothing in the workers
depends on it, and so makes `SigningJobs` independent of the order `NewestFirst`
is about. `arrival` is a history beside the main list: which push brought each of its
envelopes. Two envelopes of one job are taken to be equal strings. The branch
of Dequeue that dead-letters an envelope that is not JSON is left out: only
Enqueue writes the list.

**SigningJobs.** `status`, `attempts`, `webhookStatus` are columns; `held`,
`seen`, `outcome` the variables `qJob`, `dbJob`, `signingErr` of `processJob`, and
`pc` the database or Redis call it makes next. Each call is one action, so every
other actor may step, and the process die, between any two. `Submit` stands for
the three places that insert a row and enqueue it. `Sign` is the whole of
`worker.sign` with the relayer below it, as an outcome: signed; error; or, with
`LostReplies`, sent although the answer is an error. A crash wipes the instance's
goroutines; a shutdown does the same, as its context cancels every later call and
the workers are not waited for. With `StoreErrors`/`RedisErrors` calls fail, and a
failed call may have been executed: where the code ignores the error that is the
same as success, elsewhere it is a separate disjunct (`TakeLost`, `RequeueJob`,
`RecoverFails`, `MarkJobProcessing`, `SubmitDies`). `dropped` and `unqueued`
record the jobs that lost their envelope in the two windows the code leaves open,
so that `NoJobForgotten` says exactly where "No job is lost" fails. Not modelled:
the audit log and the usage rollup, which are written and not read here, and the
content of payloads.

**EVMNonce.** A task is one run of RelayEVM or of the `sign_tx_evm` branch; they
are the same up to the signature, after which one broadcasts and the other hands
the transaction to the client, who broadcasts it any time (`ClientBroadcast`). A
missing counter is 0 (GET and INCR agree on that). The node is external: it holds
one transaction per nonce and answers with the first nonce it lacks. `base` and
`drawn` are history variables for the properties.

**Credits.** READ COMMITTED is modelled by what a statement sees (committed rows
and the transaction's own insert) and waits for (`holder`). UPDATE, ledger INSERT
and COMMIT become visible together and are one action. Operations of cost 0
return before the transaction and are not a call.

**Billing.** `task[t]` is a goroutine: a webhook delivery, a run of the grant or an
SDK request; its `step` names the statement it makes next. A Debit or Credit is
one step here, which is what `Credits` shows of its transactions. A call that
fails, a process that dies, a card that is declined and an event Stripe repeats
each use one of `MaxFaults`. Stripe keeps an event in `events` until a delivery
answers 2xx and may overlap deliveries (its own retry after a timeout).
`credited`, `granted` and `debited` count the ledger rows by reason; `unmarked` and
`overlapped` record the two holes in the payment's idempotency. Between requests
the modelled handlers stand behind their middleware: as wired today OrgAuthz
rejects CreatePaymentIntent's route and SDKAuth every cloud key (`NoCloudKeyServed`).

**Organisations.** A request is authorised, then runs its statements one by one;
what it read is in `task`. RemoveMember reads the target and, for an owner, counts the
owners in a statement of its own (`CheckTarget`, `CountOwners`). `Abandon` is a failed statement or a cancelled request:
nothing is undone. Names, slugs, e-mail addresses and the seven days of an invite
are left out; an expired invite is one that is never accepted.

**APIKeys.** One cloud project. The limiter's window of one second is two slots of
half a second, so a `Tick` moves it on; the pipeline is two steps, up to ZCARD and
from ZADD, because Redis may run other clients' commands between pipelined ones.
A cache entry is the project as the lookup built it. CreateAPIKey lists the keys and
later inserts; it discards the error of the list, so that a failing list (empty or
cut short) is compared with the cap all the same. `Used` bounds the keys that
requests come with; the others are only created.

**Funds.** A table is a sequence and a row's id its place in it. `Upsert` is
`ON CONFLICT` over a column that is NULL on Solana, where it always inserts.
`sent` records which wallet's key signed a job, in the attempt that succeeds;
retries and queueing are `SigningJobs`. What a node answers (balances, gas) only
decides whether a request goes on. `SubmitSign` is submitJob for the four signing
routes: it takes any wallet of the project, whatever its user, chain or flag; the
payload is the client's. A wallet can be named in a request as soon as its row is
inserted, because `GET /users/_master/wallets` lists it: `Unready` are the master
wallets whose flag is still to be set, and `early` remembers that a request read
`is_master` of one. A registry entry is its chain with a version, a contract with its
decimals; `late` marks a cache entry that was already old when it was written,
`missed` the keys whose value outlived a write because its DEL failed, or because a
Disable dropped nothing. `stirred` are the transfers whose chain's entry was written
between their reads, or that were answered from a value that is late, missed or about
to be dropped (`Excused`); it is per transfer and forgotten with it.

## 3. Runs

| Run | Instance | Shows |
|---|---|---|
| `queue` | 2 jobs, 1 instance of 2 workers, ≤3 envelopes, ≤6 pushes, ≤1 dead letter | the ordered lists implement the contract; what is taken was pushed after what stays |
| `single` | 1 instance, 2 workers, 2 jobs, 1 crash | exclusive processing, nothing forgotten, truthful events, dead letters, recovery (liveness) |
| `faults` | 1 instance, 2 workers, 1 job, 2 crashes, all calls may fail | the inductive invariant; attempts within the retry limit and the crashes, signatures within the attempts |
| `scaled` | 2 instances, 1 job submitted twice | every job ends (liveness) |
| `scale_out` | 2 instances, 1 job submitted once, no fault | **violated**: signed twice |
| `nonce` | 2 tasks, errors, 1 loss of the counter, nonces to 4 | unique between resyncs; the pending nonce never advances |
| `credits` | 1 organisation, 3 concurrent calls, 4 in all, errors | implements the ledger; every call ends (liveness) |
| `billing` | 1 organisation, 1 payment, 2 goroutines, 3 SDK requests, 2 faults | every double credit has one of two causes; rows say succeeded exactly when credited; grants exact up to overlap and interruption; caps overshot by less than the requests in flight; nothing uncharged; what is paid is credited (liveness) |
| `orgs` | 2 organisations, 2 users, 1 invite, 2 requests at a time, 5 in all, 1 fault | the creator stays owner; an invite makes one member; why a user has two organisations and an organisation no project |
| `keys` | 3 keys, 1 of them used, a cap of 1, 2 requests at a time, windows of ≤3, 1 fault | the overshoot of the limiter and of the key cap; no cloud key on SDK routes; a revoked key dies out of the cache (liveness) |
| `funds` | 1 EVM chain and Solana, 2 requests at a time, 3 in all, 1 fault | references between tables; when a master wallet is the source of a sweep or transfer; why a cached entry is stale; when a transfer is built from what was checked |
| `sweep_payer` | same | **violated**: the relayer's key signs an EVM sweep |

*Bounds.* Two workers are enough for two holders of one envelope, and one
instance more for recovery beside a running worker. `MaxRetries = 1` gives both
outcomes of `Retriable`, and `DefaultRetries = 2` differs from it. Crashes:
`single` needs one to leave an envelope behind; `faults` has a second so that
recovery itself is interrupted. Organisations do not interact, so `credits` has
one, with two amounts, so that a balance can cover one and not the other.
`MaxNonce = 4` leaves three draws above `ChainStart = 1`, enough to draw, resync
and draw again; `ChainStart = 1` also leaves room for nonce 0, which an INCR of an
expired counter returns.

`billing`: two goroutines make every race between two of the kinds; two faults let
a delivery fail and its retry overlap a third; `Amounts` are 999, refused, and
1000, a package; `MonthlyCredits` pays for one operation, so that debits run out;
`FreeCap = 1` and `HardCap = 2` are both reached with three requests. `orgs`: five
requests are onboard, invite, accept, remove and accept or change again; a second
organisation for the second onboarding and the project's UNIQUE column. `keys`:
a window of three exceeds the free rate of one and reaches the pro rate of two; with a
cap of one, three keys need both an overlap and a failing list. `queue`: six pushes fill
the list twice.
`funds`: three requests provision twice and sweep, or update a token between two
reads; `Signers` has the signing routes asked for the `_master` wallets, the ones
`MasterNotSender` is about. `StaleExplained`'s case of a Disable that drops nothing
needs a fourth request and was checked on one chain with `MaxRequests = 4`, no fault
and no signing route (3.6 million states).

The bounds `MaxSubmits`, `MaxCrashes`, `MaxEnvelopes`, `MaxDead`, `MaxPushes`,
`MaxNonce`, `MaxExpiries`, `MaxCalls`, `MaxRequests`, `MaxFaults`, `MaxWindow`, `Used`
and `Signers` appear in guards. Requests, and in `orgs` organisations and users, are interchangeable and
reduced by symmetry in the runs without liveness. All runs but `queue` switch
deadlock checking off: once the bounded inputs are used up the system is idle.

*Fairness.* `SigningJobs!FairSpec`: weak fairness of a handler's Enqueue, of
starting and recovering an instance (a supervisor restarts it; Start does not
wait for anything), and of each worker's step (goroutines are scheduled, and a
blocked Dequeue is only enabled when there is an envelope). Nothing is assumed of
signing, which may fail every time: `EveryJobEnds` rests on the retry limit.
`Credits!FairSpec`: strong fairness of a call's statements, since Postgres queues
the waiters of a row lock; with weak fairness a waiter could be overtaken forever.
`Billing!FairSpec`: weak fairness of a goroutine's next statement and of Stripe's
delivery of an event that is not acknowledged, which it repeats for days; faults
are bounded, so some delivery is undisturbed. `APIKeys!FairSpec`: weak fairness of
a request's next step and of an entry's expiry. Nothing is assumed of requests.

*Violations.* `scale_out` refutes `README.md:220` and `ARCHITECTURE.md:126` (exactly
once); `single` and `faults` are therefore about one instance and one submission
per job. `sweep_payer` refutes `worker.go:281`: RelayEVM is given the user's wallet
and signs with the relayer's.

*Divergences the passing properties state.* Each of these properties says what the
code does where a comment says more, and PROJECT.json quotes the comment:
`NewestFirst` (not FIFO), `NoJobForgotten` (a job dropped between LREM and RPUSH),
`PendingNeverAdvances` (the first nonce is skipped), `DoubleCreditExplained` (the
retry is not idempotent, the unique index is missing), `GrantExact` (concurrent
runs grant twice; an interrupted one never), `DoubleOnboardingExplained`,
`ProjectlessExplained` (only one cloud project can be inserted), `NoCloudKeyServed`
(the lookup leaves out cloud_managed), `RevokedDiesOut` and `StaleExplained` (a slow
reader writes back after the DEL), `MasterNotSender` (a wallet listed before its flag
is set, and two master wallets with one flag), `KeysBounded` (the cap passed by
overlapping requests and failing lists), and `Funds!TypeOK` (rows multiply on Solana).

*Other divergences met while modelling*, not given a run of their own:
- a pending or failed row resubmitted under its key is enqueued again and, while its
  first envelope is still in the system, processed twice (`handlers.go:303`);
- a failing MarkJobCompleted leaves the row `processing` without an envelope
  (`worker.go:144-148`);
- `API.md:1489` lists a `dead` webhook status; it is never sent, because
  `worker.go:485` looks at the row as it was before (part of `WebhookTruthful`);
- `README.md:169` and `API.md:1575` say undelivered webhooks go to the dead letter
  queue; `worker.go:512-516` only records them;
- `credits.go:138` says free operations get a ledger entry; line 141 returns first;
- nonces are unique only until the next resync (`nonce_test.go:57` says always);
- lookups that fail (`worker.go:119-129`) requeue without counting an attempt;
- RecoverStalled runs at start-up only (`queue.go:122-123` says periodically), so an
  envelope left by a failing GetSigningJob or MarkJobProcessing waits for a restart;
- Solana token transfers pass every check and then always fail: `service.go:389` never
  fills in the token accounts `relayer.go:313` requires (`buildSolanaMessage` in
  `Relayers`);
- TriggerSweep does not compare the wallet's chain type with the request's; a transfer's
  amount is cut to 64 bits (`service.go:391`); two PATCHes of a sweep configuration
  overwrite each other's field (`handlers/sweep.go:205-215`);
- the hourly wallet limit never fires: it counts ledger rows by a metadata field that
  `debit` does not write (`credits.go:575`, `sdk_handler.go:79-83`; `HourlyUsed`);
- the routes of `main.go:412-415` have no `{org_id}`, so OrgAuthz answers 400;
- a failed MarkOrgPurchased is not retried, because the event is acknowledged
  (`payment_handler.go:284` says it can be);
- Auth lets a cloud key use `/wallets` routes, which debit nothing;
- a deleted organisation's members, invites and keys go on working; user.deleted can
  leave an organisation without an owner (the exception in `OwnerStays`);
- after a purchase the cached project keeps the old rate until it expires;
- the signing routes take a master wallet like any other (`handlers.go:274-301` has no
  look at IsMaster), although `API.md:1333` and `sweep.go:135` refuse it as a sender:
  `MasterNotSender` is about sweeps and transfers only;
- `CLOUD_API.md:472` says revoked invites are listed; the query leaves them out.

## 4. Theorems

Every safety invariant, action property and refinement of the passing runs is
stated by a theorem, for every value of the constants that satisfies the
assumptions named in the modules. Those say: `Concurrency` is at least 1, the other
numbers are naturals (amounts in `Credits`, `MonthlyCredits` and `Cost` positive,
those of `Payments` integers); the names for "nothing" (`NoJob`, `NoCall`, `NoOrg`,
`NoPayment`, `NoKey`, `NoEntry`, `NoChain`, `None`) and `List` are none of the things
they stand beside; an instance is not one of its workers; `ChainStart <= MaxNonce`;
`FreeRate <= ProRate`; `Tasks` (goroutines at a time) is finite and not empty in
`Billing` and `APIKeys`, and `Chains` is finite. None restricts jobs,
instances, requests, crashes or faults; where a theorem is about less than the whole
specification its statement says so in an ASSUME, as listed here.

**Queue** (`JobQueueProofs`).
- **`QueueImplementsContract`**: `Bag` counts the places of a job in a list. What
  RPUSH, LPUSH, BRPOPLPUSH and LREM do to the counts does not need induction over the
  list: putting an envelope in at a place is a bijection between the old places and
  the new ones but one (`PlacesInserted`), and LREM is that read backwards, at the
  least place (`Least`). So what is proved of `SigningJobs`, which extends the
  contract, does not depend on the order of the lists.
- **`QueueNewestFirst`**: `Ordered` says that from left to right the main list is in the
  order of its pushes, because Enqueue, Requeue and RecoverStalled all push on the right
  (`OrderedPush`) and BRPOPLPUSH takes the last (`OrderedPop`).

**Signing jobs** (`SigningJobsProofs`).
- **`TypeCorrect`**: types, with `HeldInv` (a worker outside Dequeue holds a job),
  without which `RequeueRemove` could be applied to nothing.
- **`FaultFreeNoJobForgotten`**, assuming no crash and no failing call, for any
  number of instances and resubmissions. `NoJobForgotten` is not inductive: it
  lets the processing list answer for a job, and with several instances an
  acknowledgement removes another worker's envelope. `CarriedInv` leaves the
  processing list out and is inductive together with `Windows`.
- **`EverySignatureCounted`**, without hypothesis: `PaidInv` adds to the signatures of
  a job the workers that have counted an attempt and not signed yet.
- **`SingleInstance`** and its corollaries **`SingleInstanceExclusive`** and
  **`SingleInstanceFinal`**, assuming one instance and `MaxSubmits = 1`, with any
  crashes and failures. `SingleHolder` alone is not inductive; `SingleInv` adds
  that a job has one envelope (`OneEnvelope`), that a held job's envelope is in
  the processing list (`HeldIsProcessing`), that what is moving is between the two
  commands of Requeue (`Windows`), that recovery runs while no worker does and
  only over what is still there (`QuietRecovery`), and that a worker about to write
  a status has an unfinished row (`WritesUnfinished`), from which `FinalIsFinal`
  follows. `faults` checks the same invariant. The next five rest on it and share
  its hypotheses.
- **`SingleInstanceAttempts`**, any failures. `AttemptInv` ties the attempts a worker
  has in memory to the row's, since `handleJobFailure` compares the stale ones; a job
  on its way round has an attempt less. The signatures are `EverySignatureCounted`'s.
- **`SingleInstanceSignatures`**, assuming that database writes and broadcasts are
  answered: until its row is final a job has at most a signature per crash, and one
  more while a worker is about to record it (`SignatureInv`).
- **`SingleInstanceWebhooks`**, assuming that database writes are answered: what a
  worker will announce is already true (`Honest`), and stays so by `FinalIsFinal`.
- **`SingleInstanceDeadLetters`**, assuming no failed call, with any crashes: a worker
  on its way to the dead letter queue holds a dead row that is not there yet.
- **`SingleInstanceNoJobForgotten`**, assuming that database writes are answered: the
  case with crashes, where the processing list does answer for a job (`AccountInv`).
  `MarkJobProcessing`, `MarkJobCompleted` and the lookups with `StoreErrors` are the
  hole the hypothesis leaves out, and the code has it (see the hazards).

**Nonces** (`EVMNonceProofs`): **`NonceTypes`**, **`NonceGapPermanent`**,
**`NoncesUnique`**. The gap proof shows by `GapInv` that while the counter is not lost
it is 0 or above `ChainStart`, that what was drawn is above it, and that whatever is
read from the node is it. Uniqueness needs that drawn nonces are below the counter
(`DrawnInv`).

**Credits** (`CreditsProofs`): **`CreditsExclusive`**, **`CreditsImplementLedger`**,
**`CreditsChained`**. The refinement maps a missing row to balance 0 and every step
but Commit to a stutter; Commit is a `Post` because of `Exclusive` (the balance read
under the lock is still the committed one) and `CallInv` (only what is covered gets
there).

**Billing** (`BillingProofs`).
- **`BillingTyped`**: types, balances never negative included.
- **`PaymentsSettled`**: `SettledInv` adds that Stripe's `succeeded` is only ever about
  money taken and that a delivery about to mark the row has its ledger entry.
- **`CreditsOnce`**: for a payment that is neither unmarked nor overlapped, one
  delivery is in hand at a time, and a credited payment says so or is about to
  (`OnceInv`).
- **`GrantsExact`**: `GrantInv` counts, beside the grants made, the runs that have
  found no mark and will still grant.
- **`CapsHold`**, **`RequestsCharged`**: both properties already count the requests in
  flight; they need only that the purchase flag a request has read was true (`ProInv`).

**Organisations** (`OrganisationsProofs`).
- **`OrganisationsTyped`**: types of rows and of what a request has read by a step.
- **`OwnersStay`**: until the owner's row is there nobody else touches the
  organisation (`OrgInv`), and a request about to write the creator's row has seen
  that it was lost (`OwnerInv`).
- **`InvitesUsedOnce`**: a request about to join is the one recorded (`InviteInv`).
- **`OnboardingOverlapped`**, **`OnboardingLeavesProject`**: a user without overlap has
  an organisation or an onboarding, one of them and not both (`OnboardInv`).

**API keys** (`APIKeysProofs`).
- **`RatesBounded`**: a cached limit is never above the present one (`StaleInv`); what
  was admitted is in the window or failed open (`WindowInv`); and the requests between
  ZCARD and ZADD that will pass are counted with those that did (`PassInv`).
- **`SDKRefuses`**: no entry in Redis or in a request is cloud-managed.
- **`KeysLimited`**: the cap of `CreateAPIKey` is passed by at most the other requests
  that have listed the keys and not inserted theirs, which `KeyInv` counts, and by one
  for each failure, as a list that fails lets any request through.

**Funds** (`FundsProofs`).
- **`FundsTyped`**: `TypeOK` reads rows through ids that requests carry, so it needs
  what a request knows at each step (`Typed`), that such an id was made for that use
  (`UseInv`), and uniqueness as a statement about pairs of rows (`UniqueInv`).
- **`MastersNotSenders`**: a wallet being provisioned is one provisioning's, and not yet
  a destination nor anyone's old master (`OwnInv`); it is flagged before it is
  configured, and a configured wallet has its flag or is not the only one of its chain
  (`FlagInv`). So a master wallet whose flag is read as false is `Unready`, or has been
  passed over for good: no longer a destination, or without its flag on a chain with
  two (`Settled`); and both last up to the job and beyond (`CheckedInv`).
- **`CacheExplained`**: `StaleExplained` is inductive once types are known; most steps
  do not come near the cache (`Aside`, `Apart`), and a write of one chain does not change
  the answers of another (`UpsertElsewhere`, `DisableElsewhere`).
- **`TransfersConsistent`**: what an undisturbed transfer has read is what the table gives
  (`AnswerInv`): a hit is, by `StaleExplained`, or is `Excused` and disturbs it, and a
  write of its chain's entry disturbs it. Off Solana the table gives one answer
  (`UniqueInv`).

Model-checked only: the liveness properties `StalledRecovered`, `EveryJobEnds`,
`EveryCallEnds`, `PaidIsCredited` and `RevokedDiesOut`, since fairness and ENABLED are
outside the prover's reach; and, because they do not hold, the two properties of the
violation runs.

Proving changed the text of the models and none of their behaviours: assumptions that
were meant and not said are stated (`Chains` and `Tasks` finite, `List` no chain, `None`
none of the names beside it, amounts integers); `JobQueue` takes `SequencesExt` openly;
and `After`, `Answered` and `RunJob` are written so that each result of a registry read
is a case of its own.

## 5. Not modelled

- Key generation, encryption and the KMS clients, signatures and transaction bytes:
  cryptography and encoding without state.
- `abi.go` (decimal strings, ABI calldata) and the dust threshold: arithmetic on
  unbounded integers and strings; the models keep only which entry's decimals an
  amount is in, and that a balance may or may not suffice.
- `webhook.Deliver`'s backoff loop: one nondeterministic result, since nothing reads
  what an attempt leaves behind.
- Audit log, usage rollup, swept_at and credit expiry: written and never read by
  code that decides anything.
- Handlers that only read, configuration, migrations and the test client.

## 6. Plan

No safety property of a run is left without a theorem. What would add to them:

1. fewer hypotheses: the bounds on attempts for several instances, where each overlap
   would count as a crash does; `NoJobForgotten` with `StoreErrors`, once the rows left
   behind by a failed MarkJobProcessing or MarkJobCompleted are on record;
2. the safety half of the liveness properties: that a job, payment or call that has not
   ended always has the step that would move it on;
3. `Credits` used by `Billing`: its one-step Debit and Credit as an instance of
   `CreditLedger`'s `Post`.
