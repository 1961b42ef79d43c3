# A TLA+ model of stablecoin-gateway

stablecoin-gateway takes TRC20 deposits for merchants, keeps their balances in a
double-entry ledger, and pays out on their behalf. Every part of it is a process
that polls PostgreSQL, works outside any database transaction, and writes its
result back under a fence. This directory models the part of the program that
moves money, checks it with TLC on small instances, and proves the central
safety properties with TLAPS for every value of the constants.

- [The system](#the-system): components, their state, operations and hazards
- [Modules](#modules): which module models what, and what it abstracts
- [Runs](#runs): what each run asks, its bounds and what it shows
- [Fairness](#fairness)
- [Proofs](#proofs)
- [Findings](#findings)
- [What is only model-checked, and what is not modelled](#limits)
- [Plan](#plan)

To check a run: `tlc -workers 2 -config PayoutReviewRace.cfg MCPayoutReview.tla`.
To check the proofs: `tlapm PayoutExecutionProofs.tla`. `PROJECT.json` lists the
runs, the source lines each definition models, the hazards, and for every
property a change to the model, as a bug would make it, that breaks it.

## The system

Paths are relative to `src/internal/`.

| Component | State | Operations | Talks to |
|---|---|---|---|
| Payout creation and review (`payout/store.go`, `review.go`) | `payouts`, `payout_review_audits` | `Create`, `Review` | the ledger, screening jobs and outbox, all in its own transaction |
| Payout screening (`screening/store.go`, `worker.go`) | `payout_screening_jobs` with lease and epoch, immutable `payout_screening_results` | `Claim`, `Complete`, `Release` | an HTTP provider, outside transactions; read by `Review` |
| Payout execution (`payout/signing*.go`, `execution*.go`) | `payouts`: status, transaction, lease, epoch, next confirmation | `ClaimSigning`, `CompleteSigning`, `ReleaseSigning`, `ClaimBroadcast`, `BeginConfirmation`, `ClaimConfirmation`, `ReleaseConfirmation`, `CompleteConfirmationSuccess/Failure` | signer and nodes outside transactions; ledger and outbox inside |
| Signer (`signer/`, `chain/tron/signhttp`) | `signer_requests`: one signed transaction per request, first write wins | `SignTransfer` | called by the signing workers |
| Node client (`chain/tron/nodehttp`) | endpoints | `Broadcast`, `Transaction`, `SolidifiedHead`, `SolidifiedBlockByHeight` | the TRON network |
| Ledger (`ledger/`) | accounts, transactions, entries | `PostInTransaction` | called in the business transactions |
| Chain indexer (`chain/tron/indexer`) | `chain_scan_cursors` with lease and epoch, `chain_events` | `BindContract`, `Claim`, `AdvanceTx`, `Release` in `Scanner.Step` | nodes; its events feed the deposits |
| Deposit screening (`screening/inbound_*.go`) | `deposit_screening_jobs`, `deposit_screening_results` | discovery and `Claim`, `Complete`, `Release` | an HTTP provider; read by the matcher |
| Deposits (`deposit/`) | `deposit_intents`, `deposit_event_matches` | `CreateIntentFromPool`, `MatchNext`, `ExpireDue` | chain events, ledger, outbox |
| Outbox (`outbox/`) | `outbox_events` with lease and attempt count | `EnqueueInTransaction`, `Claim`, `MarkSucceeded/Retry/Dead` | written in business transactions, read by the webhook worker |
| Webhooks (`webhook/`) | `webhook_endpoints`, `webhook_delivery_attempts` | `PendingEndpoints`, `Send`, `RecordAttempt` | the merchants' servers |
| Runner (`background/runner.go`) | none | runs one operation after the other with a timeout and a backoff | drives every worker |
| Sweeps (`sweep/`, `screening/sweep_*.go`) | `sweep_plans`, `sweep_executions` with lease and epoch, `sweep_screening_jobs` and results | `PlanNext`; `Claim`, `Complete`, `Release` of the screening; the signing and execution operations of payouts | signer, nodes, wallet snapshots, deposits |
| Authentication (`merchantauth/`) | `merchant_api_keys`, `merchant_api_nonces` | `Authenticate`, `ConsumeNonce`, `Provision` | wraps the HTTP API |
| HTTP API (`transport/http/`) | none | creates deposit intents and payouts, reads them | deposits, payouts |
| Wallet snapshots (`wallet/`) | `custody_wallets`, `wallet_balance_snapshot_runs` with their ledger checkpoint | `Register`, `Capture` | one node, ledger |
| Reconciliation (`reconciliation/`) | runs, findings, cases | `Run`, `Resolve` | reads every table |
| Recovery audit (`recovery/`) | none | `Audit` | reads ledger, snapshots, cases |
| Configuration, monitoring, secrets, tools | none of their own | | |

**What makes them correct.** A merchant's money is conserved: what is frozen is
what the unfinished payouts froze, no balance is spent twice, a deposit is
credited once and in full. The database follows the chain: a payout succeeds
only after its solidified transfer and fails only if the transfer can never
happen, or was missed by the nodes that were asked; the indexed events are exactly the transfers of the scanned blocks. The
merchant is told the truth, at least once. An approval rests on a current
positive screening. Only screened money is swept, and not twice by planners that see each other's
plans. What the chain
holds and what the ledger says differ by what is under way, and a loss is seen.
And everything that was begun ends.

**What makes this hard.**

- *Leases.* Work is claimed for a time, done without a transaction, and written
  back later. The claim can have been taken over in between, by another process
  or by one with the same configured worker identifier. Payouts, screenings and
  the cursor are fenced by owner, epoch and (for results, not for releases) the
  lease time; outbox events by the owner alone.
- *Unknown outcomes.* A broadcast whose answer is lost may have been accepted; a
  signature may be stored although the caller got an error.
- *Two reads are two times.* A confirmation reads the transaction and then the
  head; a review and a match read columns in a snapshot and then wait for a row
  lock; the indexer reads head and block from endpoints that lag; a snapshot
  reads wallet after wallet, between two looks at the head and the ledger.
- *Isolation.* A planner runs under REPEATABLE READ and does not see what another
  one inserted after its first statement; the statement that picks a deposit address skips locked rows.
- *READ COMMITTED.* Balances are summed by a statement of their own: nothing but
  explicit row locks protects them, and the locks are taken in different orders.
- *Late and repeated events.* Screening results run out, transfers arrive after
  the intent was closed, requests are repeated under other keys.
- *Crashes* at every point, with the lease left behind.

`hazards` in `PROJECT.json` lists each of these at its line together with the
properties that would catch it.

## Modules

| Module | Models | Actions |
|---|---|---|
| `PayoutExecution` | signing and execution workers, signer store, a forking chain | each store method, each call to signer or node, nodes that are behind, crash, lease expiry, chain steps |
| `PayoutContract` | what the gateway promises about a payout; implemented by `PayoutExecution` | `Transfer`, `Overlook`, `Succeed`, `Fail` |
| `PayoutExecutionProofs` | theorems about `PayoutExecution` | |
| `PayoutReview` | creation, screening, review, the operators' list of payouts to act on | `CreatePayout`, the screening store, `BeginReview`, `Decide`, `DecideAgain`, ... |
| `BalanceLocks` | the transactions that move a merchant's money, statement by statement with their row locks | `Begin`, `Lock`, `ReadBalance`, `Commit`, `Refuse`, `Rollback`, `AbortDeadlocked` |
| `MerchantBalance` | what the ledger promises about a merchant's money; implemented by `BalanceLocks` | `Credit`, `Create`, `Approve`, `Unfreeze`, `Settle` |
| `Deposits` | inbound screening, matching, posting, expiry, the list of transfers to act on | the inbound store, `Pick`, `MatchNext`, `ExpireDue`, ... |
| `WebhookDelivery` | outbox claims and marks, delivery to endpoints | `ClaimBatch`, `Handle`, `Send`, `RecordAttempt`, `Finish`, ... |
| `ChainScan` | the indexer's `Scanner.Step` over a shared cursor | `BindContract`, `Claim`, `ReadHead`, `ReadBlock`, `Advance`, `Release`, ... |
| `Sweeps` | planning, screening, signing and execution of the sweeps of one wallet | `BeginPlanning`, `PrepareScreening`, `InsertPlan`, `CommitPlan`, the screening store, the two workers, ... |
| `Treasury` | wallets, chain and ledger as they are accounted for; snapshots, detectors, cases, audit | movements and postings, `ActiveWallets` ... `SaveSnapshot`, `EmptyBlock`, `BeginRun`, `CommitRun`, `ResolveCase` |
| `MerchantApi` | a signed call that creates a deposit intent, from header to answer | `CheckTimestamp`, `FindActiveKey`, `ConsumeNonce`, `FindIntent`, `SeeFreeAddresses`, `LockAddress`, `InsertIntent`, ... |
| `PayoutReviewProofs`, `BalanceLocksProofs`, `DepositsProofs`, `SweepsProofs`, `TreasuryProofs` | theorems about the module in the name | |
| `EdgeProofs` | theorems about the three modules at the edge of the system: `ChainScan`, `MerchantApi`, `WebhookDelivery` | |
| `SumTheorems` | laws of sums over finite sets, for the proofs about balances | |
| `MC*` | constants, symmetry and the worker identifiers of the runs | |

The modules meet at states, not at shared variables: `PayoutReview` ends where
`PayoutExecution` begins (an approved payout whose money is frozen), `ChainScan`
produces the indexed events `Deposits` starts from, and `WebhookDelivery`
delivers the events that the other modules enqueue inside their transactions.
`Sweeps` starts from the transfers that `Deposits` settled, and `MerchantApi`
creates the intents that `Deposits` fills. `Treasury` takes payouts, credits and
sweeps as their modules leave them - begun, ended, posted - and looks at all of
them through the snapshots and detectors. `BalanceLocks` justifies a simplification of the others, which take a database
transaction (or its part after the row lock) for one step: it breaks those
transactions into statements and shows that each is still an atomic movement of
`MerchantBalance`.

Abstractions that all modules share:

- **Time.** A timestamp appears as the outcome of the comparison the code makes:
  `live` (lease_until lies ahead), `valid` (valid_until lies ahead), `due`
  (available_at or next_confirmation_at does not). An action makes it change at
  any moment, so every interleaving of clock and program is covered.
- **Epochs.** The lease epoch of a row counts its claims; a claim keeps the
  epoch it got. Both are abstracted to `holder`, the process whose claim is the
  latest: a process works on one claim at a time, so its epoch is the row's
  exactly if it is the holder. In `PayoutExecution` and `ChainScan` processes
  may share a `WorkerId`, which is then all that the owner column compares. A
  worker that was thought dead is one of the processes under that identifier.
- **Crashes** forget what a process was doing and leave its rows. An operation
  timeout and a failed commit are the same step. A commit that took effect and
  whose answer was lost is the write followed by the crash of an idle process.
- **Order of claims.** Claims take the oldest row of a batch; the models let
  them take any, so no safety property rests on the order.

Specific to a module:

- `PayoutExecution`: `window` is where the expiration of a transaction lies:
  `fresh` (more than the 15 seconds the signing client demands), `stale`, or
  `final` (passed by a solidified head). The chain includes a sent transaction,
  forks it away, or solidifies it. A confirmation round asks twice, for the
  transaction and for the head, and each answer is of its own moment and of a
  node that may be behind (`BehindTransaction`, `BehindHead`). `missed` records
  the transactions that were solidified before a round asked for the head and that
  this round did not see. The text of a failure reason is left out. `preferConfirmation`, which alternates the two claims of
  an execution worker, is a free choice between them.
- `PayoutReview`: creations of one merchant exclude each other by the lock on
  its row, so each is a step. A review is two: the statement that reads the
  screening columns in its snapshot and waits for the payout's lock, and all that
  follows. `overtaken` records that the job was written after the review began;
  the trigger `protect_payout_screening_job` then refuses to set `updated_at`
  back. This assumes a database clock that does not go backwards.
- `BalanceLocks`: a plan is the sequence of rows a kind of transaction locks, in
  the order of its statements and, within one, of its `FOR UPDATE OF` clause.
  A credit locks its accounts `FOR SHARE`. PostgreSQL's deadlock detector rolls
  back one transaction of a cycle.
- `Deposits`: an address has one intent. `deny` stands for `review` too, which
  the matcher treats alike. The status of asset, merchant, address and account
  is not written by the program and may have any value each time it is read.
- `WebhookDelivery`: marks compare the owner only. What separates a slow process
  from the next claim is the start-up check that the lease outlasts the
  operation timeout by more than five seconds; the guard `Outlasted` of
  `EventLeaseExpires` states it, and a mutant without it shows what would break.
  `MaxFaults` bounds crashes, timeouts and database errors together.
- `ChainScan`: a block is its network and height, which stand for its hash. An
  endpoint may lag and another may serve another network. The conflict branch of
  `insertEvent` is not reached by any state, since events and cursor are stored
  together. `Ensure` has run (`Init`). `Executed` are the transactions whose receipt
  is a success: `ParseTransfers` leaves the logs of others out.
- `Sweeps`: one wallet. Every candidate, job, plan and claim concerns one source
  wallet, and a planner locks its row and skips locked ones. A solidified transfer
  is a block; a plan has its snapshot run's number. The screening of a transfer
  and its match are one fact, `settled`. `BeginPlanning` fixes the snapshot of the
  repeatable-read transaction; `InsertPlan` compares the validity of the result with
  the clock and takes the lock of the wallet's row, which other planners skip
  (`WalletUnlocked`); `CommitPlan` makes the plan seen. A result can run out before
  the insert, which refuses it, or between insert and commit, which does not. Any
  number of planners runs; a process of `gateway-sweep-acceptance` that plans is one
  of them. `missed` is as in `PayoutExecution`; `blind` records the plans whose
  planner had not seen every plan that was committed before.
- `Treasury`: one asset, one merchant. How a payout, credit or sweep got where it
  is lies in the other modules. One that is marked failed may have been executed
  before, and missed (`FailPayout`, `FinishSweep`); that it never moves tokens later is
  taken from `FailedTransferWasMissed` and `OutcomeIsTrue`. The snapshot's node
  lags and does not go back. Heights count movements only; the blocks between
  them, which move the head every few seconds and so refuse a capture, are `EmptyBlock`. The two sums of the code, chain and ledger, are
  computed from the movements. Of the cases only that of a wallet shortfall is
  followed. An entry has one amount for both sides, so the detector of unbalanced
  transactions is silent by construction and left out.
- `MerchantApi`: signatures and the encryption of secrets are data; requests that
  nobody signed are refused before anything is written. `Terms` are amount and
  lifetime. The clock is an integer, since the nonce's lifetime is the point. It
  stands for the clocks of every API process, which compares the timestamp
  (`merchantauth/auth.go:75`), and of PostgreSQL, by which nonces expire
  (`merchantauth/store.go:79`). Their skew is left out. An offset of PostgreSQL does not
  matter, for a nonce lives for a time from its insertion; but where one API process is
  behind another, the window over both is that much longer than the nonce's life.

## Runs

Twelve runs: nine that pass and three that show a disagreement with the code's
own words. Times are with two workers.

| Run | Module | States | Time | Asks |
|---|---|---|---|---|
| `execution_race` | PayoutExecution | 35 395 | 9 s | do racing, crashing workers keep payout, journal, outbox and chain together, up to transfers that nodes behind the chain hid, is every end one atomic step of `PayoutContract`, and does a signed payout end |
| `execution_two_reads` | PayoutExecution | | | is a failed payout never transferred (violated) |
| `execution_stale_signature` | PayoutExecution | | | is an approved payout signed in the end (violated) |
| `review_race` | PayoutReview | 117 601 | 31 s | has an order one payout, decided once and told the same everywhere, on a screening that stands, while calls are repeated and workers race |
| `review_keys` | PayoutReview | | | does an idempotency key have one payout (violated) |
| `balance_locks` | BalanceLocks | 29 794 | 7 s | do the row locks make each transaction an atomic movement of money, and which transactions can deadlock |
| `deposits` | Deposits | 34 602 | 67 s | is what is received the sum of what was matched, credited once, from allowed senders and in time, in every order, and is everything settled and closed |
| `webhook` | WebhookDelivery | 220 037 | 48 s | does success mean that every endpoint acknowledged, is none bothered after that, and does every event end |
| `scan` | ChainScan | 77 898 | 51 s | is what is stored the prefix of the chain, and is every solidified block indexed |
| `sweeps` | Sweeps | 2 224 830 | 134 s | do two planners plan money twice, or unscreened, or without a valid allow, other than blindly, and is the outcome of a sweep true, up to transfers that a round missed |
| `treasury` | Treasury | 764 576 | 82 s | is a snapshot one cut through chain and ledger, its verdict true, the ledger's detectors silent, and a loss reported as long as snapshots are saved |
| `merchant_api` | MerchantApi | 1 169 924 | 45 s | does a nonce count once, and do all answers name one intent and one address for an order |

**Properties and what they show**

- *Execution.* `TablesAgree`: row, journal and outbox tell one story of each
  payout, each end once. `SucceededIsTransferred`, `FailedTransferWasMissed`: the
  story is that of the chain; a payout is released although it was transferred only
  if a round, before it asked for the head, did not see the solidified transfer, and
  nothing that was released is transferred later. `OnlyHolderWrites`: no change of status without
  the live, current claim. `ImplementsContract`. `SignedPayoutEnds`: a signed
  payout reaches a terminal status although nothing is assumed of broadcasts,
  which is why expiry is needed.
- *Review.* `OnePayoutPerOrder`: whatever keys an order is sent under, its answers
  name one payout, of its amount. `DecidedOnce`: one decision, the same in payout,
  audit, journal, outbox and screening job. `ApprovedIsNotDenied`: the snapshot
  read before the lock cannot let an approval pass over a newer deny; the trigger
  on `updated_at` is what prevents it, as its mutant shows, and the last result of an
  approved payout is an allow. `ScreeningEnds`: crashed or expired screenings are
  done again, until an operator can approve the payout or is shown it.
- *Balances.* `CheckedBalanceStands`: a balance read is the balance at commit.
  `DeadlockNeedsFinalization`: creations, rejections and credits never form a
  ring; settlements and failure releases can, since they lock the frozen account
  before the other one, and PostgreSQL then aborts one. `ImplementsMerchantBalance`.
- *Deposits.* `ReceivedIsMatched`: the amount of an intent is the sum of its
  matches, each of them once. `CreditedOnce`: the merchant is credited
  once, in full, exactly when the sum is exact. `OnlyCleanMoneyCounts`: an expired
  screening result or a late transfer never counts. `SettledOnce`: no second
  worker and no late screening touches a settled transfer. `IndexedIsSettled`,
  `DueIsClosed`: each ends once faults cease.
- *Webhooks.* `SucceededReachedAll`, `NoRepeatAfterAck`: success is every
  endpoint's acknowledgement, and none gets the event after its own. `EventEnds`.
- *Indexer.* `PrefixIndexed`, `OnlyHolderWrites`, `StopsForOtherNetwork` (a
  process gives up for good only after an answer from another network, never for
  lagging endpoints or lost claims), `SolidIsIndexed`.
- *Sweeps.* `SecondSweepIsBlind`: although two snapshots show the same money, the
  wallet gets a second open sweep only from a planner whose snapshot did not show
  every plan committed before it. `OnlyScreenedMoneySwept`: the other sweeps, open and
  finished, never exceed the deposits that were allowed and matched; with one
  planner none is blind, and these are all. `AllowedWhenPlanned`: the plan's allow is
  valid when it is inserted. `OutcomeIsTrue`: success is moved tokens, and failure
  is tokens that never move or that the round missed.
- *Treasury.* `SnapshotAddsUp`: the difference of the two sums is exactly the
  deposits not credited, the payouts not settled, what was lost, and what the
  node had not seen; and the executed payouts are settled, in flight, or were released
  as failed. `VerdictIsTrue`: what a shortfall, an excess and a passed audit each
  imply. Money of a released payout that was executed is a shortfall like a loss. `LedgerIsQuiet`: no state of the gateway raises a ledger
  finding, and what is frozen is what the audit counts as pending.
  `LossIsReported`: as long as snapshots are saved again and again, a loss that nothing
  covers is a case again and again, also after an operator has closed it. That
  snapshots are saved is the premise, for no code ensures it: see [Findings](#findings).
- *API.* `NonceOnce`: a signed request takes effect once; it can be accepted again
  only if its nonce was consumed at the very end of its window. `RepliesAgree`:
  every answer names an intent that stands, of the signed order and merchant, and
  different orders never share an address.

**Bounds, and why they are enough**

- Two workers of a kind are what a race for a lease takes, one as the process
  that outlived its lease and one as its successor; identifiers are shared where
  the code compares more than the owner.
- Execution rows are independent except for the merchant's frozen account, which
  `balance_locks` follows with two payouts, and the transactions, which the proofs
  cover for any number: `execution_race` has one payout and all processes.
- `review_race` has an order, its repetition under another key and its reference
  with another amount, two operators and one screening worker with crashes.
- `balance_locks` needs three sessions: two to deadlock and one more to close a
  longer ring. One payout can be paid from the deposit alone, both cannot.
- `deposits` has transfers of 1, 1, 2 and a 2 from before the window for an
  expected amount of 2, of which a behaviour receives a combination that pays,
  overpays or misses: partial, exact and excess payments in every order. Two
  deposit workers race; one screening worker crashes and loses its lease.
- `webhook` has two attempts, so that a retry and a dead letter both happen, and
  one fault. The fault budget keeps the count of attempts finite: without it a
  process that crashes after every claim would count for ever.
- `scan` has two processes of one contract under one identifier and one with
  another contract, four transfers of two contracts, one of them reverted, in
  two of three blocks.
- `sweeps` has two planners, two transfers, two snapshot runs and one worker of each
  kind. The second snapshot can show the money of the first's plan, or new and
  unscreened money that would pay for it. Named constraints in `MCSweeps` ask one
  thing at a time (`OneHazard`): planners that overlap, a second transfer, or a
  disturbed worker (a round that misses its transaction, a lease that runs out under
  its holder). The first two are about plans: the workers take turns then, of two
  sweeps one is signed, and what becomes of a blind plan is not followed, since no
  snapshot run is left to plan from. Leases run out before there is a second plan
  (`PlansOnly`). The theorems have none of these bounds.
- `treasury` has one deposit, sweep, payout and loss over two wallets, of which
  one is registered on the way: every kind of movement can fall between any two
  steps of a capture, a capture can fail at any of them, and the head can move
  without a movement while the wallets are read.
- `merchant_api` has a window of 1 and a clock to 2, so that a timestamp can be
  ahead, in the middle and behind; an order, the same order under another key, and
  another order under that key, with two handlers. The two addresses may be
  registered for the merchant or for another one. `MaxTime` bounds the clock.

Deadlock is checked in the runs of `PayoutReview` and `BalanceLocks`. Elsewhere the system
really stops: all payouts have ended, everything is settled or delivered, the
clock has reached its bound, or every indexer has stopped. Symmetry is used in
runs without liveness properties only.

## Fairness

Each fairness condition comes from one fact about the code:

- `background/runner.go` calls an operation again after it ended, with a
  timeout on each: the step of a worker in the middle of a claim is weakly fair.
- Claims order rows by age (`next_confirmation_at`, `updated_at`, `available_at`,
  block height) and give the row they take a newer one: a row that is claimable
  again and again is claimed. This is strong fairness of the claim per row where
  something else can make the row unclaimable in between (another worker's
  claim, a result that is valid for a time), and weak fairness elsewhere.
- A lease runs out and a retry falls due because time passes: weak fairness.
- The timer of reconciliation goes on, and the node that the snapshot asks follows
  the chain: weak fairness of a run and of `NodeCatchesUp`, in `Treasury`. A payout
  that was broadcast there is confirmed or fails, which is `SignedPayoutEnds`. Nothing
  is assumed of captures, which the head may refuse for ever, of operators, of sweeps
  or of the losses themselves.
- Blocks solidify and their times advance; a solidified head passes an
  expiration. Nothing is assumed of a node that is sent a transaction, of an
  endpoint, of a screening provider, a merchant or an operator.

Faults may happen any finite number of times: a liveness property reads
`EventuallyHealthy => ...`, where `EventuallyHealthy` says that from some time
on no crash, error, fork or lease that runs out under its worker occurs. The
last is a fault since each worker's operation timeout is shorter than its lease.
In `ChainScan` an endpoint that lags for ever is a fault too, and `SolidIsIndexed`
excepts the case that answers from another network have stopped every process.
In `Treasury` the premise of `LossIsReported` is that snapshots are saved infinitely
often, and that the loss stays uncovered. `Sweeps` and `MerchantApi` have
safety properties only and state no fairness: a sweep's liveness is that of a payout,
with the same exception (the second finding), and a call ends with its answer.

## Proofs

The proofs hold for all sets of payouts, workers, transactions and transfers, all
worker identifiers (shared or not), all amounts and heights. They assume the
named `ASSUME`s of the modules only, which every run evaluates.

| Module | Theorems (each `Spec => [](...)`, an action property or a refinement) |
|---|---|
| `PayoutExecutionProofs` | `TypeCorrect`, `TablesAgreeAlways`, `SucceededIsTransferredAlways`, `FailedTransferWasMissedAlways`, `OnlyHolderWritesAlways`, `Refinement` (of `PayoutContract`) |
| `PayoutReviewProofs` | `TypeCorrect`, `OnePayoutPerOrderAlways`, `DecidedOnceAlways`, `ApprovedIsNotDeniedAlways` |
| `BalanceLocksProofs` | `CheckedBalanceStandsAlways`, `DeadlockNeedsFinalizationAlways`, `Refinement` (of `MerchantBalance`) |
| `DepositsProofs` | `OnlyCleanMoneyCountsAlways`, `SettledOnceAlways`, `ReceivedIsMatchedAlways`, `CreditedOnceAlways` |
| `SweepsProofs` | `TypeCorrect`, `SecondSweepIsBlindAlways`, `PlansAreAllowed`, `OnlyScreenedMoneySweptAlways`, `OutcomeIsTrueAlways` |
| `TreasuryProofs` | `TreasuryTypeCorrect`, `SnapshotAlwaysAddsUp`, `VerdictAlwaysTrue`, `LedgerAlwaysQuiet` |
| `EdgeProofs` | of `ChainScan`: `TypeCorrect`, `PrefixIndexedAlways`, `OnlyHolderWritesAlways`, `StopsForOtherNetworkAlways`; of `WebhookDelivery`: `HookSucceededReachedAllAlways`, `HookNoRepeatAfterAckAlways`; of `MerchantApi`: `ApiTypeCorrect`, `ApiRepliesAgreeAlways`, `ApiNonceOnceAlways` |

With them every safety property of a passing run is proved for all constants.

Each proof has one lemma per action, or per group of actions that change the
same part of the state, and ends in a propositional temporal step.

**`SumTheorems`.** Balances, received amounts and snapshots are sums over sets of
events, entries or rows, which the models form with `MapThenSumSet`, a recursive
function on the subsets of a finite set. What it returns is a matter of induction on
the set, and an induction theorem that takes a predicate as its parameter cannot be
used. The proofs look for a least counterexample instead: `LeastSet` says that among
the subsets of a finite set for which a claim fails one contains no other, because strict
inclusion is well-founded there, and taking one element from it contradicts that. So
`FoldExists` and `FoldUnique` (the recursive function is there, and is the same on
every set that contains its argument), `SumRemove` (any element may be taken out
first), and from these `SumAdd`, `SumUnion`, `SumSplit`, `SumSame`, `SumNat` and
`SumGrows`. `AmountsSum` and `FieldSum` bring a sum of a field into that form.

**`PayoutExecutionProofs`.** The inductive invariant is

    IInv == TypeOK /\ TablesAgree /\ OutcomeInv /\ OwnTransaction /\ OnlySigned

`TablesAgree` is inductive once types are known, because one step only,
`Finalize`, changes any of the three tables it speaks of (`OnlyFinalizeEnds`).
The two statements about the chain are not: that a failed payout never transfers
rests on what a worker *learnt* some steps before it wrote. `OutcomeInv` adds
this knowledge. `FinalBlocks`: a transaction whose window is final is in no
unsolidified block. `OneTransaction` and `RowTransaction`: row, claim and signer
name the same transaction of a payout. `Verdicts`: a worker about to settle has
read a solidified success; one about to fail has a transaction that is `Dead`: solidified
as a failure, solidified and missed, or absent with a final window, and none of these
changes any more. In between, while it stands before the head, what is solidified is in
`missed`: either the transaction's reader did not see it, or the block came after.
`Refinement` needs besides that different payouts
have different transactions (`OwnTransaction`) and that only signed ones are
ever sent (`OnlySigned`), so that a chain step moves the tokens of one payout,
which is still pending. `OnlyHolderWrites` needs types only: a claim takes a row
without a live lease (`LeaseTakesFree`), and every write that ends a claim is
fenced by owner and epoch (`HolderEnds`).

**`PayoutReviewProofs`.**

    IInv == TypeOK /\ Processes /\ DecidedOnce /\ ApprovedIsNotDenied /\ Orders

`ApprovedIsNotDenied` needs `AllowedStands`, in `Processes`: what a review saw as
allowed before its lock is still the last result unless it has been overtaken, and
an overtaken approval is refused. `Orders` relates answers to rows (`Known`),
rows of one merchant to references (`Distinct`) and payouts to jobs (`HasJob`).

**`BalanceLocksProofs`.**

    IInv == Shape /\ Exclusive /\ CheckedBalanceStands

`Exclusive`, that no two transactions hold locks that conflict, is what the other
part rests on: whoever posts to an account has it locked, in a mode that conflicts
with that of a transaction that has read its balance. `DeadlockNeedsFinalization`
follows from `WaitsInOrder`: a transaction that finalizes nothing waits for a
row that comes after all it holds in the order merchant, payout or intent,
available, frozen, and shares custody; a ring of waits of any length would
contradict this order.


`Refinement` of `MerchantBalance` needs the money itself, `MoneyInv`. `EntriesTold`: an
entry in the journal goes with one status of its payout, so what a commit posts is
not there yet, and the two sums move by exactly its amount. `StillExpected`: the status a
transaction found when it took its row is the one that it finds when it commits, since
the row was locked all along. That a balance suffices is `CheckedBalanceStands`. Every
other statement leaves status, journal and balances alone and is a stutter.

**`DepositsProofs`.**

    IInv == Shape /\ Screened /\ Locks /\ Settled /\ Clean
    Books == \A a \in Addresses : AmountCheck(a) /\ Money(a)    (and types)

`Screened`: a job's result is one that was stored for that transfer. `Locks`: a
matcher that has picked a transfer holds its row, alone. `Settled`: a settled
transfer's job is closed. `Clean`: what counts came in time and was allowed. `Books` holds
on top of it. `Money` says that `received` is the sum of what counts, that nothing
is overpaid until it has been paid, and that the credit, its posting and its event are there
exactly when the matched transfers sum up to the expected amount. `AmountCheck`, a CHECK
constraint of the table, ties the status to that amount: it is why an intent that has
been credited takes no further transfer as matched, which is what makes the sum stop
there. `Locks` gives that a transfer is added to the sum once.

**`SweepsProofs`.** `RowMoves`, `JobMoves` and `TxMoves` say how each step may change a
plan, a screening job and a transaction, and `Shape` besides types that one planner
at most holds the wallet's row with a plan it has not committed. `SecondSweepIsBlind`
from `PlannersSee`: as long as a planner's snapshot shows all the plans there are, no
sweep is open. `PlansAreAllowed`, from `PlannersAllowed`: a planner that goes by an
allow and has not inserted still has it, since a valid result is not replaced and its
expiry is seen. `OutcomeIsTrue` as `FailedTransferWasMissed`, from `Verdicts` and
`Outcomes`. The other two rest on

    Sound    == Shape /\ Executions /\ Chained /\ Knowing /\ Sent /\ Captured /\ Plans
    CoverInv == Sound /\ PlannersSee /\ IsFiniteSet(Planned) /\ Explains /\ Covered

That a planned amount is a positive number is no matter of types: it is the balance at
the snapshot, and the planner compared it with `Minimum` before it committed. `Plans` says
that this still stands, for any number of planners: blocks stay where they are
(`Chained`), and the sweeps among them were planned (`Sent`, `Knowing`), so that their
amounts do not change (`BalanceStays`). `Explains`: as long as a planner's snapshot shows
all the plans there are, no sweep is open, so none can succeed, and the balance it found is still what was received less what the succeeded sweeps took.
The plan that it commits then, which is not blind, brings the sum of open and succeeded
sweeps, of which it is the only open one, to exactly what was received up to its snapshot,
all of it clean (`Covered`). A blind plan is not in that sum; if it succeeds, it only
makes the balance of later snapshots smaller.

**`TreasuryProofs`.**

    IInv == /\ TypeOK /\ Finite /\ BooksAgree /\ SumsAgree /\ ChainAgrees
            /\ CaptureAgrees /\ LatestAgrees

`BooksAgree`: the journal holds exactly the postings that the rows call for, so that
(`SumsAgree`) the ledger's custody is the credits less the settlements and what is frozen
is the unfinished payouts. `ChainAgrees` ties the rows to the chain and to the
registered wallets. `CaptureAgrees`: a capture that is half-way through its wallets has
added up what those it has read held at its height; `LatestAgrees`: the saved snapshot adds up.
A transfer that is solidified is in flight or has ended, and one that ended as failed is
accounted for on its own: `Misjudged` in the verdict.
`MovementsAssumption` says where each kind of movement comes from and goes to, that amounts
are positive, and that a loss is no payout of the gateway.

**`EdgeProofs`.** The three modules have no state in common; their proofs are in one module.
Of `ChainScan`,

    IInv == TypeOK /\ PrefixIndexed /\ ClaimsAgree /\ BoundOnce

`ClaimsAgree`: what a process has read stays true while it is delayed - the bound
contract is its own, its claim's height and parent belong together, and a block
about to be committed is the solidified one above that parent, because only that
block passes the checks (`ValidIsNext`). `BoundOnce`: a cursor that is claimed
or has moved is bound, so the contract cannot change under a claim. The converse of
`ValidIsNext`, `InvalidIsOther`, gives `StopsForOtherNetwork`. Of `WebhookDelivery`,

    HookIInv == /\ HookShape /\ HookHandling /\ HookExclusive /\ HookProgress
                /\ HookNeeded /\ SucceededReachedAll

Marks compare the owner only, and identifiers are shared; so the argument is
`HookExclusive`: an event in the batch of a process is leased and in no other batch.
It holds because a lease outlasts the operation (`Outlasted`), and is all that
keeps two processes apart. `HookProgress` and `HookNeeded` then say what a process has
sent and what it still owes. Of `MerchantApi`,

    ApiIInv == ApiTypeOK /\ ApiCalls /\ ApiRemembered /\ ApiAnswered /\ ApiPlaced

`ApiRemembered` is what `NonceOnce` rests on: a request that was accepted and whose
window is not over still has its nonce, because the nonce was inserted no earlier
than the window began and lives as long as the window is wide. `ApiAnswered` and
`ApiPlaced` relate answers, intents and addresses; the UNIQUE constraints, which
`InsertIntent` observes, do the rest.

## Findings

1. `execution_two_reads`, `payout/execution_worker.go:171`. A confirmation
   round reads the transaction (line 149) and the solidified head (line 171) by
   two requests, possibly to two endpoints. A block solidified between the two,
   or an endpoint that lags, makes an included transaction look safely expired:
   the payout is failed and its money released, though the tokens have moved.
   That nothing else leads there is `FailedTransferWasMissed`, and is proved. Such a
   payout shows up as a shortfall (`Misjudged` in `Treasury`).
2. `execution_stale_signature`, `chain/tron/signhttp/client.go:284`. The
   signer answers a request for ever with the record it stored first; the client
   refuses a record that is not fresh. A payout whose first answer was lost and
   retried too late stays approved, with its money frozen.
3. `review_keys`, `payout/store.go:273`. A request found by its merchant
   reference under a new idempotency key is answered with the existing payout,
   and the new key is not recorded: the key can then create another payout
   instead of a conflict.

Further observations that the models show; the properties name them as exceptions or
do not speak of them:

- *Two planners*, `sweep/store.go:200`. A planner looks for open sweeps of the wallet in
  the snapshot of its repeatable-read transaction, and only the key of wallet and
  snapshot run protects the insert. Two planners that both began before either
  committed, with a snapshot run each, plan the same money twice.
  `sweep/store_integration_test.go:445` demands one plan of two concurrent planners, and
  races them over one run. The README deploys one planner; the code does not enforce
  it, and `gateway-sweep-acceptance` plans too. The wallet can pay one of the two sweeps;
  the other reverts, or takes a deposit that came later and that nobody screened. The
  model reaches these states: `blind` marks such plans, and is the one exception of
  `SecondSweepIsBlind` and `OnlyScreenedMoneySwept`.
- *Sweeps share the first finding*, `sweep/execution_worker.go:177`: a round reads the
  transaction at line 156 and the head at line 178, and a transfer solidified in between
  makes the sweep fail although its tokens moved. The wallet's balance is then less than
  what the planner can explain, and it is not planned again. `missed` marks such sweeps,
  and is the one exception of `OutcomeIsTrue`.
- *Sweeps share the second*, too: they are signed through the same client by a signer
  that keeps its first answer.
- *Captures may be refused for ever.* `wallet/snapshot.go:97` refuses a capture when the
  solidified head has moved while the wallets were read one by one, and the head moves
  every few seconds. With many wallets or a slow node no snapshot may ever be saved,
  and no loss be seen by reconciliation.
- *Old snapshots.* A sweep screening job of a run that is no longer the latest is
  screened again whenever its result runs out, and stays on the operators' list.
- *A lagging node.* The snapshot asks one node and compares its height with
  nobody's: a deposit that was credited from a newer block makes a false shortfall
  (`Ahead` in `VerdictIsTrue`).
- *Nonces.* A nonce consumed in the instant in which the window is over expires in
  that instant as well; the same request is then accepted once more. `NonceOnce`
  states exactly this exception.
- *Addresses.* The statement that picks an address sees a snapshot and skips locked
  rows: an address that was given out in between is found by the insert only, and
  the call fails with a 500; an address locked by a call that fails later makes the
  pool look empty to another.
- *Unrecorded keys.* `CreateIntentFromPool` treats a known reference under a new
  key as `payout/store.go` does: the third finding applies there too.
- `deposit/matcher.go:162` calls the statuses that `ExpireDue` sets final. A
  transfer of the window that is screened after the expiry still counts:
  an `expired` intent becomes `partially_paid` or `paid`, and is closed again if
  it is not paid. `DueIsClosed` therefore speaks of reaching a closed status
  after every reopening.
- `outbox/postgres.go:48` counts an attempt when an event is claimed. A crash
  uses one up, so an event can be dead after fewer failed deliveries than the
  configured number.

<a name="limits"></a>
## What is only model-checked, and what is not modelled

*By TLC only.* Liveness: `SignedPayoutEnds`, `ScreeningEnds`, `IndexedIsSettled`,
`DueIsClosed`, `EventEnds`, `SolidIsIndexed` and `LossIsReported`, since TLAPS has no
rules for the fairness they need. The properties of the three violating runs are not
true of the code; `FailedNeverTransferred` has a weaker neighbour that is, and is proved
without further hypotheses: `FailedTransferWasMissed`, whose exception is what that run
shows.

*Not modelled.*

- `CreateIntent` of `deposit/store.go` (an intent at an address the caller names):
  no program of the repository calls it.
- The signer's file store (a temporary file and a link) and its policy checks; both
  stores appear as one first-write-wins register. AWS KMS.
- The choice of an endpoint, failover and retries of the node client, and the
  runner's backoff: the workers may assume nothing of either, and do not.
- Registering and disabling webhook endpoints; reads, routing, decoding and
  rendering of the HTTP API.
- Reconciliation cases other than a wallet's shortfall, and the parts of the
  recovery audit that only count. Monitoring, configuration, encryption of secrets,
  identifiers, the simulator, preflight, acceptance and release tools hold no
  protocol state or only report on it.
- Decoding and validation of chain data, amounts as decimal strings, and messages
  are abstracted to the values the decisions depend on. A missing table, a wrong
  migration or a hand-written row is outside the models.

## Plan

1. **Done:** `PayoutExecution` with `PayoutContract`, `PayoutReview`, `BalanceLocks`
   with `MerchantBalance`, `Deposits`, `WebhookDelivery`, `ChainScan`, `Sweeps`,
   `Treasury`, `MerchantApi`, and proofs of every safety property that a passing run checks.
2. `SignerStore`: the PostgreSQL and the file store as implementations of one
   first-write-wins register, with crashes between the file store's steps.
3. `NodeFailover` and `Runner` as refinements of what the workers assume of them.
4. An abstract specification of a sweep, as `PayoutContract` is one of a payout,
   and of the snapshot as an atomic cut.
5. Type invariants of `Deposits`, `WebhookDelivery` and `BalanceLocks` in full, where
   the proofs so far state as much of them as they need.
