# Specifications of the Base wallet backend

TLA+ models of the programs in this repository, the TLC instances that check
them, and theorems about them checked by TLAPS.  Paths below are relative to
`src/`; `SA` is `wallet-backend/internal/components/sharedaccess/services/services.go`.

## 1. The system

Four programs share one PostgreSQL database and one chain (Base):

| Program | What it is |
|---|---|
| `wallet-backend` | Go/Gin HTTP API with background loops, one process |
| `wallet-payment-history-engine` | Go indexer that fills the payment history tables |
| `wallet-web` | React client with a Rust key vault compiled to WebAssembly |
| `wallet-mobile` | Flutter client |

Every account is a Gnosis Safe.  The server never holds a user's key: clients
sign, the backend packs the signatures and submits the transaction from a relayer
account of its own.  Where the chain's answer and the database have to agree, the
backend does so without a distributed transaction, and this is where its
difficulties are.

### Components, state and operations

| Component | State | Operations | Hard behaviours |
|---|---|---|---|
| shared access (`sharedaccess`) | `closed_groups`, `group_members`, `pending_actions`, `pending_action_approvals` | propose, approve, execute, reject, expire, reconcile at boot | racing approvals; copies of a row saved late; waits that end with the HTTP request; restarts; check-then-insert |
| relayer pool (`relayer`) | a buffered channel, an in-use map | `NewPool`, `ReserveAtStartup`, `Claim`, `Release` | two structures that are not updated together; blocking; double release |
| chain client (`network`) | none | submit, wait for receipt, estimate | a lost answer after broadcast; a receipt that never comes |
| market (`market`) | offers, trades | place, match, settle, cancel | two settlement legs that fail separately; concurrent matchers |
| history engine | cursor, tracked wallets, history rows | index, sweep, backfill | crash between steps; live index and backfill overlapping |
| users, account and wallet recovery (`users`) | users, signer, recovery requests, flags | register, deploy, enrol, confirm, recover | several transactions and a database write per operation |
| payments, swaps, assets | sent transactions by idempotency key | build, submit | a retry during the first try |
| kyc | verification status | webhooks | repeated and reordered webhooks |
| fiat, stablerail, crypto | invoices, on-ramps, deposits, withdrawals | webhooks, pollers | provider call and database write fail separately |
| tokenization | assets, sign-offs, subscriptions | apply, approve, mint, sell, pay out | transactions recorded before they land; partial failure while minting; caps |
| patron | tiers, subscriptions | subscribe, promote | overlapping periods |
| service links | partner approvals | request, authorise, redeem | one-time use |
| address watcher | watched addresses, last block | add, poll | registering during a poll |
| announcements, reference, rates, docs, shortlink, root, middleware, infrastructure | single rows or none | reads and inserts | none beyond one statement |

`PROJECT.json` lists every component with its status, and every hazard at its line.

How they interact: `payments`, `swaps`, `assets`, `crypto` and `tokenization`
propose actions to `sharedaccess`, which answers the call that executes one; it also
has a registry of `DomainHook`s for them, in which `main.go` registers none, so that
what is said here of hooks is about the mechanism.  `sharedaccess` takes relayers from `relayer`, submits through
`network`, and verifies approvals against the signer `users` records; wallet
recovery in `users` replaces that signer; a primary wallet is a group, too
(`users/services/services.go:305-336`).  `callbacks` hands webhooks to `kyc`
and `fiat`; `kyc` starts the onboarding of `stablerail`; `servicelinks` sets a
level in `users`.  Selling an asset in `tokenization` signs with the key that
`fiat` invoices were signed with.  The history engine reads the chain and the
users' tables.

### What makes them correct

- shared access: an action takes effect at most once and only with its
  approvals; database and Safe agree; nothing is left in flight for ever.
- relayer pool: one holder per relayer, none lost, none duplicated.
- market: an offer is not traded beyond its quantity or limit, nor after it ended.
- history engine: no transfer of a tracked wallet is missing below the cursor.
- users and recovery: the signer on record owns the wallet; the recovery service
  is an owner only under its guard.
- providers and spending: every event has its effect at most once, however often it is
  delivered, what a Safe executed is paid out and booked at most once, and no row
  claims an effect that did not happen.
- tokenization: what the database names was fully submitted, fees follow vetting, and
  sales open and close on their dates.
- grants (levels, memberships, partner tokens): each has what it takes.
- watcher: a cached answer is dropped when a watched block touches its address.

## 2. Plan

1. `GroupWallet`, `SharedAccess` - the core: what members are promised and how the
   backend keeps it.  Done and proved, but for the two properties of `sa_members`,
   which one request at a time has and two have not.
2. `RelayerLease`, `RelayerPool` - done and proved, the refinement with them.
3. `Market` - offers, matching, two-leg settlement.  Done; types and limits are
   proved for any number of matchers, the rest is model-checked.
4. `HistoryEngine` - indexer, sweep, backfill and the chain.  Done and proved.
5. `Accounts` - registration, deployment and both recoveries.  Done and proved.
6. `Fiat`, `Crypto`, `StableRail`, `Kyc` - providers against rows.  Done and proved.
7. `Tokenization`, `WalletCalls` - assets, and what spends from a wallet.  Done and proved.
8. `Patron`, `ServiceLinks`, `AddressWatcher` - done and proved.
9. `Services` - the components of 5, 6, 8 and `WalletCalls`.  Done and proved.

Left: `PackSignatures`, the order of signatures as a pure operator against its
reference.

## 3. Modules

| Module | What it models |
|---|---|
| `GroupWallet` | abstract: propose, approve, land; an action lands once, with the approvals it needs |
| `SharedAccess` | one group: its rows, the request goroutines, the expiry sweep, boot, the pool and the Safe |
| `SharedAccessProofs` | theorems about `SharedAccess` |
| `MCSharedAccess` | constants for TLC |
| `RelayerLease` | abstract: a relayer has one holder |
| `RelayerPool` | `internal/relayer`: channel, map, callers |
| `RelayerPoolProofs` | theorems about `RelayerPool` |
| `MCRelayerPool` | constants for TLC |
| `Market` | `market`: the order book of one pair, placements, settlements, cancellations |
| `MarketProofs` | theorems about `Market` |
| `MCMarket` | its instance for TLC |
| `HistoryEngine` | the history engine: live watcher, sweep, backfill, and the chain |
| `MCHistoryEngine` | its instance for TLC |
| `HistoryProofs` | theorems about `HistoryEngine` |
| `Accounts` | `users`: accounts, primary wallets, account recovery, wallet recovery, its platform |
| `Fiat` | `fiat`: invoices, the activation faucet, and the node's order of one key's transactions |
| `Crypto` | `crypto`: deposits and withdrawals through the exchange |
| `StableRail` | `stablerail`: onboarding, on-ramps, and their poller |
| `Kyc` | `kyc`: two vendors' webhooks; extends `StableRail`, whose onboarding it starts |
| `Patron` | `patron`: subscriptions and their promotion |
| `AddressWatcher` | `network/watcher.go` with the cached answer it drops |
| `ServiceLinks` | `servicelinks`: partners, consent, callbacks, documents |
| `WalletCalls` | `payments`, `swaps`, `assets`, and purchases, early exits, fees and interest of `tokenization` |
| `AccountsProofs` | theorems about `Accounts` |
| `MoneyProofs` | theorems about `Fiat`, `Crypto` and `WalletCalls` |
| `Services` | the nine modules from `Accounts` to `WalletCalls` side by side |
| `ServicesProofs` | theorems about `StableRail`, `Kyc`, `Patron`, `AddressWatcher`, `ServiceLinks`, and about `Services` |
| `MCServices` | their instance for TLC |
| `Tokenization` | the life of one asset: application, vetting, fee, minting, sale |
| `TokenizationProofs` | theorems about `Tokenization` |
| `MCTokenization` | its instance for TLC |

### SharedAccess

State and code:

| Variable | Code |
|---|---|
| `group`, `role`, `action`, `approvals` | the four tables, restricted to one group; `RequiredApprovals` is `required`, `To != ""` is `onChain` |
| `signer` | `users.signer_address`: the key that must sign for a member (`resolveGroupOwnerSigner`) |
| `safe`, `txs` | the Safe on chain and the `execTransaction` calls given to the network; external |
| `busy` | the relayers the pool marks in use |
| `proc` | goroutines: `Requests` serve HTTP calls, `Sweeper` is the loop of `main.go:408`, and a goroutine named after an action waits for it since boot (`ReconcileRelayers`) |
| `hooks` | what the domain component was told |

A request reads a row once and later writes *all* of it with `DB.Save`.  A
goroutine step therefore ends wherever another goroutine's read or write can come
between, and the columns such a save overwrites are written from the goroutine's
copy.  Database transactions are one step.

| Action | Code |
|---|---|
| `ProposeCheck`, `CreatePendingAction` | `Propose*` up to `createPendingAction`, and that function with `reserveSafeNonce` |
| `ApproveAction`, `RecordApproval`, `TallyAndMaybeExecute` | `ApproveAction` before and after its check for an existing approval; `tallyAndMaybeExecute` |
| `ExecuteLocally` | `executeDisableGroup`, `executeMembershipOnly` |
| `Submit`, `SubmitError`, `SubmitErrorAfterBroadcast` | `Claim` and `SignAndSubmitTx`, and their failures |
| `SaveSubmitted`, `SaveSubmittedFails` | `executeAction`'s save |
| `ReceiptSuccess`, `ReceiptReverted`, `WaitGivesUp`, `SaveResultFails` | `awaitExecution`; the save that is refused may be that of a receipt's outcome or of a wait that gave up |
| `FinishExecution`, `ApplyMembershipSideEffect` | the hook, the deferred `Release`, the membership rows |
| `RejectAction`, `ExpireStalePendingActions`, `SaveRejected`, `RejectedHook` | `RejectAction`, `ExpireStalePendingActions` |
| `Restart` | process stop, `ReconcileRelayers`; its scan may fail, and then nobody waits for the `SUBMITTED` rows and no relayer is held back |
| `Mine`, `RotateSigner` | external: the chain, and wallet recovery |

Abstractions.  Members are numbers, whose order is that of their addresses, since
the Safe reads signatures in that order.  A signature is who made it and with
which key; the digest it covers is that of its action, so it is good for that
action only.  Every kind of payment, swap and contract call is `payment`.  The age
of a row is not modelled: any `PENDING` row may be stale.  `SubmitError` covers
every early return before the broadcast.  A `SUBMITTED` row always names its relayer
and transaction, so the branch of `ReconcileRelayers` for those that do not is never
taken.  Transactions of one relayer are mined
in order.  A transaction that passes the Safe's checks may still revert when it is
a payment.

### RelayerPool

`Claim` and `Release` are two steps each, the channel operation and the map
update.  `ReserveAtStartup` is one step per turn of its loop, and nobody claims
before it is done, as its comment requires and `main.go:297` respects.
`StrayRelease` is a `Release` by somebody that does not hold the relayer; it is
part of `AnySpec` only.

### Market

`offer` and `trades` are the two tables, restricted to one pair; `proc` holds the
goroutines that serve `PlaceOffer` (`Matchers`) and `CancelOffer` (`Cancelers`).
Nothing there is in a database transaction, so each statement is a step, and a
matcher works on copies: its own offer as of the last reload, the counter offer
as of the query.

| Action | Code |
|---|---|
| `PlaceOffer` | the insert in `PlaceOffer`; its validation lets only these values through |
| `FindBestCounterOffer` | a turn of `matchOffer`'s loop up to `settleMatch` |
| `TransferBase`, `TransferQuote` | the legs of `settleMatch`; either may fail, for want of balance or allowance or because of the network, and the side that owes is canceled |
| `RecordBuy`, `RecordSell`, `RecordTrade` | the three statements of `recordTrade` |
| `Reload` | the read that ends the turn |
| `StatementFails` | the database refuses any one statement of the matching: the loop ends, or it goes on as if nothing had happened |
| `CancelOffer`, `SaveCanceled` | `CancelOffer`, before and after its check |

Abstractions.  Prices and quantities are small whole numbers; a decimal's digits
and the rounding in `toBaseUnits` are not modelled.  `created_at` is the order of
insertion.  A leg that was submitted counts as moved, as it does in the code, which
does not wait for a receipt.  When a token's decimals cannot be read `settleMatch`
returns without canceling anything (`matching.go:158-170`); `matchOffer` does not see
that and tries the same pair again, which `StatementFails` does, too.  The quantity of a
match is positive, so its early return for one that is not is never taken.  A restart
is not modelled: nothing resumes a match after one.

### HistoryEngine

`chain` is a sequence of blocks, `userWallets` is what `wallet-backend` writes
(both external); `tracked`, `cursor` and `history` are the engine's three tables;
`live` and `back` are its two goroutines.  `liveFrom` and `backfilledTo` are history
variables: they record what was scanned and no step of the code depends on them.

| Action | Code |
|---|---|
| `LivePoll`, `LiveBuildRows`, `LiveSaveRow`, `LiveSaveCursor` | `RunOnce`: tip and cursor; tracked wallets and scan; each insert; the cursor |
| `Sweep` | `tracking.Sweep`, one step since only its goroutine writes `tracked_wallets` |
| `BackfillTip`, `BackfillNext`, `BackfillChunk`, `BackfillSaveRow`, `BackfillDone` | `backfill.Wallets` and `backfillOne` |
| `LiveFails`, `BackfillFails`, `Restart` | an error or a panic at any call; a process stop |

Abstractions.  A transfer is its index - that of its log, or 0 if it is of ETH - and the
wallets it touches; a block has one transaction, so that the unique index is on block
and index.  A block may hold transfers of one index.  The chain does not reorganise, and a node that named a tip can
serve every block up to it.  The list of tokens does not change.  Labels and
notifications are left out.

### Accounts

`user`, `wallets`, `members`, `groups`, `code` are tables; `safe` is the chain's
view of the primary wallets; `platform` is the row of
`recovery_platform_infrastructure` with what was deployed for it; `request` holds the
HTTP requests of several steps, each with its copy of the row.  `unrecorded` is a
history variable: the wallets whose swapped owner was not recorded.

| Action | Code |
|---|---|
| `Register`, `SetSecurityAnswer`, `SetAccountRecovery`, `Delete` | one statement or transaction each |
| `DeployPrimaryWallet`, `SubmitDeploy`, `RecordDeploy`, `CreateGroup` | `DeployPrimaryWallet`: read, submit, flag, `ensurePrimaryWalletGroup` |
| `ConfirmEnableWalletRecovery`, `AddOwner`, `SetGuard`, `RecordEnabled` | enrolment: two Safe transactions and a flag |
| `ConfirmDisableWalletRecovery`, `RemoveOwner`, `ClearGuard`, `RecordDisabled` | its end |
| `RequestRecoveryOTP`, `ExpireOTP`, `Recover`, `MoveAccount` | account recovery |
| `RecoverWallet`, `Swap`, `RecordSwap` | wallet recovery |
| `BootService` .. `BootSaveGuard`, `Restart` | `EnsureRecoveryPlatformDeployed` at boot |
| `Fail` | a statement or a call fails between two steps |

A Safe transaction takes effect when it is submitted, if its nonce is current and its
signer an owner; the receipt may be lost.  A deployment is not waited for
(`DeployLands`).  An address is that of a key or that of the key's Safe.  A primary wallet's
Safe changes by these operations only: that its group may add owners or change the
threshold through `sharedaccess`, or call the Safe in any other way, is not modelled
here, and `SharedAccess` does not have the guard and the recovery service.

### Fiat, Crypto, StableRail, Kyc

Each has its tables, a counter or set of what left the process (`dispensed`,
`sender.accepted`, `credits`, `payouts`, `asked`), and its requests or poller with
their program counters; a failure ends the request where it is and what was done
stays done.  Pollers are single goroutines (`main.go`); webhooks and requests race.

In `Fiat`, `sender` is the distribution key: `BuildFiatPurchase` takes its next nonce
without using it, `SubmitSignedTransaction` hands the transaction to the node, which
refuses a used nonce and what it has already, and may let a transaction with higher
fees replace a waiting one; `SendPause` is `tokenization`'s use of the same key.
A client may create an invoice with a transaction it has signed itself
(`fiat/controllers/controllers.go:78`); that one has nothing to do with the
distribution key (`Foreign`), and the client may broadcast it without being charged
(`BroadcastOwn`).  The row of a fiat subscription is written before anything is paid,
and neither `Fiat` nor `WalletCalls` claims anything of it.  A node that drops a
transaction that waits in its pool is not modelled in `Fiat`.

In `Crypto`, `debit` is the group's actions.  `ConfirmWithdrawal` approves whatever id
its client names: the debit proposed for the withdrawal, any other call of the Safe, or
a `local` action, which changes rows only.  An action that calls the Safe is executed
for one caller, since its nonce is used up then; a local action is executed for
everyone who read it `PENDING` (SA:957-979, 1157-1188).  Amounts are not modelled: that
the debit is as large as the payout is not shown by anything here.

In `Kyc`, progress rows are read in one step and written in another, since a webhook's
transaction does not lock what it read; `RaiseLevel` is the guarded UPDATE of the
level.  `reviewed` is a history variable: the levels some vendor passed.

### Tokenization

| Action | Code |
|---|---|
| `SubmitApplication` .. `UploadLogo` with `Save` | `application.go`, `documents.go`: read the row, edit the copy, save all of it |
| `Delete`, `DeleteRow` | the check and the deletion |
| `RequestMint`, `SignMintApproval`, `RecordSignoff`, `CountSignoffs` | sign-offs |
| `DeployAsset`, `MintReserved`, `DeploySale`, `MintInventory`, `MintFee`, `RecordMint` | `executeMint`; the fee mint is best effort |
| `SettleTx` | external: the chain, for each transaction that was sent |
| `ActivatePrimarySales`, `ActivateSecondarySales`, `PauseSale` | the worker, one asset per sweep |
| `FailTask` | a failed call or statement, or a stop |

Nothing here waits for a receipt: `SignAndSubmitTx` and `DeployContract` return when the
node has taken a transaction (`network/base.go:159-188`, `237-263`).  `chain` says of every
transaction of a token whether it was sent, landed or came to nothing (reverted, dropped
or replaced), and `SettleTx` decides that at any time after, in the order of its key's
nonces; a call of a contract that is not there comes to nothing.

Which fields a copy carries is reduced to the stage, the vetting, the window and the
token.  `IssuerAddress` and fees follow the vetting.  An application is saved under the id
in its body, so it may overwrite a row in any stage.  Both supplies of an asset are
positive.  That two mints race for one nonce of a derived key is not modelled (in `Fiat`
it is, for the key whose nonces are handed out long before they are used).  No route
sets `MintingApprovers`, so in the program as it is shipped `RequestMint` finds none and
minting cannot begin; the model has an asset whose approvers are set.

### Patron, AddressWatcher, ServiceLinks, WalletCalls

`Patron`: a request quotes in one step and records in another; the sweep chooses an
entry in one and writes it in another; days stand for dates and a month is a day.
`AddressWatcher`: the mutex makes each registration, choice of callbacks and cursor
update a step; head, logs and callbacks come between.  `callbacks` remembers the
chain's head at registration and whether the cursor was set.  `ServiceLinks`: handlers
read a row and save it later; `APIKeyAuth` is a step, what the request goes on to do
another.  `WalletCalls`: `spending` is the group's actions, `ApproveSpending` the answer of
`ApproveAction`: one caller is told that a call of the Safe was executed (`SharedAccess`
shows that it lands once), and everyone who read a local action `PENDING` is.  Every
confirmation takes any id, whatever its kind; who was told records it in a later step.
`bookings` counts the rows of purchases and early exits made for an action;
`paymentRow` has a unique key and a unique transaction hash, which is empty for all
local actions.  The cap counts the rows there are, those of fiat subscriptions included.

### Services

The components share no rows but those their modules mention, so a behaviour of
`Services` is one of a single component, `focus`, and the others stay where they
began.  The composition adds no interleavings between components; it lets one TLC run
check the eight of them.  What crosses components is modelled inside one
module: a partner's level and the onboarding in `Kyc`, the shared key in `Fiat`,
the group's answer in `WalletCalls` and `Crypto`, the sale in `WalletCalls`.

## 4. Runs

Bounds are constants of the configurations.  Faults are counted by `MaxFaults`.

| Run | Instance | Shows |
|---|---|---|
| `sa_races` | 3 addresses of which 2 are members, threshold 2, 2 requests, 2 rows that add the third address in two ways, 2 transactions, 2 relayers, 1 restart, no database fault | `TypeOK`, `RelayerExclusive`, `SubmittedIsAwaited`, `ChangesAreApproved` |
| `sa_failures` | 1 payment, 2 transactions, 2 of all four faults, 1 key rotation | `LandsAtMostOnce`, `ExecutedMeansLanded`, `ExecutedHookAtMostOnce`, `ImplementsGroupWallet` |
| `sa_members` | 3 addresses, 1 request, 3 rows of any kind, 2 transactions | `MembershipSynced`, `ApprovalsReachable` |
| `sa_live` | 1 payment, 2 transactions, 1 relayer, 1 fault | `SubmittedResolves`, `RelayerComesBack` |
| `pool` | 2 relayers, 3 goroutines | `PoolTypeOK`, `Exclusive`, `Conservation`, `ImplementsLease`, `ClaimIsServed` |
| `market` | 2 users, 3 offers of 1 or 2 units at 2 prices, 1 matcher, 1 canceler, 1 failed statement | `MarketTypeOK`, `BookUncrossed`, `RemainingIsUntraded`, `LimitsRespected`, `PriceTimePriority`, `MatchingEnds` |
| `history` | 2 wallets, 3 blocks with 3 transfers of 2 keys, polls of 2 and chunks of 1, floor 2, new and old database, 1 fault | `HistoryTypeOK`, `CoveredIsRecorded`, `CursorCatchesUp`, `WalletsGetBackfilled` |
| `tokenization` | 1 asset, 4 approvers of whom 2 must sign, 2 requests at a time and 3 in all, the worker, 2 tokens, a clock of 2, 1 settled transaction, 1 failure | `TokenizationTypeOK`, `RecordedMintIsSubmitted`, `SecondaryPauseIsSent`, `FeeStageIsVetted`, `SalesOpenAndClose` |
| `services` | 3 keys, 2 accounts, 1 code; 2 purchases and 3 webhooks; 2 networks and a withdrawal; 2 levels; an on-ramp and 2 onboardings; 3 grades and subscriptions, 3 days; 3 readers, 4 blocks, 2 lives; 2 partners, 1 approval, 1 document, 4 requests; 2 actions, 1 key, cap 1; 1 failure each | `ServicesTypeOK`, `GuardedWhileOwner`, `SignerInStep`, `EffectsAtMostOnce`, `RecordsHold`, `LevelIsEarned`, `GrantsAreEarned`, `CachedIsTracked` |

Two requests with the sweeper are enough for the races: each hazard is a pair of
goroutines over one row.  Two transactions let a retry meet its predecessor, and
two faults let both go wrong.  Two relayers make sharing possible, one makes
exhaustion possible.  Three rows let a payment outlive two changes of the group.
Three offers let a taker of two units fill two makers, or one maker two takers.
Three blocks, polled by twos and backfilled one by one from the second, let a poll, a
backfill and the chain overtake one another and cut off a last range.  Two requests race in `tokenization` and
`services` wherever a row is read and written in two steps, and a third comes
afterwards: a repeat of what was done.  Two tokens let an asset be minted twice,
three keys let a recovery meet a third party's registration, three webhooks let two
race and one repeat.  `MCServices` starts accounts at a first boot with one request, or
registered, or enrolled, with two; its requests and the keys other than the first are
symmetric.  `MCTokenization` starts with no asset, a confirmed application, or an
acknowledged fee whose mint one approver may have signed.  One settled transaction is
enough, since no property of the run is about what lands.

`GuardedWhileOwner`, `SignerInStep` and `CachedIsTracked` name the exceptions the code
leaves (below): a swap that was not recorded, a callback registered before the
watcher's cursor was set.

`sa_members` has one request and no fault, and `market` one matcher: what they show is
what the sequential logic guarantees, and the server does not serve one request at a
time.  With two, `RemainingIsUntraded`, `BookUncrossed`, `PriceTimePriority`,
`MembershipSynced` and `ApprovalsReachable` are refuted; `RemainingIsUntraded` and
`BookUncrossed` are also refuted after a failed statement, and so speak of the time
before one.  What holds for concurrent requests is in `sa_races` and `sa_failures`, and in
the theorems, `TradesWithinLimits` among them.

### Disagreements with the code's own words

Each of these runs refutes a sentence of the repository; `PROJECT.json` quotes it.

| Run | What happens |
|---|---|
| `sa_stranded` | a wait that gave up puts the action back to `PENDING`; its transaction lands and every retry reverts |
| `sa_restart` | a membership change is `SUBMITTED` when the process restarts: the boot-time waiter marks it `EXECUTED` and never applies it to the rows |
| `market_failed_leg` | a buy offer whose quote leg failed is canceled, and goes on being matched |

Seven more statements of the repository are definitions of the modules and have no run of
their own.  TLC refutes each when it is added to the configuration of the run named here.

| Statement | Run | What happens |
|---|---|---|
| `OneChangeInFlight` (SA:611-613) | `sa_races` | two changes of the members are in flight at once: the conflict check is a query of its own |
| `EveryTransferHasItsRow` (`models.go:14-17` of the engine) | `history` | a transaction sends ETH and has the first log of its block: both transfers have index 0 and one is dropped |
| `MintedIsIssued` (`wallet-backend/README.md:480-482`) | `tokenization` | `DeployContract` and `SignAndSubmitTx` wait for no receipt: an asset is `MINTED` although one of its transactions came to nothing |
| `SecondaryIsPaused` (`workers.go:51-53`) | `tokenization`, 2 settled transactions | an asset is in the secondary stage, and the pause of its sale came to nothing |
| `PaidOutIsDebited` (`withdrawal.go:127-128`) | `services` | a withdrawal is confirmed with the id of another executed action and paid out without its debit |
| `ActivationPaysOnce` (`fiat/services/services.go:250-252`) | `services` | two webhooks for one activation both make the faucet dispense |
| `SumsubAloneRaises` (`sumsub.go:211-213`) | `services` | a Dojah webhook raises the verified level, which Sumsub's is "the only way" to do |

Met while modelling, in the same models with other bounds:

- two approvals can both submit, since the status is checked long before
  `SUBMITTED` is saved; the loser's revert then puts an `EXECUTED` row back to
  `PENDING`, and two rows may come to reserve one nonce;
- after a refused save of `SUBMITTED` or of its outcome, the row can stay
  `SUBMITTED` with nobody waiting;
- a sweep or a rejection writes `REJECTED` over an action executed meanwhile, and the
  domain hears both outcomes (SA:1357), though its hook is called "once" (SA:132-135);
- a new database whose first live poll succeeds only after a backfill read its tip
  never scans the blocks between (`indexer.go:81`; the engine's `README.md:38-40` says the
  live watcher takes over there);
- a proposal can be recorded after its group was disabled;
- with two matchers an offer can trade twice, since each writes what remains of
  its own copy (`RemainingIsUntraded`), and a settlement under way writes
  `PARTIALLY_FILLED` over an offer that was canceled meanwhile;
- a wallet whose backfill failed, or was cut off by a restart, is never backfilled
  again: the sweep has recorded it as tracked (`BackfillFails`, `Restart`);
- the query of `ListPendingForMember` (SA:931) leaves out `INITIATOR_APPROVER`
  members; listings are not modelled.

Accounts:
- account recovery moves the account and leaves the key in its wallet's group; one
  one-time code can complete two recoveries that are under way together;
- `RecoverWallet` to a key that another account signs with swaps the owner and then
  cannot record it;
- a primary wallet counts as deployed after account recovery gave the account an
  address without one; a deployment that landed and was not recorded can never be
  recorded, since the next one's gas estimate fails;
- when installing the guard fails, the service stays an owner without a guard; the
  flag is not set, so `GuardedWhileOwner` does not speak of it.

Providers and grants:
- the faucet dispenses gas again after a failed reward, too;
- a local action is executed for two approvers that race, and can be paid out or booked
  by each of them, and by later requests for other actions of that kind;
- a client can broadcast the transaction of its own invoice without paying the invoice;
- a settled invoice's transaction may be replaced in the pool and never land;
- a credit or payout that failed is never tried again, and a first failure leaves
  some networks without a deposit address for good;
- two confirmations at once queue two upgrades of one member, and a sweep's late write
  covers an upgrade that was instant until the next sweep;
- an approval can be redeemed twice by concurrent calls, or again after a late save
  restored its row, though it is redeemed "exactly once" (`approvals.go:136-138`);
  a suspension or verification is lost when two administrators save one partner's row.

Assets and payments:
- a save of an older copy takes a minted asset back to an earlier stage; two last
  sign-offs that race, or a retry, mint two tokens of one asset;
- sign-offs survive a failed due diligence, so an asset can be minted unvetted, and one
  that failed after its mint is never mintable again;
- interest registered while a sale opens is never notified;
- `ConfirmFeePayment` does not ask whether the fee's action was executed, and no
  confirmation asks what kind of action it was given or whether it has been recorded;
- a new application saved under another row's id overwrites that row;
- one idempotency key on two proposals executes both, and the second record is
  refused; a crash between execution and record loses the record; the cap is checked
  when a purchase is built and used up when it is confirmed.

Watcher: a change between the read of the row and `Watch`, one before the first poll
has set the cursor, and one over a restart are missed until the entry expires.

What survives all of this is what the theorems say: the Safe's nonce makes an
action land at most once whatever the backend's rows say, a trade never leaves the
limits of its two offers, and what a Safe has executed is paid out and booked at most once.

### Fairness

`FairSpec` assumes that the chain mines what it accepted (otherwise `WaitForReceipt`
polls until its context ends), and that a goroutine that waits, saves or releases
is scheduled (`Resolve`).  Nothing is assumed of users, of the sweeper, or of
faults.  `PoolFairness` assumes strong fairness of a blocked receive: Go serves
the receivers of a channel in the order they arrived, so a receiver cannot be
passed over for ever.  Holders release, since `executeAction` releases on a
failed submission and `awaitExecution` by `defer`.  `FairMarketSpec` assumes that a
matcher keeps running (`WF` of `Match`), and `FairHistorySpec` that both loops of the
engine do: each has a goroutine of its own that nobody else can block.  In
`MCTokenization` the worker takes its steps (`WF` of `WorkerStep`), as `main.go:381` runs
it in a loop for as long as the process lives; nothing is assumed of requests.  That calls to
the node and the database return at all is an assumption about the environment;
the code sets no timeouts there.

## 5. Proofs

`tlapm` checks, in the eight modules `*Proofs`:

| Theorem | Says |
|---|---|
| `SharedAccessTyping` | `Spec => []TypeOK` |
| `ActionLandsAtMostOnce` | `Spec => []LandsAtMostOnce` |
| `ExecutedActionLanded` | `Spec => []ExecutedMeansLanded` |
| `ExecutionIsToldOnce` | `Spec => []ExecutedHookAtMostOnce` |
| `GroupChangesAreApproved` | `Spec => ChangesAreApproved`, an action property |
| `WalletPromiseKept` | `Spec => ImplementsGroupWallet`: `SharedAccess` refines `GroupWallet` |
| `RelayersStayExclusive` | without database faults, `Spec => []RelayerExclusive` |
| `SubmittedStaysAwaited` | without database faults, `Spec => []SubmittedIsAwaited` |
| `PoolTyping`, `PoolConserves` | `AnySpec => []PoolTypeOK`, `AnySpec => []Conservation` |
| `PoolExclusive` | `PoolSpec => []Exclusive` |
| `PoolIsALease` | `PoolSpec => ImplementsLease`: `RelayerPool` refines `RelayerLease` |
| `MarketTyping`, `TradesWithinLimits` | `MarketSpec => []MarketTypeOK`, `MarketSpec => []LimitsRespected` |
| `HistoryTyping`, `CoveredBlocksAreRecorded` | `HistorySpec => []HistoryTypeOK`, `HistorySpec => []CoveredIsRecorded` |
| `TokenizationTyping`, `RecordedMintsAreSubmitted` | `TokenizationSpec => []TokenizationTypeOK`, `=> []RecordedMintIsSubmitted` |
| `SecondaryFollowsPause`, `FeeStageStaysVetted` | `TokenizationSpec => []SecondaryPauseIsSent`, `=> []FeeStageIsVetted` |
| `AccountsTyping` | `AccountsSpec => []AccountsTypeOK` |
| `ServiceStaysGuarded`, `SignerStaysInStep` | `AccountsSpec => []GuardedWhileOwner`, `=> []SignerInStep` |
| `MoneyMovesOnce`, `MoneyIsRecorded` | what `EffectsAtMostOnce` and `RecordsHold` say of `Fiat`, `Crypto` and `WalletCalls`, each under its own specification |
| `ServicesTyping` | `ServicesSpec => []ServicesTypeOK` |
| `EffectsHappenOnce`, `RecordsAreTrue` | `ServicesSpec => []EffectsAtMostOnce`, `=> []RecordsHold` |
| `LevelsAreEarned`, `GrantsComeAfterConsent` | `ServicesSpec => []LevelIsEarned`, `=> []GrantsAreEarned` |
| `AnswersStayTracked` | `ServicesSpec => []CachedIsTracked` |

They hold for any number of members, requests, relayers, rows, transactions, faults,
cancelers, offers, prices, quantities, wallets, blocks and ranges; of approvers,
contracts and dates; of keys, accounts and codes; of purchases, webhooks, networks,
levels, grades, readers, partners, approvals, documents and actions.  They use the
`ASSUME`s of the modules alone: addresses are positive numbers and finitely many,
bounds are naturals, names of different kinds do not clash, the channel starts with
each relayer once, levels, lives and attempts start at one, and what is counted is
finite.  Two theorems, `RelayersStayExclusive` and `SubmittedStaysAwaited`, have a
hypothesis: the database refuses no save.  Section 4 says what happens otherwise.
`AccountsSpec` and `ServicesSpec` start at the first
boot; the run `services` also starts at states of registered and enrolled accounts.

Arguments.  *Typing* needs more than `TypeOK`: a goroutine at work names an
existing row, one that holds a relayer names the relayer and the transaction, and
so does a `SUBMITTED` row (`TypeInv`).  *At most once* rests on `LandInv`:
whatever copy of a row a goroutine writes back, the row keeps the nonce it was
created with (`RowEffects` sorts every step into saving, creating or leaving the
rows alone); a transaction is of an existing row; and one that landed has a row
whose nonce is below the Safe's.  So a second landing would need a nonce that is
gone.  The same invariant says that `EXECUTED` is saved by a goroutine that saw
its transaction succeed, and that no later save makes the row name another
one without that being true again.  *Relayers*: `HoldInv` adds that a `SUBMITTED`
row's waiter holds the relayer the row names; that is what makes rebuilding the
pool from `SUBMITTED` rows sound, and it fails once a refused save leaves a row
behind, hence the assumption.  *The hook*: `HookInv` says that a
transaction has one goroutine waiting for it, that the one about to tell saw it
succeed and has saved its row, and that what was told of is settled: nobody waits for
the transaction and a restart would not resume it.  *Approvals*:
`ApprovalInv` says that a goroutine past the tally has an action that its approvals
suffice for; approvals are only added, and the number required never changes, so they
still do when its effect reaches the group.  `SyncInv` adds that the action of a
goroutine which goes on to the members' rows has landed; so every change is owed to one
action that was approved, that asked for just that, and that the Safe executed if it
calls the Safe, also when two are under way at once.  *The promise*: a row created is
`Propose`, an approval `Approve`, and a transaction mined with success `Land`; everything
else the backend does, late saves and restarts included, is a stutter.
*Conservation* is inductive with
typing; *exclusiveness* (`LeaseInv`) adds that a holder's relayer is marked, and
holds from the moment the boot loop is done; a claim is then `Acquire` of the
lease when it takes from the channel, and a release `GiveBack`.  *Limits*: `MarketInv` adds that a
goroutine at work has a placed offer, and that one in a settlement has a pair that
may be matched; no step changes an offer's type, owner or price, so the pair still
may when the trade is recorded.  *History*: `CoveredIsRecorded` is not inductive,
because a poll may pass blocks without looking for a wallet tracked after it read
the table.  `HistoryInv` therefore gives every wallet a horizon: the tip its
backfill ended at, the tip the sweep under way read, or, before that, the chain's
own tip.  What the live watcher passed of a wallet's transfers has a row under its key
or is within its horizon, no step brings a horizon nearer, and a backfill that ends has
recorded every key up to it; so no interleaving of poll and sweep loses a key between
them, and a failed backfill makes no claim.  The unique index keeps keys apart
(`UniqueKeys`), and every row is a transfer of the chain, so what is under a key is that
transfer unless the block has two of the key.

*Tokenization*: a handler saves all of its copy over whatever the row has become, so
the row and every copy must be good by themselves (`GoodRow`): each names only a
contract of which everything was sent, and is vetted if it is in the fee stages.  In the
secondary stage it also has the pause of its sale sent (`Closed`), except for the copy
that is just about to send it.  What was sent stays sent,
whatever becomes of it (`Grows`), so a copy does not go bad while it waits.

*Accounts*: `RowsInv` says that a Safe belongs to one live row at most, `RequestInv` that a
request's copy still names that Safe.  `GuardInv` is about requests that
are *current*, whose nonce is the Safe's: the first transaction of an enrolment adds
the owner, the second installs the guard, and none that was signed for the same nonce
can come between.  `SignerInv` follows the owner a swap installed through the request
that has to record it.

*Money*: `FiatInv` counts the webhooks still on their way against what was done, so a
purchase settles once however many arrive; `CryptoInv` has the deposit's row written
before the credit, and two requests that carry the group's word for one action only if
that action is local.  `BookInv` in `SpendInv` counts, over the tables and the requests about
to record, at most one booking of an action that calls the Safe, and none of one that
was not executed.  *Grants*: `RailInv` follows
one on-ramp through its poller; `KycInv` says that a stale copy shows as passed only
what had been passed; `PatronInv` that what was chosen from the log stays due;
`WatcherInv` that a block behind the cursor was seen; `LinksInv` that what a call did is
remembered, whoever changes its row later.  A step of `Services` is a step of one
component that leaves the others alone, so `ServicesInv` is the conjunction of theirs.

Only model-checked: liveness (`SubmittedResolves`, `RelayerComesBack`, `ClaimIsServed`,
`MatchingEnds`, `CursorCatchesUp`, `WalletsGetBackfilled`, `SalesOpenAndClose`), which is out
of the prover's reach.  `MembershipSynced`, `ApprovalsReachable`, `BookUncrossed`,
`RemainingIsUntraded` and `PriceTimePriority` hold when requests come one at a time and
are refuted for two at once (section 4): a theorem about them would
need a hypothesis that the server does not give.

## 6. Not modelled

More than one group at a time (groups share nothing but the pool, which
`RelayerPool` covers for any callers; a relayer named by `SUBMITTED` rows of two
groups after a refused save is one of the hazards).  Creating groups and
sub-wallets.  Encoding and hashing, the order of packed signatures among them.  Gas
prices but for the replacement of a waiting transaction, and the depth of confirmation.
More than one user or asset where rows of different ones do not meet.  Administrators'
reference tables, uploaded documents of assets other than the logo, proofs of a fee's
payment, access lists of private offerings, the onboarding of users by partners.  The
components marked `not_modelled` in `PROJECT.json`: announcements, reference data,
rates, docs and short links are single rows, reads or proxied lookups; infrastructure
is libraries and configuration; the two clients keep no state the server shares but
through its API.
