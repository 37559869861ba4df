# Formal model of the LEZ programs

TLA+ specifications of the on-chain programs under `programs/`, of the off-chain code that
quotes and plans their transactions (`modules/`), and of the wallet session those are sent
from (`apps/shared/wallet`, `apps/amm`). They are checked with TLC on small instances, and every
invariant and action property the passing runs check is proved with TLAPS for every instance.
Liveness stays with TLC.

## 1. The system

Each program is a deterministic function from the accounts a transaction names to the
accounts it leaves, plus a list of *chained calls* to other programs. The runtime
(`lee_core`, not in this repository) resolves accounts, sets `is_authorized` on those that
signed or whose PDA seed the caller passed, runs the chained calls in order, and applies all
of the writes or none. State lives only in accounts; a program may change an account it owns
or one nobody owns yet (whose owner it becomes). Off the chain, a module (C++ over a Rust
library) reads accounts, prices or plans an operation with its own copy of the program's
arithmetic, and sends the transaction through the wallet core, another process.

| Component | State it keeps | Operations | Correct when |
|---|---|---|---|
| Token (`programs/token`) | definitions, holdings, metadata | transfer, new_fungible_definition, new_definition_with_metadata, initialize_account, burn, mint(_with_authority), print_nft, set_authority(_with_authority) | supply equals what holdings carry; one live master per NFT; only the authority inflates; only the holder is debited |
| AMM (`programs/amm`) | one config per namespace; per pool: reserves, tracked LP supply; vaults and LP token at the token program; current tick at the oracle | initialize, update_config, new_definition, add/remove_liquidity, swap_exact_input/output, sync_reserves, withdraw_protocol_fees, create_price_observations, create_oracle_price_account | vaults cover reserves, liquidity can leave but never all of it, rounding never favours the caller, the tick is the reserves' tick |
| TWAP oracle (`programs/twap_oracle`) | per source: current tick; per source and window: ring of observations, published price | create_* (3), update_current_tick, record_tick, publish_price | the published price is the mean of the recorded ticks over the window, carried on for a bounded time |
| Stablecoin (`programs/stablecoin`) | positions and vaults, stability-fee accumulator, redemption price, rate and integral, parameters | initialize, open/close position, deposit/withdraw collateral, generate/repay debt, accrue, refresh, update/reset redemption rate, 7 setters, freeze/unfreeze | every coin is owed by a position; fees are minted once; no step moves a debt or the price at that instant or makes a sound position unsound; the controller stays in its band |
| ATA (`programs/ata`) | none of its own (token holdings at derived addresses) | create, transfer, burn | create is idempotent; only the owner moves |
| Faucet (`programs/token_mint_authority`) | one allowance per recipient and definition | faucet_mint | at most one grant per cooldown |
| AMM module (`modules/amm`) | the quote shown | quote and submit each pool operation | what is quoted can be executed, moves what was shown, within the tolerance |
| Stablecoin module (`modules/stablecoin`) | none | plan each instruction, rate quote, health page | plans exactly what the chain accepts |
| Wallet session (`apps/shared/wallet`) | session, polls, jobs waiting for `lez_core`, settings on disk | open, create wallet/account, refresh, cancel, disconnect, start | closed stays closed, open keeps refreshing, syncing ends |
| AMM application (`apps/amm`) | backend: context revision, deployment in use; card, another process: its copy of the revision, quotes, the dialog | quote, confirm and submit, registry refresh | a swap is submitted where what the user confirmed was priced |
| Token and oracle modules, token application, guests, tools | none | build, decode, display | not modelled (section 6) |

How they interact: AMM chains into Token (transfers, LP mint and burn, initialisation) and into
the oracle (creation, `UpdateCurrentTick`); ATA and the faucet chain into Token; Stablecoin
chains into Token and reads the oracle's price account. Everybody can also call Token and the
oracle's `RecordTick` / `PublishPrice` directly. That is what makes them hard: the pool and the
oracle each keep a second copy of state another program owns (reserves / vault balances,
tracked LP supply / LP definition, current tick / reserves, collateral on record / vault), and
*any* user's transaction may come between two others. Inside a transaction there is no
concurrency and no partial failure. Off the chain it is the reverse: a quote is stale as soon as
it is shown, a transaction may never land, and every call to the wallet core is answered late,
twice removed from what the user wants by then, or by a timeout. The hazards, each with its
line, are in `PROJECT.json`.

## 2. Modules

| Module | Role | Proofs |
|---|---|---|
| `Token` | the token program | `TokenProofs` |
| `TokenPrograms` | ATA and faucet, over the whole of `Token` | `TokenProgramsProofs` |
| `Amm` | one namespace and one pool, with the token ledger under it | `AmmProofs` |
| `AmmClient` | the AMM module's quotes and submissions, over `Amm` | `AmmClientProofs` |
| `TwapOracle` | the oracle for one source and one window | |
| `PriceFeed` | abstract: what the oracle promises, without ring buffer or accumulator | |
| `TwapHistory` | `TwapOracle` with a log of what it recorded; refinement mapping to `PriceFeed` | |
| `PoolOracle` | a pool of the AMM as the oracle's price source, over `TwapHistory` | `TwapProofs` |
| `StablecoinMath` | fixed point, compounding, controller step, collateral test | |
| `StablecoinController` | redemption price, controller, administration, the oracle account read | |
| `Stablecoin` | positions, debt and stability fee, over `StablecoinController` | |
| `ControllerClient`, `StablecoinClient` | what the stablecoin module plans and shows, over each of the two | `StablecoinProofs` |
| `WalletSession` | controller and provider of the wallet, `lez_core`, restarts; implements `SessionContract` | |
| `SessionContract` | abstract: what an application may rely on of its wallet session | |
| `AmmApp` | the application's swap card, its dialog and the backend, over any session that keeps `SessionContract` | `WalletProofs` |
| `NumberTheorems` | rounding, remainders, least counterexamples and finite sums, for the proofs | itself |
| `MC*` | instances for TLC | |

**One action is one transaction**, or off the chain one call, reply or timer. Handler checks,
checks inside the chained calls, and the runtime's own are all conjuncts of the action: if one
fails nothing is written, so the action is not taken. Where a property says what *can* be done, the
checks are a definition of their own: `CanAddLiquidity` is everything `AddLiquidity` can be refused
for, and `AddLiquidity` is that guard and the assignments that follow it, which cannot fail. So
"this transaction would succeed" is an ordinary state predicate, which can be proved about.
Definitions under a comment `Slip:` are the following definition with a plausible mistake; no action
uses them, and each is used to confirm that a property notices it.

### Token
`account` maps each id to a tagged record (`Default` for an unused account). `Transaction(S)`
lets any subset of the accounts taking part be `is_authorized`, and records it in `authorized`,
so properties can speak of who authorised a step. `Foreign` accounts belong to some
other program and hold, from the start, data shaped like the token program's (`Spoofed`):
`Transfer`, `Burn` and `PrintNft` do not look at who owns what they are given and rely on the
runtime refusing the write (`OwnershipRespected`). An action per instruction; `mint_inner` and
`set_authority_inner` are shared as in the code. The runtime names each account once in a
transaction (`Distinct`).

### TokenPrograms
Each action conjoins the program's own checks with the token action it chains, which sees as
authorised exactly the derived address whose seed the program passes. `signed` is who signed the
transaction; a derived address never does. `associated` is the address hash as an injective table. Every token instruction stays available to every key holder (`UserStep`), so
transfers, burns, opening of associated addresses and grants interleave freely.

### Amm
`holding[t][h]` is the token ledger the pool's tokens live in, for both sides and the LP token.
`opened` says which holdings exist: one is made by `OpenHolding` (`initialize_account`) or by the
first transfer to it, and has balance zero before. A handler that checks the owner of a
holding, as swaps, deposits, removals and the withdrawal of protocol fees do of the user's, asks that it
exist (`HoldingsExist`); of an LP holding a deposit only asks what the token program does. `taken` has the
addresses another account sits at (`Squat`), as a transfer of some other token leaves one at any unused
address: `transfer` never asks a fresh recipient, and its comment leaves that to the runtime to prevent
(`transfer.rs:100-108`). Whether the runtime does is not in this repository, so `Squattable` says
which addresses it leaves open. A pool is not created while one of its own is taken
(`PoolAddressesFree`), and no fee is collected in a holding that is.
`reserve`, `liquidity_pool_supply`, `initialized` are the pool account, `config` the namespace,
`tick` the current-tick account. `TokenTransfer` and `BurnLp` are the users' own calls to
the token program: donations to a vault, LP burns the pool does not hear of. Arithmetic is exact
with one rounding per operation, as in `amm_core` (U256 intermediates). `price_to_tick` is a
parameter: properties must hold whatever it is; TLC uses an injective one.

### AmmClient
`intent` holds what each client was last quoted, the bounds derived from it, and whether it was
sent; `Land` executes the planned instruction on the pool as it is by then, `Vanish` is a
transaction that fails or is never taken. A pair is shown in either order, and every quote and
plan converts, as `modules/amm/ffi` does. `Outsider` is everybody else. `CanExecute` says whether the
plan of a quote would pass the program now. A quote looks at the pool alone: that the user's holdings exist
and can pay (`Funded`), and that no address is taken, are conditions of `QuotedMeansExecutable`. Clients open
their holdings and strangers take addresses between the steps.

### TwapOracle, TwapHistory, PriceFeed, PoolOracle
`clock` is the canonical clock account, which never runs backwards. An instruction that returns
its accounts unchanged (recording too early, publishing before two observations) is a stuttering
step. `ClaimCurrentTick` and `ClaimObservations` let another program take an unused address.
Integers are unbounded: the clamp bounds every saturating difference and the i64 accumulator
lasts more than three centuries. `PriceFeed` has only a growing log of samples and states the mean
as a sum over the last samples; `ImplementsPriceFeed` shows the ring and its running sums compute it.

`PoolOracle` adds whose oracle it is. Any program may be a price source and name its first tick
and price; a pool of the AMM cannot: `NewPool`, `MovePrice` and the AMM's own `create_*`
instructions chain the oracle's with the tick and the spot price on record. Keepers and outsiders
act on both kinds. Of the pool only the spot price is kept, since `TickFollowsReserves` in `Amm`
says the price reported is that of the reserves.

### StablecoinController and Stablecoin
The clock, the oracle account (absent, of another pair, at zero, stale or fresh, written at any
moment by its owner), the parameters and the redemption state are shared by all instructions.
Reads project an anchored value to now (`project_forward`), for one compounding window at most;
only some instructions store the projection. `compound_rate` is the code's exponentiation by
squaring with each product rounded down, as a loop that takes one turn per millisecond: the turns after
the exponent has run out change nothing. Debt is normalized by the accumulator. A vault is a
balance beside the record of it, and `Donate` makes them differ. All users' collateral outside
vaults is one purse and all their coins one balance, since they can pay each other.

### ControllerClient and StablecoinClient
Each operation is a predicate of the state the module reads, true when it submits the
transaction: first what the C++ module requires of its reads, then the Rust planner, with the
second implementations the planner uses (`checked_accumulator`, `checked_debt_delta`).
`ControllerPlansAgree` and `PositionPlansAgree` compare it with the program's guard for the same
instruction, in both directions.

### WalletSession and SessionContract
A job is a chain of asynchronous calls, with the stage whose reply it waits for. The code stamps
jobs with generation counters and compares them with the current ones; a job here carries the two
outcomes, `wanted` (the controller's) and `live` (the provider's). While `flaky`, a reply may be a
failure or the SDK's timeout; `Steady` ends that once. `Restart` ends the application in any state:
only `disk` and `core` outlive it. `Init` is the first start, with or without a stored wallet, which
another application may have open already.

`SessionContract` is what `WalletUiState` promises: `identities`, the accounts, change and the wallet
becomes ready only in a step that also changes `sessionRevision`. `KeepsTheContract` maps the whole
session to it. The revision is compared with the previous one only, so both keep it modulo 2.

### AmmApp
`revision` is `swapContextRevision` of the backend. `SessionStep` is any step of the contract with the
`syncWalletState` that follows it, which compares as the code does (`walletContextChanged`). A registry
change is three steps, `RegistryChanged`, `SetAmmProgramId` and `SetConfigId`: the revision moves first, and
between the calls, each of which may fail unnoticed, the module has the program of one deployment and the config
of another. Those calls block the backend; of its calls only the creation of a wallet runs an event loop.

The card is another process. `replica` is its copy of the revision, which may skip values and lag as long as it
likes. A quote in `asked` has the copy it was asked with and, once `AnswerQuote` has happened, the context it
was priced in; it is shown if the copy is the same by then (`isStale`). The dialog's snapshot
(`buildSnapshot`) has the copy, the quote shown and the holdings chosen from the last list, which is of
whichever session answered. `executeSwap` compares the snapshot with one built at that moment; of the quotes they
compare amounts, so another quote of the same amounts passes, and `executeSwap` lets any pass. `Accepts` is
the backend's decision on the call. Quotes and calls can be lost at any time. The context of a quote is
remembered, in place of its amounts, so that `SwapGoesWhereQuoted` can compare it with the context the
backend submits in.

## 3. Runs

| Run | Bounds | Shows |
|---|---|---|
| `token` | 4 ordinary accounts, 1 foreign, `U128_MAX` = 2 | backing, one master, supply, and who may debit, mint and renounce |
| `token_programs` | one fungible token, 2 owners with an associated address each, the faucet; amounts to 2, one grant of 1 per unit of a clock to 1 | ATA and faucet among all token instructions |
| `amm` | 2 users, the second starting without any holding, inputs 1..3, fees {0,1,4}/4, protocol fees {4,5}/4, lock 2, balances 4, the pool's address to take (71 056 states) | solvency, tick, rounding and share value through every instruction |
| `amm_client` | a client and an outsider, inputs {1,3}, tolerances {0,2}/4, balances 3 and 0 of the client, 3 and 4 of the outsider, 2 addresses to take, one transaction in flight (139 523 states) | quotes, plans, tolerances and exits while the outsider trades |
| `twap` | a pool or another program as source, ring of 3, window 7 (interval 2), clamp 2, tail bound 1 interval, clock to 8 | oracle invariants and the refinement, for pools and for other sources |
| `stablecoin_controller` | 1.0 = 10, band 10..20, clamps 2, window 2, clock to 3, 2 signers, 2 oracle addresses, one never born | band, clamps, no jump, no wind-up, agreement of the module's gates |
| `stablecoin` | 1.0 = 4, band 2..6, 2 positions, amounts {0,1,2}, 2 collateral, fees {3,4,6}/4, clock to 2 | debt, fee, soundness, exits, agreement of the module's plans |
| `wallet` | 2 requests of the user, 2 accounts, chain height to 2, 2 attempts, 2 failures (487 336 states) | the session's safety and liveness, and that it keeps its contract |
| `amm_app` | one set of accounts or none, 2 sequencers, 2 deployments, 2 revisions per start, one quote and one call at a time (356 208 states) | the fence between what is confirmed and what is submitted |
| `token_fresh_recipient` | as `token` | a documented rule the code does not have |
| `stablecoin_day_zero` | as `stablecoin_controller` | the module refuses an oracle its planners are written for |
| `wallet_fee_payer` | as `wallet` | a documented field that outlives the session |

Why these are enough. *Token:* three accounts are the most one instruction names, a fourth is the
bystander; two units are enough to split, print past the reserve of one, and overflow; the
ordinary accounts are interchangeable, hence the symmetry. *Token programs:* two owners can take
each other's part, both can hold at their own and at their associated address, and a clock of two
readings has a grant inside and one outside the cooldown. *Amm:* amounts 1..3 with fee
denominators of 4 and Q64 = 4 make every floor and ceiling round; fee 4 and protocol fee 5 are the
refused ones; the first user's 4 units fund a pool and several further steps. The second has nothing, not
even a holding: its holdings are opened or made by a transfer, and until then no instruction that names them
runs. The address to take is the pool's own, which stops its creation; `amm_client` has a fee holding's too,
which stops only what pays into it.
`U128_MAX` = 40 is above
the balances in circulation, so additions reach it only through LP arithmetic and prices.
*AmmClient:* the outsider's deposits, swaps, donations and burns move a small pool
between a quote and its block, past the tolerance and within it; a pool opened at a price and one opened
with amounts both occur. *Twap:* a ring of three wraps within eight ticks of the clock when sampled every
two; jumps of five ticks are beyond the clamp of two; negative ticks exercise floor division; intervals
larger than the sampling interval make tails and staleness occur. *Controller:* oracle prices of
zero, at the lower end of the band and above it reach both clamps and, from the one start price,
both ends of the band; three units of time exceed the window and the longest interval; arguments
just outside each band are tried. *Stablecoin:*
two units of collateral carry two positions of one, or one position with a loan of two; a fee of
6/4 rounds in every accrual; 3 is a refused fee; two units of time exceed the window of one; the
oracle quotes above the price, so the rate falls and takes the price to the lower edge of its band.
*Wallet:* two requests are one operation interrupting another, at every stage of its chain, and there is one more
poll after each; a block may appear between any two replies. *AMM application:* two revisions put the card
one and two behind, with a registry change, a session change or both in between; deployments and sequencers are
interchangeable, hence the symmetry. `MAX_PENDING` = 1 is what `swapInProgress` allows of calls; of quotes, and of
more calls and revisions, the theorem has any number.

`CHECK_DEADLOCK FALSE` is set where a bound lets the system come to rest: clocks that have run
out (`token_programs`, the stablecoin runs), users without the means to act (`amm_client`) and a closed
session (`wallet`, `wallet_fee_payer`).

### Fairness and liveness
`WalletSession` assumes weak fairness of five things that run without the user: a posted callback,
the reply to a call of a live job, the end of `createWallet`'s nested event loop, the poll timer and the
poll's reply. The code justifies each: Qt runs posted callbacks and timers, and the SDK answers every call,
if only with an empty value after its timeout. A reply need not be a good one; that replies are
good from some moment on (`Steady`) is the *hypothesis* of the second half of `SyncSettles`, not
fairness. Nobody is ever obliged to ask for anything.

`SyncSettles` is stated with `[]<>`: over and over the session is not opening, and over and over it is
either not at rest (still failing, blocks still coming, or closed) or synced and ready.

The programs have no fairness: every step is some user's transaction, and nothing in the code makes
anybody send one. What the code can promise is that a step stays *possible*. `QuotedMeansExecutable`,
`EveryClientCanExit`, `StaleFeedCanBeRecorded`, `NoPositionIsTrapped` and the two properties that compare
plans with the chain say so with the guards of section 2, as invariants.

### Properties worth a remark
- `ValueIsBacked`: empty holdings of undefined tokens do arise (zero transfer from a look-alike);
  the property is that none ever carries value.
- `SupplyConserved`: supply = sum over holdings, for fungible and NFT definitions alike.
- `FaucetSupplyIsRationed`: the allowance is the signer's, so naming fresh holdings gains nothing.
- `PoolIsSolvent`: vaults cover reserves, the minimum stays locked, the pool knows every LP token.
- `ShareValueNeverFalls`: `reserve_a * reserve_b / supply^2` never decreases, in any step.
- `QuotedMeansExecutable`: nothing the module has quoted is refused on the pool it quoted, by a check the
  module does not make or by a balance, a reserve or a supply at its width. Three refusals the module does not
  foresee are conditions of it: a holding of the user's that does not exist (the card offers only existing
  ones), too little in it, and a derived address that somebody else sits at.
- `EveryClientCanExit`: a removal asks for both of the user's holdings though it only pays into them
  (`remove.rs:93-100`), so the property is that the removal is executed or a missing holding can be opened.
- `SurplusLeavesOnlyBySync`: vault minus reserve shrinks only in a step that moves no token and leaves no
  surplus on either side, which is a sync and nothing else.
- `QuoteIsExact`, `ToleranceIsHonoured`: of what the user's own balances gained in the step, so
  that plans, display order and the program's arithmetic are all between the two sides compared.
- `RoundingFavoursThePool`: adding and removing, swapping there and back never profit; exact-output
  charges the least input that buys the output, when the reserve leaves room for it.
- `WindowIsSound`: spacing and order of the samples across the wrap of the ring, and a tick reported
  in this very block has no weight in the mean.
- `SoundPositionsStaySound`: it excepts time, a raised ratio, and a projected price outside its band,
  which is bounded when it is stored; at the lower edge that can make a sound position unsound.
- `PriceNeverJumps`, `DebtNeverJumps`: for the reader of that instant. The integral term, in contrast,
  is weighted with the whole gap since the last update, beyond the compounding window.
- `NoWindup`: a rate pinned at a clamp leaves it at the first update of the other sign.
- `SupplyIsOwed` (in `DebtCoversSupply`) is an inequality: loans round up, repayments and fee mints down.

### Where a document disagrees with the code
- The guest of the token program says a fresh recipient must be authorised
  (`programs/token/methods/guest/src/bin/token.rs:23`); `transfer` deliberately does not check.
- The stablecoin planners take a market-price oracle that does not exist yet
  (`modules/stablecoin/ffi/src/api/plan.rs:46`, `:407`, `admin.rs:176`). The C++ module refuses such a
  read before it calls them (`stablecoin_module_impl.cpp:1305`, `:810`, `:1467`), so a protocol
  initialised by other means with an unborn oracle cannot even have its fee accrued by `refreshGlobals`.
- `WalletController.h:31-32` says the fee payer is empty when the wallet is closed; `cancelSync` keeps it.

Smaller ones, met while modelling and stated here only:
`publish_price.rs:39-40` says the price account stays at timestamp 0 until something is published, while it is
created with a positive timestamp and the initial price (`create_oracle_price_account.rs:89`);
`programs/stablecoin/core/src/lib.rs:586-588` says the master holding "stays empty forever", while
accrual mints the fees to it and no instruction moves them out; `docs/stablecoin/README.md:677` says
record and vault agree after every operation, which a donation undoes until the next deposit;
`generate_debt` of zero is documented as a no-op, but checks the ratio and accrues; an observation
dated in the future counts as fresh; `set_admin` is one step, so a mistyped admin is final. In the
wallet: a `disconnect` during `createWallet`'s nested event loop is overridden when it completes
(`WalletController.cpp:192`); a creation whose save fails has switched the core's wallet but keeps
the old session (`:206`); `createAccount` applies its snapshot without a new generation (`:321`),
which the next poll repairs; a lost `list_accounts` reply reads as a wallet without accounts
(`LogosWalletProvider.cpp:737`). Deposits, withdrawals and new pools are submitted without the revision
check that confirmed swaps have (`AmmUiBackend.cpp:568` and after). A transfer of some *other* token to an
unused associated address occupies it, and `create` then refuses (`programs/ata/src/create.rs:33`).

## 4. What is proved

Every theorem is about the same definitions the runs check, for all values of the constants that
meet the named assumptions of the modules. These say what the code says: widths and scales are
positive, the reserved values are not accounts or numbers, the clamps are smaller than 1.0 and the band
is not empty (`ScaleAssumption`, `ControllerAssumption`, `BandAssumption`), the capacity of the ring
is positive (`CapacityAssumption`), a derived address belongs to one owner and definition and has no
key (`DerivedAssumption`), the faucet's grant is an amount (`FaucetAssumption`). `LedgerAssumption`,
`UserAssumption` and `PositionAssumption` make ids finite in number; they have 32 bytes, and sums over
them need it. `SupplyAssumption` has the users' balances of a token add up to a u128: they are its total
supply (`SupplyIsConserved` in `TokenProofs`), and that is what a definition stores. `RejectedAssumption`
keeps the module's rejection apart from its quotes, `SquatAssumption` has only derived addresses
taken. TLC evaluates all of them in the runs.

| Module | Invariants | Action properties | Refinement |
|---|---|---|---|
| `TokenProofs` | `TypeOK`, `ValueIsBacked`, `UniqueMaster`, `SupplyConserved` | `NoDebitWithoutAuthorization`, `AuthorityControlsSupply`, `RenouncedForever` | |
| `TokenProgramsProofs` | (`ProgramsInv`) | `OnlyTheOwnerMoves`, `FaucetSupplyIsRationed` | |
| `AmmProofs` | `TypeOK`, `PoolIsSolvent`, `TickFollowsReserves`, `RoundingFavoursThePool` | `ShareValueNeverFalls`, `SurplusLeavesOnlyBySync` | |
| `AmmClientProofs` | (`ClientInv`), `PoolIsSolvent` again, `QuotedMeansExecutable`, `EveryClientCanExit` | `QuoteIsExact`, `ToleranceIsHonoured` | |
| `TwapProofs` | `TypeOK`, `WindowIsSound`, `RecordedWalkIsBounded`, `StaleFeedCanBeRecorded` | `FreshnessIsTruthful` | `PoolSpec => HistorySpec`, `ImplementsPriceFeed` |
| `StablecoinProofs` | `TypeOK`, `AnchorIsBounded`, `DebtCoversSupply`, `NoPositionIsTrapped`, `ControllerPlansAgree`, `PositionPlansAgree` | `PriceNeverJumps`, `NoWindup`, `AccrualMintsTheFee`, `DebtNeverJumps`, `SoundPositionsStaySound` | |
| `WalletProofs` | `ClosedStaysClosed`, `RefreshStaysArmed`, `SwapGoesWhereQuoted` | | `KeepsTheContract` |

### Numbers
`NumberTheorems` has the facts the programs' arithmetic needs once and for all: what a quotient that
rounds down or up is worth when multiplied out (`FloorIsRead`, `CeilIsRead`), cancelling factors, remainders.
Sums over finite sets are `SumFunctionOnSet`, a recursive function; that they are integers, do not
depend on the order and change by what one term changes is shown by least counterexample
(`LeastNatural`, `LeastSet`), in place of induction theorems with an operator parameter.

### Token
One lemma per instruction says what it does to each account it names and that it
leaves all others alone (`TransferEffect`, `BurnEffect`, ...); `StepCases` gathers them. From them:
types are kept (`StepTypes`); a definition keeps its kind (`DefinitionsStay`); a holding gains units
only from a transfer of the same token or from its own definition (`ValueHasAnOrigin`); print rights
are created once, with their definition, and otherwise only move (`PrintsAreNotCreated`). The
inductive invariant is `TypeOK /\ ValueIsBacked /\ UniqueMaster`: `UniqueMaster` needs
`ValueIsBacked` to know that a new definition's id has no live master yet, since an id nobody
defined is named by holdings without value only; `ValueIsBacked` needs definitions to stay.
`SupplyIsConserved` adds up: `SupplyStep` compares, instruction by instruction, the change of the stored
supply with that of the sum over holdings, where only the accounts named have moved.

### ATA and faucet
`ProgramsInv` adds that a derived address carries nothing or a holding (it cannot sign to
become a definition or metadata) and that no allowance lies in the future. Each program's step is a
token step with the derived address authorised; `HoldingsStay` and the token program's own
`DebitsAreAuthorized` do the rest.

### AMM
`PoolInv` is solvency with what keeps it: fees are a part of the input (`FeesAreValid`), fixed before the
pool exists (`NamespaceFirst`), and no LP token precedes the pool (`NoSharesYet`). Four lemmas say what
opening, depositing, paying out and swapping move (`DepositMoves`, `PayOutMoves`, `SwapMoves`), four what the
handlers decide (`AddLiquidityDeposits`, ..., `SwapExactOutputIsPriced`): each deposit covers the shares
minted, each withdrawal is at most its share, each output is covered by the priced input. `ShareValueNeverFalls`
follows from those inequalities by multiplication; `ExactOutputIsTight` from the two roundings being
inverse to each other.

### AMM module
`ClientInv` is `PoolInv` with three more parts. `QuotesArePriced` says that every quote shown or in flight is
what its formula gives on the pool it read and the fee, which no step changes once there is a namespace.
`LedgersFit` says that the balances of each token add up to a u128, and `SharesAreBacked` that the square of
the LP supply is at most the product of the reserves: true of the root a pool opens with, kept since a
share's value never falls. The limits of a plan are not among those `Amm` tries, so each action of
`ClientNext` is shown to be a `PoolStep` again, which keeps all of these.

`OnlyLandingLands` singles out the steps in which a client's transaction takes effect, and one lemma per
operation compares what its plan moves with what was shown (`SwapInKeepsItsWord`, ...): with the same
operators on the same reserves it is equal, with others' trades in between the program's own checks of
the limits keep it within the tolerance, rounded once.

`QuotesCanBeExecuted` goes through the program's guard for each operation and finds every conjunct in
the quote or in the invariant (`SwapInIsExecutable`, ...). What the module checks itself it checks with the
same numbers; what it does not check is width. There `SwapFits`, `DepositFits` and `RemovalFits` show that a user
who holds what is moved cannot overflow a balance or a reserve, because both are parts of one supply, nor the
LP supply, because its square stays below the product of two u128 reserves. `ClientsCanExit` adds that a
removal whose shares are at least one of each token is always quoted (`RemovalQuoteIsAQuote`): a user's LP tokens are
within the supply, and the locked minimum keeps it above them.

### Oracle
`HistoryInv` has at its heart `RingIsTheLog`: slot by slot the ring is the end of the log of everything
recorded, through every wrap, and neighbouring sums differ by a sample's tick times its duration. The window
a publication averages is then a stretch of the log, and its running difference the abstract sum
(`OracleIsAPriceFeed`, a step for a step, everything else a stutter). `PoolIsAPriceSource` shows that the
AMM takes only steps any source may take, so all of it holds for pools. `StaleFeedCanBeRecorded` needs the one
fact a pool adds (`PoolHasItsTick`): with a history there is a current tick the oracle owns, which no step takes
away again; and a feed beyond the tail bound, a positive number of sampling intervals, is due.

### Stablecoin
`ControllerInv` is `AnchorIsBounded` with typed parameters; `LoopIsRead` turns the compounding loop into
facts about its turns, enough to know that a rate above 1.0 never shrinks an anchor and one of 1.0 keeps it.
`BankInv` holds the books together: the accumulator is at least 1.0, vaults cover what is on record,
the total is the sum of the positions' debts, a loan rounds up and a repayment and a mint of fees round
down. From the two the five action properties, by comparing what a debt or the price is worth at this instant
before and after each step.

The module's plans are compared guard by guard. `ModulePlansWhatTheChainAccepts` rests on
`RefreshMovesWhenDue` and `QuoteIsReady`: the module looks at what a refresh would change, the program at
elapsed time and the oracle. `PositionPlansAreAccepted` needs the books: the planner's own accumulator and debt
rounding (`SecondImplementationsAgree`) are the program's only where no subtraction goes below zero, and its check
that a repayment fits the position has to imply the program's that it fits the total. `OwnersCanLeave` uses that the
record is covered by the vault, and that rounding a debt up to coins and back down to normalized debt returns
the same debt when the accumulator is at least 1.0.

### Wallet
The invariants the run checks are not inductive. `OneRequest` says why they hold: the controller's and
the provider's generation counters move together, and before every new request, so at most one reply is
wanted and it is the live one. `FlagsAreTrue` and `ClosedIsQuiet` say what the flags then mean.
`SessionHonoursItsContract` goes through the actions of the session: accounts are written in two
places, closing and applying a snapshot, and both move the revision when it counts.

### AMM application
`FenceInv` says of everything that carries a revision, the quote shown, a quote asked for, the snapshot in the
dialog, a call under way, that the revision is not ahead of the backend's, and that if it is the backend's and
something was priced under it, the backend is in no call and the price is of the context of now. The one step that has to be
looked at is the registry's: it moves the revision first, so whatever is priced between the calls would carry
the new revision and the old or a mixed context. It cannot be, because the calls block the backend. A
session step moves the revision whenever it moves the context, by the contract and `walletContextChanged`.
`SwapsGoWhereQuoted` rests on `FenceInv` alone, `FenceHolds` on nothing of `WalletSession` but its contract.

## 5. What is only model-checked

- `SyncSettles`: liveness under fairness, which the prover does not do. It is the only property of a
  passing run without a theorem.
- That the guard `Can...` of an action is `ENABLED` of it. It is by the form of the actions (guard, then
  assignments to each variable once), and the runs fire every one of them.
- What `compound_rate` *computes* (that exponentiation by squaring approximates the power): that would be
  induction over data. Proved is what the properties need of it.
- The three runs that show a disagreement (end of section 3): a counterexample is one.

## 6. What is left out

- Runtime: signature checks, nonces, native balances and fees, PDA derivation, execution of chained
  calls one by one (they are one atomic step), and decoding of bytes: an account decodes
  only as the type it was written as. Transaction deadlines (validity windows) only refuse steps.
- AMM: several pools and namespaces side by side (accounts are disjoint by address), mints and
  burns of the underlying tokens, and a token account of the wrong token offered as a user's holding
  (refused). `PoolOracle` keeps only the spot price of the pool it is of.
- Oracle: price conversions, several windows (each has accounts of its own), i64 overflow.
- Stablecoin: sizes of integers (256 and 512 bit intermediates hold every product), and the master
  holding after the fees are minted to it.
- AMM module: parsing, Base58, address derivation, token listings, program discovery; the two oracle set-up
  plans (`create_oracle_price_account_plan` leaves the window to the chain to refuse).
- Stablecoin module: the same, and that it reads accounts one after another: the predicates take
  them at one instant, and the chain checks again what a torn read let through.
- AMM application: the quotes' other inputs (tokens, side, tolerance) and the card's second quote, of the
  pool, are guarded by the same rule as the quote; the card's copies of the wallet's state only disable its
  button. The *holdings* a swap names are not fenced: the list the card chooses from may be of an earlier
  session; the backend then submits with them, for the wallet core to refuse, and
  `SwapGoesWhereQuoted` says nothing of them. The accounts and the sequencer of the context are those the
  session last observed (`WalletController.h:14-15`: the core tells nobody of changes from outside). A restart of
  the application restarts the card. The revision also moves with three paths of the wallet's files, which
  change with a session. The other screens submit without a confirmation of this kind.
- Wallet: progress figures, balances, the reachability probe; downloads of the registry loader, which are
  reduced to what it publishes (its cache is keyed by the address after redirects, `RegistryLoader.cpp:241-244`).
- Token and oracle modules, token application: they build, decode and display, and decide nothing.
- Guests (generated dispatch), the IDL generator, packaging and build tools.

## 7. Plan

1. An abstract pool, shares of a product, that `Amm` implements.
2. `Amm` in place of the bare spot price in `PoolOracle`, so that the mean is one of reserves.
