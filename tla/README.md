# Solana momentum bot: specification and verification

TLA+ models of the trading core of the Solana momentum bot, the TLC runs that check them on
small instances, and TLAPS proofs for every value of the constants. Paths below are relative to
`src/solana-momentum-bot/src/`, short file names are given once with their directory.

    CupseyLane     MCCupseyLane     CupseyLaneProofs CupseySlotsProofs   cupsey_*.cfg
    EntryHalts     MCEntryHalts     EntryHaltsProofs                     entry_halts.cfg
    MainLane       MCMainLane       MainLaneProofs                       main*.cfg
    SwapOrder  SwapExecution        SwapExecutionProofs
    LiveSell       MCLiveSell       LiveSellProofs                       live_sell*.cfg
    KolLane        MCKolLane        KolLaneProofs                        kol_live.cfg
    KolFeed        MCKolFeed                                             kol_unwatched.cfg
    LaneWallet  PureWsLane  MigrationLane  CloseSerializer
    SharedWallet   MCSharedWallet   SharedWalletProofs                   shared_wallet.cfg

Who extends whom: `LiveSell` EXTENDS `SwapExecution`, which instantiates `SwapOrder` as its abstract
specification; `PureWsLane` and `MigrationLane` EXTEND `LaneWallet` and meet in `SharedWallet`. `SharedWallet` and
`CupseyLane` instantiate `CloseSerializer`, the abstract specification of the mutex that both use. The
other modules stand alone; what one of them says of a part another models in detail is a choice
there (a sell in `CupseyLane` succeeds, fails, or fails after it landed: what `LiveSell` allows).

`PROJECT.json` lists components, runs, mutants, the lines each definition stands for, findings,
hazards and theorems.

Contents: [1 the system](#1-the-system), [2 inventory](#2-inventory),
[3 plan](#3-plan), [4 the modules](#4-the-modules), [5 the runs](#5-the-runs),
[6 fairness](#6-fairness), [7 what is proved](#7-what-is-proved),
[8 what the models leave out](#8-what-the-models-leave-out),
[9 where code and comments disagree](#9-where-code-and-comments-disagree)

## 1. The system

One Node.js process. WebSocket ingest turns on-chain swaps into candles and ticks; triggers turn
those into signals; a *lane* (a strategy with its own handler, positions and limits) turns signals
into positions, watches them on every tick, and sells. PostgreSQL holds trades and the main lane's
positions; JSONL files hold executed buys and sells; everything else is in memory. There is one
wallet, and several lanes may hold one token in it.

The process is a single thread. What makes it hard is that every handler awaits: RPC, the
aggregator, the database. `index.ts` starts a tick call for every swap and does not wait for it, so
many calls of one handler are suspended at once, and whatever a handler read before an await may be
stale after it. The process may die between any two awaits; the wallet and the database then hold
what had reached them, and the recovery of each lane rebuilds the rest at start-up.

    ingest -> triggers -> gates -> lane handler (signal) -> executor (buy)  -> trade row, ledger
                                    lane handler (tick)  -> executor (sell) -> trade row, ledger
                                         |                                         |
                 halts, canary slots, wallet stop  <---- reports of closes <-------+
                                         ^
                 timers: auto-reset, wallet stop guard, wallet delta comparator

Unit of atomicity in every model: the code from one `await` to the next. Data that decides nothing
a property speaks of (prices, clocks, sizes, texts) is replaced by a choice of the branch it leads
to, so a model has every run the code has at this granularity, and some the prices would exclude.

## 2. Inventory

For each part: state; operations; interaction; what is hard; what makes it correct. The modules
named are those that model it; "-" means none yet (see `PROJECT.json` for the reason of each).

**Lanes**

- *Cupsey lane* (`orchestration/cupseyLaneHandler.ts`) -> CupseyLane. State: `activePositions`, position
  objects (STALK, PROBE, WINNER, CLOSED), `integrityHaltActive`. Operations: signal, tick, close,
  recovery. Shares the close mutex, the canary guard, the wallet, the trade store. Hard: overlapping
  ticks during a buy, closes queued twice, positions dropped while in flight, recovery of several rows.
  Correct when a position is bought once, sold before it is CLOSED, counted once, always watched.
- *Main lane* (`orchestration/signalProcessor.ts`, `tradeExecution.ts`, `tickPositionMonitor.ts`,
  `realtimeHandler.ts`) -> MainLane. State: rows of `trades` and `position_states`, execution lock,
  `exitInProgress`. Operations: processSignal, closeTrade from the polling loop, the tick monitor and pool
  events, partial exits, recovery. Hard: a lock without an owner and with a timer, a portfolio read
  before the lock, two exits of one trade, position updates by pair, a crash between any two writes.
  Correct when limits hold up to a bounded race, closed rows are sold, and recovery loses nothing.
- *Pure WS lane* (`orchestration/pureWs/`) -> PureWsLane, EntryHalts. A map of positions, in-flight marks,
  canary slots; signal, entry, tick, close, and an arm of swing-v2 that the same call opens with a buy and a row of
  its own. Hard: a slot taken before a buy that may land and throw, an orphan close when the wallet is empty, rows
  inserted late. Correct when every slot is given back, and one signal of a mint buys at a time.
- *Migration lane* (`orchestration/migrationLaneHandler.ts`) -> MigrationLane. Event, stalk, entry, close; shares mutex,
  wallet and guard with the pure WS lane; two lanes that hold one mint sell one balance.
- *KOL hunter lane* (`orchestration/kolSignalHandler.ts` and policies) -> KolLane, KolFeed, EntryHalts. Entries, tiers, partial
  takes and reduces, tails, recovery; a price feed that observations, entries and arms share. It does not use the
  close mutex: marks on the position order its sells. Correct when a position has one close at work, never beside
  its T1 take, every mark is cleared, and held tokens have someone to sell them.
- *Capitulation rebound, rotation policies, strategy triggers, entry gates, paper edge controller* -> -.
  Stateless arithmetic over floating-point series or network data: a lane model chooses their verdict.

**Shared guards**

- *Close mutex* (`orchestration/swapSerializer.ts`) -> CloseSerializer, and inside CupseyLane and LaneWallet. A promise chain
  that runs closes of all lanes one at a time in FIFO order, and survives one that throws. It is not reentrant. Correct when
  closes never overlap, keep the order in which they were asked for, and none waits behind nobody.
- *Canary concurrency guard* (`risk/canaryConcurrencyGuard.ts`) -> inside CupseyLane, KolLane, LaneWallet. A
  wallet-wide count of slots
  with a floor at zero.
- *Entry halts and canary auto-halt* (`state/entryHaltState.ts`, `risk/canaryAutoHalt.ts`) -> EntryHalts.
  Halt per lane; counters of closes, streak and PnL; reason last raised; timer; rebuild from the sell
  ledger. Hard: entries already past the check, two sources of halts that hide each other, the timer
  against late closes, the replay after a restart. Correct when a lane that spent its limits stays
  halted whatever else happens, loses a bounded amount, and is let in again when it may be.
- *Entry integrity* (`orchestration/entryIntegrity.ts`) -> EntryHalts and the lanes in part. Appends
  the executed buy, inserts the row, halts the lane when the insert fails.
- *Wallet stop guard* (`risk/walletStopGuard.ts`) -> CupseyLane as a flag. Overlapping balance checks are open.
- *Wallet reconciliation* (`risk/walletDeltaComparator.ts`, reconcilers) -> EntryHalts from the verdict on.
  Breaches in a row, a confirmed halt of every lane, what clears it.
- *Risk manager* (`risk/riskManager.ts`) -> MainLane in part: the same-pair block and the limit.
- *Risk policies* (`risk/`: drawdown, halts, sizing, quarantine) -> -. Mostly arithmetic.

**Persistence and execution**

- *Trade store* (`candle/tradeStore.ts`) -> CupseyLane, MainLane. `closeTrade` changes OPEN rows only;
  `failTrade` looks at nothing.
- *Position store and recovery* (`state/positionStore.ts`, `state/recovery.ts`) -> MainLane.
- *Execution lock* (`state/executionLock.ts`) -> MainLane.
- *Swap executor* (`executor/executor.ts`, `jitoClient.ts`) -> SwapOrder, SwapExecution. State: one order's attempt, its
  retry counters, the transaction under way and those given up. Operations: the Ultra route, the v6 attempts, the
  Jito bundle and its fall-back to RPC. Hard: a time-out says nothing of the transaction. Correct when an order is
  reported as swapped only after a fill, filled no more often than tried, and a tip deducted only if paid.
- *Live sell retry* (`executor/liveSellRetry.ts`) -> LiveSell, over SwapExecution. Finds out what is held, sells all or a part,
  sizes a retry from the balance. Hard: a try that lands late, an RPC node that lags behind the buy. Correct when
  it never reports as sold what is still held.

**Around the core** (-): realtime ingest, micro candle builder, scanner and discovery, external
data clients, operations and notifier, observability and research ledgers, backtest and replay,
configuration, scripts. *Start-up and interval loops* (`index.ts`, `init/`) are in the models as far as they decide what
may overlap what: recovery runs before listeners are attached, ticks are not awaited.

Hard behaviours, with their lines, are the hazards of `PROJECT.json`: 40, of which 31 are covered
by a property; the others say why none does.

## 3. Plan

Order of work, most important first; 1 to 7 are done.

1. **CupseyLane**, the smallest complete lane, and the pattern of all others.
2. **EntryHalts**, what stops every live lane from losing more.
3. **MainLane**, the lane with the database-backed positions, the lock and the recovery.
4. **SwapExecution** and **LiveSell**: one order through every route and retry, and a sale made of such orders, against the
   abstract **SwapOrder**.
5. **KolLane** and **KolFeed**: the largest lane, whose sells nothing serializes.
6. **LaneWallet**, **PureWsLane**, **MigrationLane**, composed in **SharedWallet**: two lanes that hold one mint.
7. **CloseSerializer** (`swapSerializer.ts`): what the mutex promises, and that the closes of CupseyLane and SharedWallet keep it.
8. *WalletStopGuard* (`walletStopGuard.ts`): overlapping balance reads and the operator's reset. Open.
9. *Partial exits* of the main lane (`tradeExecution.ts:1367`) and balances that lag (`tradeExecution.ts:826`), over the tables of
   MainLane. Open.
10. *MicroCandles* (`realtime/microCandleBuilder.ts`): late and out-of-order swaps, against a reference fold. Open.

Every invariant and action property of the passing runs has a theorem; what items 8 to 10 bring will need its own.

## 4. The modules

### CupseyLane

| state | in the code |
|---|---|
| `pos`, `activePositions` | position objects and the map from id to object; kept apart, since an object can outlive its entry and an entry can be overwritten by an object with the same id (pair and second) |
| `tick[t]` | one suspended `updateCupseyPositions` call: the await it is in, the position, and what it read before it (`prev` state, balance `seen`) |
| `closeMutex` | calls inside `serializeClose`, the head running |
| `survivalChecks` | signal calls suspended in the survival check, whose earlier checks are not repeated |
| `canary` | slots this lane holds |
| `tradeStore[o][k]` | the row inserted at entry, or the one the close inserts when it finds none; `mfe` is what lets recovery infer WINNER |
| `wallet[p]` | whose tokens of a mint are held; a sell takes the whole balance that was seen |

Actions follow the handler from await to await: `HandleSignal`, `SurvivalRejects`/`SurvivalApproves`; the stalk branches
`StalkSkip`, `StalkWalletStop`, `StalkEntry`, then `BuySucceeds`/`BuyFails`, `InsertSucceeds`/`InsertFails`; `Promote`,
`WinnerTick`; `StartClose`, `CloseBegins`, `BalanceRead`, `SellSucceeds`/`SellFails`, `CloseInsertSucceeds`,
`CloseTradeSucceeds`/`ClosePersistFails`. `Restart` is a crash at any instant followed by
`recoverCupseyOpenPositions`, which is over before any signal. Failures come with `landed`: the swap may have
happened although the call threw.

### EntryHalts

| state | in the code |
|---|---|
| `halt[l]` | halt of a lane, the source that raised it, whether its cool-down is over |
| `canary[l]` | trades, losing streak, PnL and the reason raised last |
| `comparator` | breaches in a row, `haltTriggered`, last verdict |
| `entering`, `open`, `taken` | entries past the check, positions, and what a partial sale has realized (in memory) |
| `ledger[i]` | the sell ledger: the lane states that replaying it from its i-th row on yields; a start may pass over any number of the oldest rows |
| `history[l]` | what the lane really closed, the yardstick the counters are compared with, and whether a replay can know all of it |

`LaneName` are lanes that differ in how they use these modules: cupsey ignores `isEntryHaltActive` and its rows
carry no PnL, swing-v2's rows name the primary lane, the rotation lane sells in parts. Actions: `EnterChecked`,
`EntryDropped`, `Bought`, `SellWhole`, `SellRest`, `CloseOrphan`, `Reduce` (lanes); `Cooldown`,
`CheckAndAutoResetHalt` (timer); `CheckDrift` (one poll of the comparator); `Restart`. A row is appended with the close
(`AppendEntryLedger`), unless the append fails, which nothing but the log notices. `Restart(first, read)` replays from the first row
within the look-back, which only moves on, or nothing when the file cannot be read or hydration is off. The exported
resets for an operator have no caller in the program and are left out.

### MainLane

| state | in the code |
|---|---|
| `locked`, `timeouts` | the execution lock, and how often its timer took it |
| `signal[s]` | one `handleRealtimeSignal` call: the await it is in, its pair, the position it created; `approved` is what the risk check says of the portfolio read before the lock, and falls when the order is rejected, fails or has its row |
| `exit[e]` | one trade's turn in an exit call: the await, who called, the balance seen |
| `exitInProgress` | the marks of the tick monitor |
| `pairOf`, `position`, `trade` | the two tables; an entry attempt names its position row, its trade row and its tokens |
| `recovering` | open position rows that start-up has still to visit |

Entry: `HandleRealtimeSignal`, `GetPortfolioState`, `AcquireLock`, `OrderRejected`, `CreatePosition`, `SubmitOrder`, `ExecuteBuy`
or `BuyThrows`, `PriceAnomaly` (the emergency dump), `ConfirmEntry`, `InsertTrade`/`InsertFails`, `StartMonitoring`,
`FailPosition`, `EntryStepThrows`, `ReleaseLock`; `LockTimeout` at any time. Exit: `TickStopLoss` or `PollExit` (the mark and
the lock are looked at by the first only), `GetTokenBalance`, `Sell`/`SellThrows`, `CloseRow`, `ConfirmExit`,
`FailTrade`/`FailTradeThrows`; `TickHighWaterMark` is the call that deletes a mark another call has set. Recovery:
`Restart`, then `RecoverEntry`, `RecoverExit` or `RecoverFails` for every open position; signals and exits wait (`Up`).

An exit call may name any trade that was ever opened: the cache of the monitor is a second old and the rows of
the polling loop were read before the awaits of the trades before it. After a restart this is wider than the code.

### SwapOrder, SwapExecution, LiveSell

`SwapOrder` is what a caller may rely on: an order is idle, working, swapped or failed; it may be filled at any time once it
was placed, at most `MaxFills` times; it is reported as swapped only after a fill, and as failed whatever happened.

| state of `SwapExecution` | in the code |
|---|---|
| `order[o].pc` | the call the order awaits: Ultra's order, execute, confirm, measure; a v6 quote, bundle, RPC send, confirm, measure |
| `attempt`, `retry429Count` | the loop counter and the rate-limit counter of `executeSwapWithRetry` |
| `tx`, `adrift` | the transaction of the attempt, and how many earlier ones were given up but may still land |
| `bundled`, `tipPaid`, `viaJito` | given to Jito; landed as a bundle; what `sendTransaction` returns, from which the tip is deducted |
| `fills` | how often the order was executed on chain |

Every awaited call may throw (`UltraThrows`, `BundleThrows`, `AttemptThrows`), whatever became of the transaction; the chain
(`TxLands`, `TxReverts`, `AdriftLands`, `AdriftExpires`) moves at will. The message that goes by RPC after a failed bundle is the same
one, so its signature executes once (`FallbackTx`). `LiveSell` adds the wallet, the age of the position as the
entry-transaction fall-back sees it, the amount each order asks for and the sale under way: `StartSale`, `ProbeBalance`,
`ProbeEntryTx`, `ProbeZero`, `ProbeThrows`; `FirstTry`, `TrySucceeds`, `TryThrows`, `RetryFindsSold`, `RetrySells`, `RetryReadThrows`.

### KolLane, KolFeed

| state of `KolLane` | in the code |
|---|---|
| `admitted` | triggers past the same-mint check, which the awaits before the entry do not repeat |
| `entry[m]` | `inflightLiveEntry` and where `enterLivePosition` is; after the instant exit it waits for that close |
| `pos`, `active` | live position objects: state, the marks of the T1 take and of the reduce, the deferred close; the active map |
| `call[c]` | a suspended close, take or reduce: the await, the state `prev` the close restores when it fails, the balance `seen` |
| `wallet`, `row`, `canary` | tokens by mint, trade rows, slots by sub-lane |
| `lost` | history: mints whose tokens no handler was told of (a buy that threw after landing, no row at a restart) |

Actions: `TriggerLive`, `AdmissionRefused`, `Enter`, `EntryRejected`, `AcquireSlot`, `BuySucceeds`, `BuyThrows`, `EntryOpens`,
`EntryOpensAndExits`; `Promote` (with the T1 take), `StartReduce`, `RequestClose`; `PartProbed`, `PartSold`, `PartThrows`,
`PartAppended`, `FallsBackToClose`; `CloseProbed`, `CloseSold`, `CloseThrows`, `ZeroConfirmed`, `CloseFails`, `CloseFinishes`; `Restart`. A
close that retains part of the balance leaves a `TAIL` in its parent's place.

`KolFeed` is the lane's price feed: the observed mints (`pending`), `subscribed`, `listening`, live entries in flight, paper
entries, and the arms of each mint. Everybody who ends calls `unsubscribePriceIfIdle` (`UnsubscribeIfIdle`), which knows of
arms and observations only. In `KolLane` a tick may therefore come to any live position; which ones it does come to is
`KolFeed`'s question.

### LaneWallet, PureWsLane, MigrationLane, SharedWallet

| state | in the code |
|---|---|
| `pos[p]` | a position object: STALK, BOUGHT (tokens whose object is still to be made), PROBE (every state of a bought position), REJECT, CLOSED, GONE (known to no handler of this process), its mint, its lane |
| `pos[p].slot` | history: it took a canary slot in this process |
| `call[c]` | a suspended signal, entry or close, the balance it saw |
| `closeMutex` | the calls inside `serializeClose`, of both lanes |
| `wallet[m]` | whose tokens of the mint are held; a close reads the balance and cannot tell |
| `row[p]` | `"none"`, `"CLOSED"`, or the strategy of an OPEN row |
| `canary[l]` | slots of pure WS, swing-v2 and migration |
| `inflight`, `tracked` | `inflightEntryByPair`; the `activePositions` of the migration lane |

`LaneWallet` holds that state and the steps that both lanes' closes share (`RequestClose`, `CloseBegins`, `SellSucceeds`, `CloseThrows`,
`CloseFails`). `PureWsLane`: `HandlePureWsSignal`, `SignalRejected`, `AcquireSlot`, `PrimaryBuys`/`PrimaryBuyThrows`, `PrimaryOpens`, the
swing-v2 arm `SwingBuys`/`SwingBuyThrows`, `SwingOpens`, then `EntryReturns`; `PureWsTick`, `PureWsBalanceRead`, `PureWsClosed`,
`PureWsPersisted`. `MigrationLane`: `OnMigrationEvent`, `MigrationRejects`, `MigrationReady`, `ProbeRejected`, `ProbeAcquires`,
`ProbeBuys`/`ProbeBuyThrows`, `ProbeRecorded`; `MigrationTick`, `MigrationBalanceRead`, `MigrationClosed`, `MigrationPersisted`. `SharedWallet`
composes them and adds `Restart`: a crash, then `runLaneRecoveries`.

`CloseSerializer` is what `serializeClose` promises: calls ask (`Asks`), one at a time is let in, in the order of asking (`Enters`), and
when it is over, by a result or a throw, the next may go (`Returns`; `Passes` for one that finds its position closed already and never
awaits). `SharedWallet` and `CupseyLane` implement it (`ClosesInTurn`): inside is the call past its wait (`Inside`), waiting
is `closeMutex` without it.

The MC modules add symmetry sets and the sets a cfg cannot write; no cfg replaces a definition of the specifications.

## 5. The runs

TLC, two workers, each within five minutes. "Distinct" is the number of distinct states, after symmetry.

| run | distinct | asks |
|---|---|---|
| `cupsey_live` | 460k | live trading behind the security gate, two signals of one pair in the survival check together, two positions, two overlapping ticks, a crash: single buy, sold before CLOSED, no more positions of the pair than signals overlapped and none let in beside an open one, every slot held by an object still at work, no sale for a position closed meanwhile, every queued close returns |
| `cupsey_second_position` | violation | is a pair in one open position, as the guard says? |
| `cupsey_lost_position` | violation | is a live bought position always watched? |
| `entry_halts` | 1.4M | a lane that sells in parts, two exposures, the timer, lost rows, one restart with any look-back: budget, window and streak stop it, the overshoot is what was exposed, the replay counts no close twice and, if nothing was lost, every one, and a halt of the canary that may end does |
| `main` | 1.5M | any two overlapping signals or exits over two trades of one pair or two, a lock expiry, a restart in every state: limit on positions and lock exceeded by no more than race and timer allow, closed rows sold, marks freed, recovery writes off nothing that is held |
| `main_over_cap` | violation | are there three concurrent positions at most, as `buy-entry-flow.md` says? |
| `main_unwatched` | violation | has a position that recovery puts under monitoring a trade row? |
| `live_sell` | 81k | one sale with one immediate retry, each try an order through Ultra, two v6 attempts and one rate-limit retry: the orders keep the promise of `SwapOrder`, nothing is reported sold that is held, tips are deducted if paid, the sale ends |
| `live_sell_late_fill` | violation | does a sale of a part leave the rest? |
| `kol_live` | 759k | two live positions of one mint, two suspended calls, one restart: one close at a time and never during the T1 take, a deferred close starts, tiers are kept, no slot, mark or token left behind |
| `kol_unwatched` | violation | is the mint of a live position polled? |
| `shared_wallet` | 891k | pure WS with its swing-v2 arm and migration on one mint, three positions, three calls, one restart: what is taken for sold is sold, the guard counts what is exposed, a mint is bought once, closes take turns |

Every property of a passing run has a mutant in `PROJECT.json`: an operator `X_Something` beside the definition `X` it
replaces (a dropped guard, an off-by-one, a missing reset) which makes the property fail in the same run.

Bounds, and why they are enough:

- *Two suspended calls* of each kind. The hazards here are pairs: a call reads before its await, another writes, the
  first goes on. The proofs of section 7 do not depend on the number.
- *Two positions or trades, up to two pairs.* Two of one pair sell each other's balance and share updates; two of
  different pairs compete for the lock, the limit and the slots. `main_over_cap` has four trades of three pairs, to go past a cap of three.
- *Three calls, three positions* in `shared_wallet`: an entry of one lane beside two closes, or the arms of one signal beside a
  position of the other lane; a cap of two, so that the guard refuses the third. One mint: lanes meet over a mint, and with two
  mints only the guard connects them.
- *`MaxRestarts`* 1: a crash in every state, and one life on what it left. Runs with 0 ask about one life of the process.
- *`MaxPending`* 2 in `cupsey_live`: two signals of the pair are in the survival check together, and may come back within one
  second. One pair, since pairs meet only over the slots. Position objects are symmetric there: the fairness and `EveryCloseReturns`
  speak of tick calls, which are not permuted, so that liveness is not lost in the quotient.
- *KOL*: buys of two tokens and at most three of a mint (`MaxTokens`), so that a take, a retaining close and a second buy
  each leave something; promotion from two tiers (`Promoted`), the one that starts the take and one that does not.
- *Sales*: three tokens, so that a part and a rest differ; two v6 attempts, one rate-limit retry, one immediate retry: every
  counter is exhausted, and each kind of transaction is once abandoned.
- *`MaxTimeouts`* 1 in `main`: one expiry lets a second holder in and lets the first release its lock.
- *`TwoSuspended`* in `main`, a state constraint: two signals and two exits, of which any two, but no three, are suspended together.
- *PnL units*: losses of 1, a budget of 3, a window of 4 trades, a streak of 1, four closes, two exposures: each
  limit is reached in some behaviour, alone, and crossed by the exposures beyond it. A close may end without loss; closes with a
  win (`MaxWin`) are in the proofs, which have any.
- *`MinSamples`* 1: every poll confirms; larger values only delay the halt.

`CHECK_DEADLOCK FALSE` in `main*`, `live_sell*`, `kol_live` and `shared_wallet`: with its restarts, tokens, sales or positions used
up, a lane that has nothing suspended has nothing to do.

## 6. Fairness

- `CupseyLane!FairSpec`: weak fairness of `AwaitReturns(t)`: a promise a call awaits settles, one way or
  the other. RPC calls, swaps and queries have time-outs or error paths; that the next link of the promise chain
  runs is Node's event loop. Nothing is assumed of signals, prices or the operator. `EveryCloseReturns` is
  checked across a restart, which returns every call.
- `EntryHalts!FairSpec`: weak fairness of `TimerStep(l)`: the interval of 60 s that `index.ts:2118` starts and
  the passing of the cool-down. Without `canaryAutoResetEnabled` nothing lifts a halt.
- `LiveSell!FairSpec`: weak fairness of the sale's own awaited calls and of those of each order, nothing of the chain: a
  transaction need not land. `SaleEnds` needs it of both, since a try ends only when its order does.
- MainLane claims no liveness: nothing in the code guarantees that a recovered position is closed (section 9). KolLane and
  SharedWallet claim none either: their closes wait for prices. What would block them for good, a mark or a slot that
  nobody clears, is a safety property there (`NothingStuckInFlight`, `NoSlotLeak`, `SlotsCounted`).

## 7. What is proved

TLAPS checks every step; nothing is assumed but the named ASSUMEs of the modules (`LaneAssumption`, `HaltAssumption`,
`MainAssumption`, `ExecutionAssumption`, `SaleAssumption`, `KolAssumption`, `WalletAssumption` and those of the lanes over it: null
values differ from real ones, flags are Booleans, limits and bounds natural numbers, and what is counted is finite) and, where a
theorem says so, a setting of the constants. These are arbitrary otherwise: any number of pairs, positions, calls, restarts.

**CupseyLaneProofs.** `TypeCorrect`, `SingleEntry`, `SoldBeforeClosed`, from one invariant `IInv`: the properties, and what
holds of each suspended call (`TickInv`) and of each object (`PositionInv`). Single entry needs that a call in `buy` or `insert`
holds `enteringLock` of its position. Sold-before-closed needs more: a call past `CloseBegins` is the head of the mutex, hence the
only one; a position's tokens, if still held, are in what the call that sells them saw; a STALK has neither rows nor tokens, so
that nothing is bought for a position that was closed; and a row has the pair of its position.

The mutex: `MutexInv` says that it holds the calls in a close, each once, and that a call past its wait is at its head.

- `ClosesTakeTurns`: the closes implement CloseSerializer. Each step moves the mutex in one of five ways or not at all
  (`MutexMove`), and each of these is a step of the serializer.
- `ClosesNotStranded`, `ClosesNearEnd`: the safety core of `EveryCloseReturns`. A close that waits has a close at the head, which awaits
  something that settles; `CloseWait`, the awaits left to a close and to those before it, never grows for a close in the mutex, and
  falls with every step of the head, a throw included. What is left to liveness is that awaits settle.

**CupseySlotsProofs.** Every step keeps the map, drops one object from it, is a signal or a restart (`StepKind`).

- `OverlapBound`, for any number of suspended signals, live or paper: `OInv` adds to the property that a close that sells works on a
  position still open (`Closing`), and that nobody waits where there is no check (`Await`). A signal is let in beside no open
  position, so what opens was counted as suspended before.
- `NoneJoins` is the step of the same argument: a signal that joins a pair finds it empty, and what a recovery opens of a pair is one
  position (`RestartOpensOne`). `ClosesWork` is the part of `OInv` about closes.
- `SlotsHeld`, likewise: `SlotsKept`. A step either keeps the holders of slots (`HoldersStay`) or takes one off as it releases one slot
  (`HolderLeaves`); an object overwritten in the map goes on holding its slot until it is bought and closed or its buy fails.
- `OnePositionPerPair`, `NoSlotLeaks`, over failures and restarts, where there is no survival check to await (`Ungated`: paper, or the
  gate switched off). `KInv` adds that an object has the id it was made with (`Named`). Behind the gate both fail (section 9).
- `PaperWatched`: in paper trading no swap is awaited, so a STALK is never locked when it is dropped, and a bought object
  is on the map until a close takes it off (`PInv`).
- `PaperSlots`, `PaperCap`: until a restart, what a step drops was on the map, so slots and positions match (`SlotsTaken`), and as
  slots keep within the cap, so do positions (`OpenPositionsWithinGlobalCap`).

In live trading the last three fail, as section 9 says. These settings (`Ungated`, paper) have no run of their own; the violation
runs and section 9 show what becomes of their properties outside them.

**EntryHaltsProofs.** `TypeCorrect`; then

- `ExhaustedHalted` and `StreakHalted`. `HaltInv` adds to the property that a
  reason once raised (`lastHaltReason`) means the lane is halted (`RaisedMeansHalted`): without it a trigger that is
  skipped as already raised would leave an exhausted lane open. A trigger dropped because another halt is active
  is harmless for the same reason, and the timer clears reason and halt together. `LedgerRaisesNothing` carries it over a restart.
- `CountersRestored`, for lanes whose sell rows name them (`SelfNamed`). `CountInv` says that no replay, from whichever row it
  starts, counts more than the closes, and that of the whole ledger, for a lane of which nothing was lost, all with a sale.
- `LossIsBounded`, for lanes without cupsey (`Heeded`) and one life of the process: after a restart the counted PnL may be short of
  rows. `LossInv` adds that until then the counted PnL is the real one (`PnlKept`).
- `StreakIsBounded`, for one life of the process: `StreakInv` bounds the streak together with the exposures still to be closed.
- `HaltsEnd`, the safety core of `HaltIsLifted`: `LiftWait`, the ticks of the timer left to a halt of a lane that spent neither budget nor
  trades, is raised by no trigger, close or confirmed drift while the halt lasts, and falls with each tick. Only a restart may start
  it anew, and there are boundedly many (`LifeInv`).

**MainLaneProofs.** Each theorem has its own invariant over the common type invariant `TypeInv` (types, and that a call
past its start names a position):

- `LockHeldByFew`: `HoldersInv` is the property itself, inductive with `TypeInv` because both a release and an
  expiry free one place.
- `MarksFreed`: `MarksInv`, by the caller kept with the mark until the `finally`.
- `ClosedIsSold`: `SoldInv`. A CLOSED row could become wrong by a buy that lands later, so the invariant says that a pending entry's
  trade has no row (`PendingFresh`), that two entries never share one (`PendingDistinct`), that exits work on
  trades with a row (`ExitsOfRows`), whose tokens, if still held, are among those seen (`SellsSeen`), and that a call about to close the row has
  nothing left to sell (`ClosesSold`).
- `RecoveryKeeps`: `RecoveryInv`: while recovery goes on nobody else runs, and what it has still to visit is open.
- `PositionsLimited`: `PositionsInv`. An approval counts from the reading of the portfolio, and `Approving` ties it to the states
  in which a row may follow; the sum of rows and approvals then stays below limit plus signals.

**SwapExecutionProofs.** `ExecutorKeepsPromise`: `SwapExecution` implements `SwapOrder` under the mapping of `StatusOf` (every awaited call
is "working") and the fills; each step maps to a step or a stutter. `OrderInv` counts transactions: those that landed or may still
land are no more than the attempts begun (`CountersInv`), an attempt past its confirmation has a landed transaction (`TxInv`), and what is
reported as via Jito paid its tip (`TipInv`). `CallsAreBounded` and `OrdersWindDown`: `CallsLeft` is the rank of the awaited call plus five for each
retry left, as one attempt awaits at most five; every call that settles makes it smaller, the rate-limit counter and the two fall-backs
included, and nothing makes it larger.

**LiveSellProofs.** A sale drives the executor as `OrderSpec` says one is driven (`UsesExecutor`), so `PromiseKept` and `TipDeducted` follow from
the executor's theorems. `NotOverstated` needs `HoldingInv` (the wallet never holds more than the sale believes, tries under way
included), `SeenInv` (a balance is trusted for recovery only once RPC nodes show the tokens) and `OrdersInv` (orders are placed in turn).
`NoTryBarred`, `StepsAreBounded`, `SalesWindDown` are the safety core of `SaleEnds`: no try is cut off by the bound on orders and only the order
of the try under way is awaited (`NotBarred`, from `WorkInv`: the tries used and left of all sales fit the orders), and the steps left to
a sale and its orders are bounded and fall with each of them.

**KolLaneProofs.** `IInv` is TypeOK, `Rest`, `HeldInv` and `NoSlotLeak`. `Rest` ties calls to positions: a close has its position CLOSED and
active (`CloseInv`), a take or reduce that has not sold has its mark (`TakeInv`), two calls of a kind on one position are apart (`Apart`), a
mark has its call (`MarkInv`), an entry past its buy owns its position (`EntryInv`). `HeldInv` needs more than the property: of the
positions of a mint one is *responsible*, that is not being closed, or by a close that has not sold, that saw at least what is
held, or that leaves a tail. The action properties `DeferredCloseIsMade` and `TierIsKept` follow from `Rest`.

**SharedWalletProofs.** `SoldBeforeClosed` and `BuysApart`. `IInv` says what each suspended call may assume of its position (`CallOK`: a close that
is about to sell saw the position's tokens if they are held), where rows and tokens may be (`PosOK`), that signals of a mint and probes
of a position are alone (`SignalsApart`, `ProbesApart`, `SignalAlone`), and `HeldApart`. Neither the mutex nor the guard is used: both
properties survive overlapping closes, because a close is about the tokens it saw.

- `SlotsAreCounted` and `TypeCorrect` do need the mutex. `MutexInv` makes a close past its wait the only one (`ClosesSerialized`); hence the
  position it sells is still a PROBE when it ends, and its slot is given back once (`SlotInv`). The counts follow from how each step
  changes the finite sets of buys and holders, by one call or one position (`BuyingSize`, `HoldersSize`). Until a restart every bought position
  has a slot, so that no release meets the floor at zero; after one, releases without a slot make the count too small, never too large.
- `ClosesKeepTurn`: the closes of both lanes implement CloseSerializer, by the same five ways in which a step moves the mutex.
- `RecordedWatched`: tokens with an OPEN row of the primary arm are those of a position that ticks see. A step of a living process
  ends such a watch only by a close (`KeepsWatch`), which `IInv` says has sold, and the recovery loads every such row whose mint has a
  balance. Nothing of the kind holds of swing-v2 rows, which the recovery does not load, nor of migration rows, of which it
  keeps one per mint.

Only model-checked: the liveness properties `EveryCloseReturns`, `HaltIsLifted`, `SaleEnds`. Fairness and ENABLED are beyond the
prover; what safety they rest on, that the work left is bounded, falls with each step and is never waited for in vain, is proved as said above.
What fails in live mode but holds in a narrower setting is proved in that setting only. The six violations are TLC's.

## 8. What the models leave out

Parts without a module are in section 2. Within the modelled parts:

*Wider than the code* (a property that holds in the model holds in the code; one that fails was checked against the source):

- Prices and clocks choose any branch, so a close may be queued and the position promoted by one tick.
- An exit call of the main lane may name any trade that was ever opened, after a restart too.
- `TickHighWaterMark` needs no earlier look at the marks.
- Recovery visits rows in any order, and finalizes some open trade of the pair where the code takes the first it finds.
- The wallet stop and drift verdicts change at will.
- KolLane: a tick may come to any live position (KolFeed says which are polled); triggers, gates, exits and the lane's cap per
  mint are choices.
- SwapExecution: a transaction lands at any time, also much later than a blockhash lives.

*Narrower than the code* (what a property says is said of these runs only):

- CupseyLane: a sell that returns has sold what was seen (partial fills and retained tails are not told apart); other lanes
  take no canary slots; a swap that lands after the restart that followed it is ignored; the JSONL append after a
  buy, which nobody awaits, is not modelled. `cleanupClosedCupseyPositions` has no caller.
- EntryHalts: sell, ledger row and report of a close are one step, so a crash between them is not explored; one position of a lane
  is sold in part at a time; every lane has the same limits; `minLossToCountSol` (0) and `canaryAutoHaltEnabled` (on) are fixed; rows are in the order of
  their closes (the replay sorts them); the deduplication of appends by transaction is left out; the migration lane is left out; the operator's resets, which nothing calls, are left out.
- MainLane: live mode; partial exits (runner, degraded and TP1 are off by default) are left out; the same-pair block is on,
  as by default; balances are consistent (no lagging RPC node); the update of every position of a pair, a sell with
  its retries and the recovery of one position are one step each. `candleHandler.ts` also calls `processSignal` but does
  not look at the halt of the lane; its gates are a choice, as those of `realtimeHandler.ts`.
- SwapExecution, LiveSell: quotes, slippage and fees are left out; a fill sells the amount asked; one position's sales follow one another
  and `MaxSales` bounds them.
- KolLane: what follows `closeTrade` (delete, release, tail) is one step with it; calls without a trading context the bookkeeping of
  paper arms, and the branch that closes a row worth less than 1000 raw units at once (`kolSignalHandler.ts:13142-13161`) are left out; `MaxTokens`, `Promoted`, `MaxRestarts` bound it. In KolFeed the paper arms of a mint are some or none, and a live
  entry is one interval from its subscription to its position.
- SharedWallet: live trading with the canary guard on. The entry-transaction fall-back of the pure WS close is one of the ways in which the
  balance step throws; dust recovery, cooldowns, signal-only mode and the event dedupe TTL are left out; COOLDOWN and STALK, PROBE and WINNER
  of the migration lane are one state each; `enteringLock` is derived from the suspended calls.

## 9. Where code and comments disagree

Six disagreements have a run and are findings of `PROJECT.json`:

- `cupsey_lost_position`: the time-out branch drops a STALK whose buy is in flight (`cupseyLaneHandler.ts:572-591`, before the
  lock is looked at in 599); the bought position is then watched by no tick until a restart finds its row.
- `cupsey_second_position`: the holding check is not repeated after the survival await (`cupseyLaneHandler.ts:405`, 425): two overlapping
  signals open two positions of a pair. `PairOverlapBounded` and `NoneJoinsOpenPosition` are what remains true.
- `main_over_cap`: the portfolio is read before the lock (`signalProcessor.ts:56`), so overlapping signals exceed the cap of three that
  `../docs/design-docs/buy-entry-flow.md:200` calls absolute. `PositionsBounded` is what remains true.
- `main_unwatched`: recovery puts a position under monitoring whose trade row was never inserted; exits work on rows only.
- `live_sell_late_fill`: a retry is sized by the balance before it, while the try that threw may still land: a sale of a part sells it twice.
- `kol_unwatched`: an observation or arm that ends during a live entry gives up the feed of the mint, and the position that opens
  does not subscribe again: no tick evaluates its stops.

Others were met while modelling. The models have these behaviours; no run is spent on them.

*Cupsey lane*

- Two signals that come back from the survival check within one second share the id of pair and second (512): the second object overwrites
  the first in the map, and the slot of the first is never released (`NoSlotLeak` fails behind the gate). `canaryConcurrencyGuard.ts:10`
  asks for a release on every path.
- A STALK dropped while its buy is in flight releases its slot (577); the buy that then fails releases another (687). With it
  `OpenPositionsWithinGlobalCap` fails in live trading, the limit that `canaryConcurrencyGuard.ts:5` is for.
- A sell that fails restores the state read before its awaits (905, 972): a position promoted meanwhile is a PROBE again, while
  225-226 draw no way back from WINNER.
- After a restart recovered positions hold no slot, so the cap bounds new entries only.
- A close whose row update fails leaves the row OPEN; the next start recovers a position without tokens, whose close
  throws for good on its zero balance. A position closed between its buy and the insert of its row gets two rows.

*Halts*

- The timer lifts the halt of an unwritten row and that of a confirmed drift like its own (`canaryAutoHalt.ts:351-387`, on by default), while
  `entryIntegrity.ts:15` leaves the former to the operator ("operator 가 reset 할 때까지") and `canaryAutoHalt.ts:16` all of them ("auto-recover 없음").
  The comment at `canaryAutoHalt.ts:341-349` (2026-04-21) takes line 16 back for losing streaks, and for them only. `HaltIsLifted` therefore speaks
  of the canary's own halts; no property says that the timer should lift the others, and none is claimed of when it does.
- The replay passes over rows past its look-back (`canaryAutoHalt.ts:275-278`), while a running process forgets nothing: a lane that spent
  its limits earlier starts free, though `index.ts:694` says that exhausted lanes come back halted.
- The sell rows of swing-v2 carry the primary lane's strategy (`pureWs/close.ts:168`), so a restart counts its closes there; 97 of
  `canaryAutoHalt.ts` gives it limits of its own (`ClosesCountedOnce` with `Lane = {"pure_ws_breakout", "pure_ws_swing_v2"}`).
- The cupsey lane does not look at `isEntryHaltActive`, its buy does not look again at its own integrity flag, and its sell rows carry no
  PnL (`CountersSurviveRestart` with `Lane = {"cupsey"}`).
- A failed append of a sell row is logged and swallowed (`entryIntegrity.ts:89-94`): the next replay does not know the close.
- What the rotation lane realized by partial sells is forgotten by a restart, and `LossBounded` speaks of one life of the process. The replay
  does not know the timer's resets, so the streak it restores can be longer than any the lane was halted for.
- All halts but those the replay trips live in memory and end with the process.

*Main lane*

- The lock's timer lets a second holder in, and the first then releases
  the second's lock. `failTrade` overwrites a CLOSED row. The exit of one trade moves the position rows of a later entry.

*KOL lane*

- A live tail is unwatched: the feed is given up for its parent before it is tracked (12919 before 12963 of `kolSignalHandler.ts`; the
  comment at 9598 expects it to be ticked). Its close releases a slot it never took, and a restart loses it.
- The same-mint check (6935) is not repeated after the awaits before the entry: two live positions of a mint can be open, though 2079-2083
  promise that `executeBuy` does not run twice.
- Recovery makes every position a PROBE, since the high-water mark is never written, so the T1 take may repeat (13225-13236); what a take
  realized is forgotten.
- A deferred close is forgotten if a tick's close overtakes it during the ledger append and then fails. A reduce and a close may sell at
  the same time. A retaining close that failed and is then confirmed at zero still leaves a tail.

*Shared wallet*

- Live swing-v2 positions are not recovered (`pureWs/recovery.ts:15`). The primary and swing arm share one balance: the first close sells
  both and the second is an orphan with no PnL. A close whose sale landed and whose next balance read throws ends the same way.
- A migration position dropped while its buy is in flight is bought all the same, watched by nobody, and keeps its slot; one closed before its
  insert returns leaves its row OPEN.
- A swing close whose row was never inserted inserts it as a row of the primary arm. Live pure WS positions never leave
  `activePositions`, and the recovery does not ask whether a row is tracked already.
- Recovered positions release slots they never took, so `SlotsCounted` is an equality before the first restart only. Buys and KOL closes
  are not serialized with closes, so balances before and after a sale can include another's.

## Running

    tlc -workers 2 -config cupsey_live.cfg MCCupseyLane
    tlapm CupseyLaneProofs.tla
