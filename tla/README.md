# A TLA+ model of StockGameOnlinePro

StockGameOnlinePro is an online stock-trading game. Players, bots and AI traders
trade shares of three simulated markets against each other and against synthetic
quotes. The server is a NestJS process (`backend/src`) over one SQLite or Postgres
database; all of its concurrency comes from asynchronous handlers that interleave
at every `await`, and its only locks are a few promise chains. Beside it stand a
Go service for the rewritten game client (`backend-go`), which journals commands
and forwards them to a ledger service, and a React client (`frontend`). This
directory models that concurrency: what the chains protect, what escapes them,
and what a failed write, a lost answer or a restart leaves behind.

## The system

| Component | State | Operations | Talks to |
|---|---|---|---|
| Trading engine (`core/trading-engine/trading-engine.service.ts`) | `orders`, `positions`, `accounts`, `transactions` tables; two promise chains `orderQueue`, `settlementQueue` | submitOrder, cancelOrder, checkPendingOrders; settleFill, settleFiniteFill, settleCounterFills, forceLiquidate, auctions, closing session, dividends | matching engine (calls), database, tick loop and HTTP (callers) |
| Matching engine (`matching-engine.ts`) | per symbol: resting rows, synthetic quotes, `quoteSequence`, the reserved execution and the changes deferred behind it | placeRestingOrder, removeRestingOrder, refreshOrderBook, executeFinite, commit, rollback, auction | planner |
| Planner (`finite-execution.ts`) | none (pure) | planFiniteExecution: price-time priority, icebergs, exact quantities | |
| Market data (`core/market-data`) | prices, game day, calendar, AI ledgers, runtime store | price generation, applyAiTrading, persistRuntimeState | engine (takes book rows, asks for counterparty settlements) |
| Market tick loop (`modules/market`) | `processing`, watchdog, day state | tick, sweep, opening and close of a day, auctions, daily settlement | everything above |
| Season (`modules/season`) | `seasons`, `season_entries`, points of the accounts | ensureSeason, enroll, settleSeason, maybeSettleByClock | account rows, also written by the engine |
| Account service, funds, risk manager | account rows, fund holdings, equity history | transfer, reset, leverage, subscribe and redeem, daily valuation | the engine's settlement chain |
| Bots | strategies | ordinary orders | OrderService |
| Identity and OAuth (`modules/identity`) | identities, mailed links, sessions, codes, grants, refresh tokens | register, verify, login, reset; authorize, exchange, refresh, revoke | browsers and connected applications |
| Go game API (`backend-go/internal/game`) | `formal_commands` journal, snapshot cache, streams | command, snapshot, events, stop | the ledger service over HTTP |
| Chat (`modules/chat`) | messages, attachments and their files, event streams, `lastSeq` in memory | upload, send, pages, stream, hourly cleanup | the owner's and the guests' pages |
| Rules engine of the remaster (`remaster/packages/engine`) | a finite order book with reservations, a trade log | submit, cancel, executeFill | the laboratory that replays tapes |
| Saves, blog, resources, webmail, arcade | their own tables | request/response | |

What makes the behaviour hard:

* **Two chains, one table.** `orderQueue` and `settlementQueue` each run one
  handler at a time, but both read and save whole rows of `orders`; AI trades save
  counterparty rows in neither, and `setLeverage` saves account rows in neither.
* **A reservation across awaits.** An execution takes rows out of the book at once
  and settles later. Until then the symbol is reserved and book changes wait; a
  failed settlement restores the old book, then applies the changes.
* **Copies.** The sweep works through orders loaded at its start; the request
  handler checks cash on an account read before it queued; identity handlers act on
  rows they read several awaits ago.
* **Partial failure.** `settleFiniteFill` runs in a transaction; forced sales, AI
  trades, auctions, dividends and season awards do not.
* **Crash and replay.** Season settlement, dividends and the close of a day are
  repeated after a crash and rely on marks saved before or after the effect.
* **Unknown outcomes.** A command or an order whose answer is lost may have been
  carried out, or may be carried out later; whoever repeats it must not run it twice.
* **One history, two ways.** A chat page is loaded in pages and completed by events
  that may overtake them; its numbers come from memory and a clock that a restart
  loses and may set back.
* **Ticks that hang.** A watchdog starts a second tick loop beside one that may
  come back.

What makes each part correct (in italics what no property covers yet):

* Trading engine: the orders table, the book and the accounts agree on every trade;
  money and shares are conserved; nobody is overdrawn, no order overfilled; a
  client's retries trade once; stops wait for their trigger; what has ended stays
  ended; every request is answered. *Auctions clear at one price and settle whole or
  not at all; a restart loses no open order.*
* Matching engine: executions of a symbol look atomic although they wait for a
  settlement; no book change is lost or applied twice; hooks report final fills.
* Planner: price, then arrival, then hidden lots; exact quantities; never with oneself.
* Market tick loop, accounts, funds: a date ends one game day and is closed in the
  end; interest and net asset values are booked once per day; holders get their
  dividend; no writer of an account row loses another's change; post-close orders
  die with their date.
* Season: one live season, settled when due and not before, ranks by return, one prize
  per user and season, crashes or not.
* Identity: one usable refresh token per code, whatever races; what a revocation cut
  stays cut until consent is given again.
* Chat: a loaded page lacks nothing; numbers follow the order of the answers across
  restarts; a file that was sent in time stays.
* Laboratory's book: reservations match the book and are covered, however fees are
  rounded; never crossed; nobody is passed over.
* Go game API: a key is carried out once; what is answered is true; a snapshot shows
  what its reader was told; a stop completes.

## Modules

| Module | What it is |
|---|---|
| `TradingEngine` | The engine, the book of one symbol and everything that calls the engine: handlers of both chains, AI traders, refreshes |
| `TradingInvariants` | The invariants the theorems about `TradingEngine` rest on, and the hypotheses some of them need |
| `TradingEngine_proofs` | Their proofs, and the theorems |
| `SumTheorems` | Lemmas about sums over finite sets, for every proof that counts money, shares or points |
| `MCTradingEngine` | Scenes of orders, and the instances TLC checks |
| `FinitePlan` | The execution planner as an algorithm, and its contract without the algorithm |
| `MatchingEngine` | The book of one symbol as the matching engine keeps it: rows with clocks and numbers, icebergs, virtual orders, the list of deferred changes, fill hooks |
| `MatchingInvariants` | What makes its properties inductive: both books a reservation may end with are in order, the changes that wait can be made in either |
| `MatchingEngine_proofs` | Proofs about the planner, the engine and the refinement, and the theorems |
| `AtomicBook` | What the matching engine promises: a book whose executions are atomic. `MatchingEngine` implements it |
| `MCMatchingEngine` | The instance of `MatchingEngine` |
| `MarketDay` | The day of one market: tick loop, watchdog, close with its record, and the account jobs that share the settlement chain with it |
| `MarketInvariants` | The invariants behind its theorems: who holds a copy of a row, where a tick is in a close, what memory and the store say of the days |
| `MarketDay_proofs` | Their proofs, and the theorems |
| `Season` | Seasons: creation, enrolment, settlement by the clock, crashes |
| `Season_proofs` | Its inductive invariant and theorems |
| `MCSeason` | Instances of `Season` |
| `Identity` | One account and one connected application: links, sessions, consent, codes, refresh tokens, handlers interleaved at every await |
| `Identity_proofs` | Its inductive invariant and theorems |
| `GameApi` | The Go game API: command journal, snapshot cache, streams, stop and restart |
| `Chat` | The private line of the owner and one guest: sends in parts, numbers, pages and events, files and their cleanup, restarts |
| `Services_proofs` | The inductive invariants and theorems of `GameApi` and of `Chat` |
| `MCChat` | The instance of `Chat` |
| `LabBook` | The finite book of the remaster's laboratory, watched between two fills |
| `LabBook_proofs` | Its invariants and theorems, with the arithmetic of the fee |
| `MCLabBook` | The instance of `LabBook` |

`MatchingEngine` extends `FinitePlan` and instantiates `AtomicBook`.
`TradingEngine` uses the contracts of both layers below it instead of their code:
`IsPlan` is the planner's contract (price, then arrival, exact quantities) and
`onCommit`/`onRollback` are the `ifCommitted`/`ifRolledBack` of `AtomicBook`. That
the layers keep those contracts is what run `matching` shows and
`MatchingEngine_proofs` proves. `MarketDay` has the
other jobs of the settlement chain: a fill is one job there, and all the steps of
`settleFiniteFill` in `TradingEngine`. In every module an operator called `BadX` is
`X` with a plausible bug; it is used only to see that the properties notice the bug.

### TradingEngine

State. `orders` is the orders table. `ledger` holds the money and shares of the
accounts, and three things the code does not keep: what each order has traded, the
fees paid, and what the quotes and AI traders exchanged (needed to state
conservation). `book`, `quoteSequence`, `reserved`, `onCommit`, `onRollback` are
the symbol's book and its reservation. `orderQueue` and `settlementQueue` are the
two promise chains: sequences of jobs whose head is the handler at work. `pc`,
`cur`, `own`, `fill`, `todo`, `stale` are the locals of the running order handler,
`tx` those of the running settlement, `agent` those of an AI trade.
`requested`, `cancels`, `called` say what the environment has asked for.

Actions. Everything a handler does between two awaits is one action.

| Code | Actions |
|---|---|
| `OrderService.submitOrder`, `cancelOrder` | `PlaceOrder` (reads the account, queues), `RequestCancel` |
| `submitOrderInner` | `SubmitRefused`, `SubmitImmediate`, `SubmitUnfilled` (immediate orders); `SubmitSave`, `PlaceAndRest`, `PlaceAndCross` (orders that rest); `SubmitSettled`, `SubmitFailed`, `Unbook` |
| `cancelOrderInner` | `CancelMiss`, `CancelRead`, `CancelSave` |
| `checkPendingOrdersInner` | `RequestSweep`, `SweepLoad`, then one of `SweepSkip`, `SweepReject`, `SweepExecute`, `SweepUnfilled` per loaded row; `SweepSettled`, `SweepFailed`, `SweepEnd` |
| `settleFiniteFill` (one database transaction) | `SettleOwn`, `SettleCounter`, `SettleCommit`, `SettleAbort` |
| `forceLiquidateInner` with `settleCounterFillsInner` | `LiquidationSell`, `LiquidationCounter`, `LiquidationRead`, `LiquidationSave`, `LiquidationRefused`, `LiquidationEnd`, `LiquidationNothing`, `LiquidationFails` |
| `applyAiTrading` with `settleCounterFills` | `AgentTrade`, `AgentCounter`, `SettleAgentCounter`, `SettleAgentFails`, `AgentRead`, `AgentSave`, `AgentRestore`, `AgentDone` |
| the tick's refresh, the risk check | `Tick`, `MarginCall` |

Abstractions. One symbol. Cash accounts with long positions: no short sales, no
leverage, no T+1. Prices are small integers, the fee of a settlement is one
constant. The market is open; price limits do not seal a side. A settlement in a
transaction writes copies in `tx` and publishes them on commit, so it may fail at
any of its steps. Writes outside a transaction fail only where `Faults` is TRUE.

### FinitePlan, MatchingEngine and AtomicBook

`Plan` is `planFiniteExecution`: `Executable` drops the taker's own rows and the
prices beyond his limit, `Before` is the comparison of the code, `Walk` its loop
(a function of the number of steps, at most one per slice),
`Reveal` and `Requeue` what happens to an iceberg whose visible lot is used up.
`KeepsContract` says what a plan must be without mentioning the walk: `Exact` (no
share appears or is lost), `Exhausts` (a remainder means nothing was left, or the
cap was met), `Fair` (nobody is passed over, and hidden lots come after visible
ones of the same price).

`MatchingEngine` has one action per operation of the class that changes the book.
Each operation is synchronous, so each is atomic; what makes the class hard is
that an operation that meets a reservation is put off as a closure
(`reservation.deferred`) and runs on the book that the settlement leaves.
`Applied` is such a closure, `Released` runs them in their order, `Publish` is
`releaseExecution`. The clock of rows and
the tick at which virtual orders expire are one counter, `now`. A row of an order
is unique in the book, as the callers keep it. Prices are in cents.

The refinement maps rows to a quantity per order and a set of quotes, and computes
from the saved book and the list of deferred changes what each outcome will be.
`AtomicBook` has no list: it carries the two possible books along, changes both at
once, and publishes one of them. So `KeepsPromise` says that clocks, numbers, lots
and the order of the closures cannot be seen from outside: no change is lost,
none is applied twice, and a hook reports a fill exactly when it is final.

### Season

State. `seasons`, `entries` and `accounts` are the tables, `day` the game day of
the market that is furthest ahead, `locals` the locals of each overlapping
enrolment or scheduler callback, `award` those of the settlement at the head of
`settleChain`, `engine` those of the engine's own settlement chain, which saves the
same account rows.

| Code | Actions |
|---|---|
| `ensureSeason` | `Look`, `Count`, `Create`, `Reuse` (the unique `seq` was taken) |
| `enroll` | `Ask`, `Leave`, `EnrollRead`, `EnrollEntry`, `EnrollOpen` |
| `maybeSettleByClock`, the scheduler | `Poll` |
| `settleSeasonInner` | `SettleBegin`, `SettleRead`, `SettleRank`, `SettleEntry`, `SettlePodium`, `SettlePay`, `SettlePaid`, `SettleEnd` |
| fills and resets that save account rows | `EngineRead`, `ResetAsk`, `ResetRead`, `EngineSave` |
| a process that dies or a settlement that throws | `Crash` |

Abstractions. The three market clocks are one counter, since the code takes the
largest. Money is the equity of an account. Entry rows are read together and
saved in any order; equal returns are ranked in any order.

### MarketDay

State. `clock` is real time (a date and a slot of it: opening auction, trading
minutes, post-close window, night). `market` is the memory of `MarketService` and of
the market's data service, `saved` the runtime store a restart reads. `tick` has the
tick loop and each loop the watchdog started beside it, with the calendar a tick read
when it began; `processing` is the flag that keeps ticks apart. `chain` is the
settlement chain. `account`, `pos`, `fund`, `snaps`, `late` are one user's rows: the
Chinese account and the cash of the American one, the position in the share, fund
shares and net asset value, dividend snapshots, a pending post-close order. `lever` are
the locals of `setLeverage`; `ghost` remembers what was acknowledged.

| Code | Actions |
|---|---|
| `processMarket` | `Begin`, `Open`, `Auction`, `Generate`, `Unlock`, `DayInit`, `Match`, `EndTick` |
| `finishMarketDay` | `StartClose` in `Begin`, then `Persist`, `Queue`, `DayEnd`, `Drop`; a database call that fails is `Fault` or `JobFault` |
| `settleNavs`, `snapshotDividendHolders`, `payDividendsInner`, `settleAllAccounts`, `resetBoughtTodayInner` | `SettleNavs`; `SnapshotHolders`; `PayRead`, `PayAccount`, `PayMark`; `SettleRead`, `SettleDaily`, `SettleTier`; `ResetBoughtToday` |
| `transferCash`, `resetAccount`, `subscribe`, `redeem`, `settleFillInner` | `Ask` queues, `Read` checks again on the rows it finds, then `Transfer`, `Reset`, `Subscribe`, `Redeem`, `Buy`, `Sell` |
| `submitClosingOrder`, `setLeverage` | `AskLate`; `LeverageRead`, `LeverageSave` (in no chain) |
| the watchdog, the process | `Hang`, `Watchdog`, `Crash` |

Abstractions. Only the Chinese market ticks. Amounts are small whole numbers and the
price of the share is fixed, so that a lost or repeated change of a balance shows. A
fill is one job. That a user is blocked (`isBlocked`) is not modelled. A fault in
the dividend jobs is left out: the code catches it and never tries again (see
Observations).

### Identity

State. `status` of the identity, the tables `links`, `sessions`, `codes`, `tokens`, the
row `grant`; `req` holds for each running handler what it does next, the row it read
and the state it saw. `consents` and `cut` are history: how often consent was given,
and which consent the last answered revocation withdrew.

| Code | Actions |
|---|---|
| `register`, `createPendingIdentity`, `issueIdentityToken` | `Register`, `Create`, `InvalidateLinks`, `IssueLink` |
| `verify`, `requestPasswordReset`, `resetPassword`, `changePassword` | `OpenLink`, `BurnLink`, `Activate`; `RequestReset`; `ChangePassword`, `RevokeSessions` |
| `login`, `issueSession`, `logout` | `Login`, `IssueSession`, `Logout` |
| `resolveAuthorize`, `approve`, `issueCode` | `Authorize`, `Approve`, `UpsertGrant`, `IssueCode` |
| `exchangeCode`, `refreshTokens`, `issueTokens` | `ExchangeCode`, `BurnCode`; `RefreshTokens`, `ReadGrant`, `BurnToken`; `LoadUsableSession`, `IssueTokens` |
| `revoke`, `revokeGrantFor`, `revokeGrantTokens` | `Disconnect`, `DropGrant`, `KillGrant`, `KillTokens` |
| expiry, restart | `Lapse`, `Crash` |

Abstractions. One identity and one client; mail, passwords, scopes, PKCE and redirect
addresses are left out. Requests that are refused at once change nothing and have no
action. The access token is a signed text that no table holds.

### GameApi

State. `journal` is the table `formal_commands` by idempotency key, `cmd` the handlers
of `/commands`, `wire` the calls sent to the ledger service and not carried out yet,
`done` what that service has carried out (its length is the version a snapshot
shows). `cached`, `flight`, `stale` are the cache entry of the role, the load others
join, and the loads that were invalidated while they ran; `reader` are the streams.
`service` is open, stopping or down. `told` and `answers` are what clients were told.

| Code | Actions |
|---|---|
| `command`, `existing`, `routeCommand` | `Command`, `Insert`, `LookAgain`, `Forward`, `Record`, `Invalidate`, `GiveUp` |
| the ledger service (external) | `CarryOut`, `Refuse` |
| `Cache.get`, `invalidate`, `snapshot` | `Get`, `Load`, `Land`, `LoadFails`, `Expire`, `Invalidate` |
| `reserveStream`, `stream`, `releaseStream` | `Reserve`, `Send`, `Release` |
| `New`, `StopStreams`, `Close`, `run` | `Start`, `Stop`, `Close`, `Crash` |

Abstractions. One role; a body is one of a few commands; a snapshot is the number of
commands it reflects.

### Chat

State. `messages` and `attachments` are the tables, `disk` the files. `lastSeq` is the
counter in memory, `resumed` whether `onModuleInit` has read the highest number.
`req` are the handlers with the attachment row each has read, `cleaning` the pass of
`cleanupOrphans`, `viewer` what each page has loaded and was sent. `issued`,
`published`, `answered`, `overdue` and `promised` remember what happened. Its
specification is called `ChatSpec`, so that its proofs and those of `GameApi`, with which
it shares nothing, can be in one module.

| Code | Actions |
|---|---|
| `registerUpload` | `MoveFile`, `Register` |
| `send` | `BeginSend` (checks the attachment), `Number`, `InsertMessage`, `Bind`, `Publish`; a statement that fails is `Fail` |
| `subscribe`, `listMessages`, a stream that ends | `Subscribe`, `ListMessages`, `Drop` |
| `cleanupOrphans` | `FindOrphans`, `UnlinkFile`, `DeleteRow` |
| the process | `ChatCrash` (the clock may be set back), `Resume` |

Abstractions. One thread and one attachment per message. A page subscribes first and
then loads, as the client does. Requests come once the highest number has been read:
`onModuleInit` does not wait for its query, but sends it before the server listens, and
on the single SQLite connection every statement of a `send` that precedes `nextSeq`
queues behind it. A number is
`clock * PerTick` or one more than the last, as in `nextSeq`.

### LabBook

State. `account` has cash, inventory and what is reserved of them; `resting` both sides
of the book; `taker` the order between two of its fills, because quotes are reported
after each one; `trades` the log, `sequence` the number of the latest event.

| Code | Actions |
|---|---|
| `submit` | `Submit` (accepted or turned away), then `Fill` per counterparty, then `Finish` |
| `executeFill`, `affordableQuantity` | `Fill`; `Affordable` is the binary search itself, `Pays` what it must find |
| the end of `submit` | `Rest`: what is left of a limit order joins the book and is reserved; `Finish`: everything was filled, the taker's own order stopped it, or a market order finds nobody or cannot pay |
| `cancel` | `Cancel`, which returns the reservation (`Released`) |

Abstractions. Prices and money are whole cents as in the code; sizes and prices are
small. Events the parser turns away change nothing and are left out.

## Runs

| Run | What it asks | Result |
|---|---|---|
| `orders` | Two scenes. Two limit orders cross, and the second is sent twice under one client key; or a stop, a stop-limit and a sale that may leave the stop too few shares. Cancels, refreshes and sweeps come in every order; every settlement may fail. | All seven properties hold, 98 756 states |
| `faults` | Three scenes of orders beside a forced sale and AI trades: counterparties that can no longer pay, and writes outside a transaction that fail half way. | Nobody is overdrawn, and under `FairSpec` every request is answered and no symbol stays reserved, 15 342 states |
| `matching` | An iceberg, an offer and a market maker's quote; a reserving player and an AI trader take from them; refreshes, removals, reductions and expiries before, during and after. | Planner contract and refinement hold, 46 276 states |
| `market_day` | Two dates of the Chinese market, one request of any kind by the user, and one crash, failed call or hung tick anywhere. | Safety and, under `FairSpec`, `KnownDateCloses` hold, 535 429 states |
| `season` | Three scenes. Two callbacks that overlap over two seasons; two markets of one player against another's; a reset under way. One crash. | Safety and, under `FairSpec`, `DueIsSettled` hold, 489 700 states |
| `identity` | Two handlers at a time, five requests, one expiry and one restart: links, logins, consent, exchange, refresh, disconnect in every order. | Holds, 908 947 states |
| `game_api` | Two commands under one key, two streams, one lost answer or failed statement, one stop or crash. | Holds, and a stop completes, 223 532 states |
| `chat` | Two handlers, one page, one upload, three messages, an hourly cleanup, one crash with the clock set back. | Holds, 1 704 822 states |
| `lab` | Every tape of four orders and cancels of three accounts at two prices, watched after every fill. | All six invariants hold, 654 109 states |
| `forced_refusal`, `season_replay`, `same_day_sale` | One disagreement each between the code and what it says of itself (see Findings). | Violated |

Five more configurations belong to no run; they reproduce observations:
`MCPricedStop`, `MCStaleCopy` and `MCAgentRace` (module `MCTradingEngine`),
`MCLeverageRace` and `MCSlowTick` (module `MarketDay`). Four more check the inductive
invariants of the proofs: `MCOrdersInvariants` and `MCFaultsInvariants` (module
`MCTradingEngine`), `MCMarketInvariants` (module `MarketInvariants`),
`MCMatchingInvariants` (module `MCMatchingEngine`).

### What the properties say

`FillsRecorded`, `BookBacked` and `Conserved` relate three records of one trade that
different handlers write at different times: the row of the order, the book, and the
accounts. `KeepsPromise` is about what happens to a change that meets a reservation.
`OneTradePerKey`, `StopsFillAfterTrigger` and `TerminalIsFinal` are promises to the
client over several requests. `ReservationDiscipline` and `AgentDiscipline` say that
the locals a settlement uses are those of the handler that queued it; they carry the
proofs. `EveryOrderAnswered` says that no failure leaves a request or a symbol behind.
For seasons, `OneLiveSeason` and `SettledIsFinal` survive overlapping callbacks,
`PrizesFollowReturns` relates prizes, ranks and returns, `DueIsSettled` says that an
interrupted settlement is finished, and `PaidOnce` is what a replay breaks.

For the day of a market, `DaysEndOnce` and `DividendsReachHolders` say what a close
that is repeated after a crash, a failed call or a hung tick may not do twice and may
not leave out, and `KnownDateCloses` that it ends. `NoLostChange` compares each balance
with what its owner was told. `LateOrdersDie` is about memory that a restart forgets.
For identities, `OneUsablePerCode` counts the tokens of a code's chain together with
the handlers about to issue one, and `CutStaysCut` follows a token whose insert was
under way while the revocation ran over the table. For the game API, `CarriedOutOnce`
and `AnswersAreTrue` relate the journal, calls still on their way and the ledger
service's history; `SnapshotShowsAnswer` relates what a client was told before it
asked to what a shared, late or invalidated load brings it.

For the chat, `NothingMissed` relates pages, read backwards by number, and events that
arrive meanwhile; `AnsweredInOrder` compares numbers with answers across restarts;
`SentFilesStay` sets the cleanup, which acts on rows it read, against sends. For the
laboratory, `ReservesMatchBook` and `ReservesCovered` are the assertion of the code and
the reason why it cannot fail, `Conserved` counts fees too, `NotCrossed` and
`NobodyPassedOver` hold also between two fills, and `SearchFindsMost` compares the
binary search with what it is to find.
* Engine. Every order is submitted once, in scenes of three or four orders: an
  order, its counterparty, and a third that retries, competes or waits behind
  them. The races of the code need two actors and a row between them. `MaxTicks` 1
  (two marks) suffices for a refresh to meet a reservation and for triggers to
  be crossed. `MaxRetries` is 2 instead of 10: an attempt that is kept and an
  attempt that ends the order. Cash is chosen so that some orders are covered
  when they are submitted and no longer when they trade.
* `faults` has a bid that can be refused, an all-or-nothing order larger than the book
  and an AI trade of three shares over two levels, so that a plan has more than one
  counterparty. It has no sweeps and no cancels: beside a forced sale those lose fills
  in the way `MCAgentRace` shows. Conservation fails once a counterparty of a forced
  sale cannot pay (`forced_refusal`), so `faults` asks only what does not depend on it.
* Matching. One level of quotes, quantities up to 3, one refresh, at most two
  executions and two changes behind one reservation; the iceberg reveals once in
  a plan of its own and shares its price with an offer of the taker himself and,
  after a refresh, with the quote; the cap of 4 pieces (10 000 in the code) is met
  by the largest taker.
* Seasons. Two seasons suffice for a late callback to meet a successor; the second
  lasts longer than the first, so settling it early is visible. One crash at any
  step.
* Days. Two dates with one trading minute each: a date that closes, and the date
  whose opening meets what the first left behind. One request of the user and one
  trouble (crash, failed call or hung tick) per behaviour keep every interleaving of
  the two with the close; the races between two requests of the user are those of the
  chain, where each job checks again. Three settings restrict what may meet:
  `LoneLeverage` keeps other writers out while `setLeverage` holds a row, `Slow` decides
  whether a hung tick comes back, `Failing` names the steps of a close whose call may
  fail. Each excludes a behaviour described under Observations.
* Identity. Two handlers at once and five requests: a login, a consent, an exchange
  and two presentations of a token, or a link asked for twice and opened twice. Three
  rows of a table suffice for a chain with a token that is old, one that is new and one
  about to be inserted. A refresh looks at the newest two sessions instead of five.
* Game API. One key with two bodies (a repetition and a conflicting reuse), two
  clients and two streams at once, three requests, two snapshots, one trouble and one
  stop. The theorems hold for any number of each.
* Chat. Two handlers overlap (two sends, or a send and an upload, or a repetition),
  one message per page, so that three messages are three pages with events in
  between. Two numbers per tick are used up by three messages, so the counter runs
  ahead of the clock as after a clock that was set back.
* Laboratory. Three accounts are a buyer, a seller and one between them; four events
  are two resting orders, a taker that meets both, and a cancel, another taker or a
  repeated identifier. The fee of a quarter is rounded on every fill; one account can
  pay for fewer shares than it asks for.

### Fairness

`TradingEngine!FairSpec` has weak fairness for the handler at the head of each
promise chain: a promise that is resolved runs its continuation, and both chains
catch what their handlers throw and go on. Requests, ticks, AI trades and margin
calls are free not to come. `Season!FairSpec` has weak fairness for the scheduler
(a 30 s interval timer), the settlement chain and each callback's own steps;
nobody has to enrol or trade, days need not pass, and a crash may come.
`MarketDay!FairSpec` has weak fairness for each tick loop (a timer that is set again
when a tick ends), the watchdog's interval, the head of the settlement chain and the
passing of time, so a hung tick is left behind and a date ends; crashes, failures and
requests are free. `GameApi!FairSpec` has weak fairness for a stream that is at work (a
goroutine is scheduled and a call to the ledger service has a time limit), for a
waiting stream once the service's context is cancelled, and for `Close`.

Deadlock is checked where the sweep may always be requested again (`orders`,
`MCStaleCopy`); the other instances bound their requests, clocks or events, and end
when those are used up.

## Proofs

The theorems hold for every value of the constants that meets the module's assumption:
any number of accounts, orders, dates, handlers, requests, crashes and failures.

### Trading engine

`TradingEngine_proofs` proves:

| Theorem | States | Under |
|---|---|---|
| `Inductive`, `TypeCorrect` | `[]IInv`, `[]TypeOK` | |
| `Reserved` | `[]ReservationDiscipline`: a symbol is reserved exactly while one handler waits for the one fill job | |
| `OneCounterparty` | `[]AgentDiscipline` | |
| `Booked` | every row of every book is what its order says; in every execution what the taker gives is what the counterparties and quotes get | |
| `SettlementConserves` | `Conserved` until the first margin call | |
| `NothingCreated` | `[]Conserved` | `Marginal = {}` |
| `NobodyShort` | nobody sells a share he does not hold | |
| `FeesNeverOverdraw` | `[]Solvent` | `FeeCovered` |
| `RetriesTradeOnce` | `[]OneTradePerKey` | |
| `SubmittedOnce` | an order is in the chain once, unknown until its turn, and never alive beside another with its key | |
| `StopsWait` | `[]StopsFillAfterTrigger` | `StopsUnpriced` |
| `QuotesFollowMark` | `[]QuotesCurrent` | |
| `RowsMatchLedger` | `[]FillsRecorded` | `Undisturbed`, `[]NoStaleFill` |
| `HistoryIsFinal` | `TerminalIsFinal`, an action property | `Undisturbed`, `[]NoStaleFill` |
| `BookMatchesOrders` | `[]BookBacked` | `Undisturbed`, `StopsUnpriced`, `[]NoStaleFill` |
| `NothingWaits` | `[]NoStaleFill` | `~Sweeps` |

The hypotheses are not a convenience: each names a behaviour of the code that
breaks the property, and a configuration that shows it.

* `Marginal = {}`: a forced sale whose counterparty is refused creates cash (run
  `forced_refusal`, Findings).
* `FeeCovered`: no fee exceeds the price of a share; else the fee of a small sale is
  taken from cash the seller may not have (the minimum commission of `settleFillInner`, a
  hazard of its own).
* `StopsUnpriced`: a stop with a price rests in the book before its trigger
  (`MCPricedStop`).
* `Undisturbed`: neither AI traders nor margin calls, which write order rows outside
  the settlement transaction (`MCAgentRace`).
* `NoStaleFill`: the sweep never trades with an order it has still to visit, whose
  loaded copy it would execute later (`MCStaleCopy`). It is a hypothesis about behaviours,
  so the theorems say what is lost when it fails and nothing else. Configuration
  `MCOrdersInvariants` checks that it holds on the instance of run `orders`, and
  `NothingWaits` that it holds where there is no sweep.

The proof is built in layers, each inductive relative to those below it.

1. `IInv`: `TypeOK`, the two disciplines and `LocalsInPlace`. None is inductive alone: the
   discipline of the reservation needs the handler's `pc` to belong to a handler, the
   types of what a settlement writes need the fill it reads to be that of the handler
   that waits, and the disciplines need the jobs to be well-formed.
2. `BooksTrue`, `FillsTrue` (theorem `Booked`): all three books, published or waiting,
   are finite and true to their orders, and the three executions that may be under way
   (of a handler, of an open transaction, of an AI trade) balance share for share.
3. `Accounted`: before the first margin call the committed accounts are whole, and those
   of an open transaction lack exactly what its counterparties have still to settle.
   This is where sums over the remaining counterparties are needed.
4. `Covered`: cash and shares suffice for what is under way.
5. `Knowledge`, `KeysApart`, `QueuedOnce`: a row is known from its save on and no stale
   copy makes it unknown; two orders with one key are never both alive.
6. `StopsCross`: the mark of a trigger is on every copy of a row that trades.
7. `Calm`, `Records`: the orders table, the handler's copy, the copies of the sweep and of
   the open transaction agree with what was traded, order by order.
8. `Shown`, `Placed`: each book shows what its outcome will leave every order owing, but
   for the order whose handler is about to put it there or take it out.

Every layer has one lemma per group of actions, with one step per action. What
joining and leaving a chain does (`AppendJob`, `TailJob`), and what the operators on
books, ledgers and rows return (`BookRows`, `ConsumeRows`, `SettleLedger`,
`CounterLedger`, `RowEdits`, `RowAfterFill`, `BookMoves`), are lemmas because many
actions share them. All layers were checked by TLC first, and can be again:
`MCOrdersInvariants` and `MCFaultsInvariants` have the instances of runs `orders` and
`faults` with the layers as invariants.

`SumTheorems` is what the layers about money rest on: what `SumFunctionOnSet` of the
community modules returns for any finite set (one term apart, equal terms, sums of
sums, unions, one value changed). The library's induction theorems take a predicate as
a parameter and cannot be used; instead each fact is proved by its smallest
counterexample among the subsets (`MinimalSubset`, from well-foundedness of the
subset ordering), or among the natural numbers (`LeastNumber`).

### Planner and matching engine

`MatchingEngine_proofs` proves, for any orders, takers, quotes, cap on slices and
bounds that meet `MatchingAssumption` (ids of quotes are not ids of orders, orders
and takers have the shape the code gives them, no bid of the market maker is below zero:
the lowest of the code's five is half a percent under the middle):

| Theorem | States |
|---|---|
| `Inductive` | `[]MatchingInv` |
| `TypeCorrect` | `[]TypeOK` |
| `ContractHolds` | `[]PlanKeepsContract` |
| `Implements` | `KeepsPromise`: the specification `AtomicBook` through the refinement mapping |

1. The planner. A state of its walk is related to the rows it started with (`Ledger`):
   what a row had is what the slices took of it plus what the queue still has; a lot
   shown later has a number above all others. `Queued` says that the queue is in order,
   `NobodyPassed` that of whoever still waits none was ahead of a row that has traded.
   `MatchPlaces` says what one step does to each place of the queue; `LedgerStep` and
   `OrderStep` that the step keeps the three. They hold at the end of the walk
   (`WalkKeeps`), also when the cap cut it short, and give the contract.
2. The book. Placing, removing, reducing, refreshing and pruning each keep a book in
   order (`Kept`: one row of an order, one row of a quote, no two of one number,
   nothing numbered above the counter) and change what can be seen of it as
   `AtomicBook` says (`PlacedKeeps`, `RemovedKeeps`, `ReducedKeeps`, `RefreshedKeeps`,
   `PrunedKeeps`).
3. The engine. `BooksInOrder` says that the book a reservation would go back to is in
   order too, `PlacedOnce` that the changes that wait place no order that has a row in
   either book, or twice, and `HooksOwed` that the hooks that wait report what the
   execution took from virtual orders. None is inductive without the others: a
   release makes all the changes in one step, in whichever book it leaves.
4. The refinement. The changes that wait are made by a recursive function. One change
   more is one step more of it (`ReleasedOneMore`), and the outcome as seen from
   outside does not depend on the clock at which they are made (`ReleasedAnyTime`):
   that is why `AtomicBook` may make each of them at once, in both of its books. Each
   action maps to one of its actions (`PlaceMaps` to `RollbackMaps`), the passing of
   time to none.

What recursive functions compute is proved with lemmas about runs (`RunExists`,
`RunStays`, `RunsAgree`) that look at the first step at which a claim would fail, since
the library's induction theorems take a predicate as a parameter. `MCMatchingInvariants`
checks the invariant on the instance of run `matching`.

### The other components

`Services_proofs` proves of `GameApi`, for any keys, bodies, clients, readers and
bounds that meet `GameApiAssumption`:

* `TypeCorrect`: `Spec => []TypeOK`;
* `KeyOnce`: `Spec => []CarriedOutOnce`;
* `AnswersTrue`: `Spec => []AnswersAreTrue`;
* `SnapshotFresh`: `Spec => []SnapshotShowsAnswer`.

`IInv` adds three parts to the properties. `OneWay` follows a key: it is at work in one
handler, or sent in one call, or carried out, and recorded in the journal all the
while; a handler about to send has not sent. This is what makes `CarriedOutOnce`
inductive although a call can outlive its handler and the process. `RepliesAreTrue`
follows the outcome back: what a handler heard, the journal records and a client was
told is what happened, and a key that was refused is not on its way any more.
`LoadsAreFresh` says that a load that was not invalidated, the cache, and what joined
readers will get are at least as new as what was told when they asked. Commands and
streams share few variables; `CommandsAlone` and `StreamsAlone` say which, so that each
handler step is proved about its own half.

`Identity_proofs` (any handlers, rows and requests) proves `TypeCorrect`, `Rotation`
(`Spec => []OneUsablePerCode`) and `Revocation` (`Spec => []CutStaysCut`). `Shape` says
which row a handler holds at each step; `Chains` is the stronger count that makes
rotation inductive: of a code there is one live token or one handler about to issue
one, never both, and neither before the code is spent; `Cut` follows the withdrawn
consent through the handlers that read the grant before.

`Season_proofs` (any players, markets, prizes and durations) proves `TypeCorrect`,
`OneSeason` (`Spec => []OneLiveSeason`), `History` (`Spec => SettledIsFinal`, an
action property) and `PrizesPaid` (`Spec => []PrizesFollowReturns`). `Creating` says that
whoever is about to create a season has seen its predecessor settled; `Opens` that an
enrolment may start only a season that is new or started today; `Queue` and `Works` that
whoever waits to settle, or settles, does it to the last season after its days have run.
`Opens` and `Works` exclude each other, and that is why no enrolment reopens what is
being settled. `Prized` follows the ranks and points: `Recorded` says which entries
carry the ranking so far, and that it is a ranking of the equities of all who take
part; `AwardTrue` who has been paid (whoever has a place on the podium and a saved
entry); `PointsTrue` that an account's points are a sum over the seasons, in which the
season being awarded counts as soon as the prize has reached the account.

`MarketDay_proofs` (any dates, requests, crashes, failed calls and hung ticks) proves
`TypeCorrect` and `Balances` (`Spec => []NoLostChange`) under the assumption
`LoneLeverage`, and `DaysOnce` (`Spec => []DaysEndOnce`), `DividendsPaid`
(`Spec => []DividendsReachHolders`) and `LateOrdersEnd` (`Spec => []LateOrdersDie`) under
`Steady`: `LoneLeverage`, no tick that comes back after the watchdog gave it up, and a
last save of the close that succeeds. Without `LoneLeverage` balances are lost
(`MCLeverageRace`); without the other two a date is closed twice (`MCSlowTick`, and
Observations). The layers:

1. `Copies`: only the first job of the settlement chain holds a copy of the account
   rows, and what it says of the cash is what the rows say, so writing it back loses
   nothing, however many ticks, hung or not, have jobs in the chain. `DayCopies` says
   the same of the day an account is settled for.
2. `OneLoop`: one loop of the tick is running, and the chain holds at most one job of
   its own, for which it waits. A loop that hangs leaves at most a job that ends.
3. `Consistent`, of the calendar in memory and of the one in the store: every day that
   ended, ended on a date that is closed, but for the one whose close the record says
   is not finished; the fund and the accounts are as far as the record says. That it
   holds in both places is why a crash, which replaces one by the other, keeps it.
4. `Stage` and `JobAt`: where a running loop, or the job it waits for, is in the close,
   and what has been saved by then.
5. `Dividends`: what is due has been paid before its day ends; `Opening`: the first
   minute of a day is on its way to cancel the late orders of the day before.

`MCMarketInvariants` checks the layers on the instance of run `market_day`; they were
also checked with three troubles and two hung ticks before they were proved.

Of `Chat` the same module proves, for any handlers, pages, files and bounds that meet
`ChatAssumption`, `ChatTypeCorrect`, `PagesComplete` (`NothingMissed`), `AnswersOrdered`
(`AnsweredInOrder`) and `FilesKept` (`SentFilesStay`).
`Numbered` keeps the counter ahead of what is stored and of what handlers hold,
`Distinct` keeps numbers apart, `Paged` says that what a page still lacks lies before
its cursor, and `Filed` that the cleanup holds only files that were old before they
were sent.

`LabBook_proofs` (any accounts, prices, quantities, fee and tape) proves `TypeCorrect`,
`ReservationsHold` (`ReservesCovered`), `Uncrossed` (`NotCrossed`), `Priority`
(`NobodyPassedOver`), `ReservationsExact` (`ReservesMatchBook`), `MoneyStays`
(`Conserved`) and `SearchRight` (`SearchFindsMost`). The arithmetic is
`ReserveCoversCost`: a fee rounded up on every fill never exceeds a reservation rounded
up on every share. `TakerCovered` adds what the order at work may still cost, `Dated`
that trades and resting orders are in the order of their events, `Apart` that no two
resting orders share an identifier, so that a reservation is a sum over the book.
`SearchRight` is about a recursive function, the binary search of `affordableQuantity`:
that it has a value everywhere, and that the value is the largest affordable quantity,
are both shown at the narrowest interval where they would fail.

### Only model-checked

* Liveness, which is out of the prover's reach as fairness and ENABLED are:
  `EveryOrderAnswered`, `StopsInTheEnd`, `KnownDateCloses` and `DueIsSettled`.
* `FillsRecorded`, `BookBacked` and `TerminalIsFinal` where AI traders or a margin call
  take part: they do not hold there in general, and runs `orders` and `faults` say for
  which instances they do.

## Findings

1. `forced_refusal`: `forceLiquidateInner` ignores that a counterparty's settlement
   was refused. The row goes back to the book, and the liquidated account is
   credited in full all the same.
2. `season_replay`: points are saved before the mark that they were paid; a crash in
   between makes the replay pay again.
3. `same_day_sale`: a buy is stamped with the engine's game day, which is set when the
   first minute is generated. A buy in the opening auction gets the day before, is
   unlocked in the first minute and can be sold the same day.

## Observations

What follows was met while modelling. Where a configuration is named, it reproduces
the behaviour; none of it is a run.

* Trading engine. The sweep loads all pending rows once; when a stop it fires fills a
  resting order, it later executes the copy of that order it had loaded, and the
  order trades more than its quantity (`MCStaleCopy`). A stop order sent with a price
  goes into the book and trades before its trigger (`MCPricedStop`). An AI trade saves
  a counterparty's row from a copy read outside both chains and can overwrite a fill
  that was committed in between (`MCAgentRace`). When the first execution of a limit
  order is refused, its remainder stays in the book, unreserved, until the cancelled
  row has been saved and removed (`pc` "failed", then "unbook"). The lot an iceberg
  reveals gets the clock of the rows the plan could match, so it may stand before a
  later row of the taker himself, which the plan left out.
* Market day. `setLeverage` reads and saves the account row outside the settlement
  chain, although the engine's header says that every read-modify-write of funds goes
  through it; a transfer in between is undone (`MCLeverageRace`). A tick that was
  given up by the watchdog and comes back can end a second game day on one date
  (`MCSlowTick`). A crash between the save of an account and the mark on its dividend
  snapshot pays the dividend twice. When the last save of a close fails, the record
  is gone from memory and the date is closed again by the next tick. A database error
  in the dividend jobs is caught and the dividend is not tried again.
* Identity. A one-time link is read and marked in two statements, so two clicks at
  once both succeed; two concurrent requests for a link leave two usable ones. A code
  issued before a disconnect gives the grant again when it is exchanged. A token that
  was inserted after a revocation ran is usable once consent is given again. A refresh
  looks only at the five newest sessions.
* Chat. A file that was moved and whose row was never saved is known to nobody and is
  never removed. Two sends of one attachment both store their message, and the file
  belongs to the later one. When the query for the highest number fails at the start,
  numbering goes on from the clock alone. A stream whose connection closes while it is
  being authorised stays subscribed.
* Game API. A stream can show an older version after a newer one, when a detached load
  lands late. A retry answered from the journal between its UPDATE and the
  invalidation can be followed by a snapshot up to a second old. The TypeScript game
  API (`remaster/apps/game-api/unified-ledger.ts`) follows the same journal protocol.

## Not modelled

Order-flow impact, slippage and price generation choose numbers and nothing else.
Bots place ordinary orders through `OrderService`. Rankings and the gateway are
fan-out; blog, resources, webmail, arcade and game saves are storage without a
protocol of their own. The backtest engine, and the statistics, bots and practice exchange of
the remaster's rules engine, are sequential computations on their input, covered by
their own tests. Auctions and the
closing session as executions, short selling and targeted liquidation are left out of
the trading engine; key rotation, rate limits, disabled identities, PKCE and scopes of
identities; sign-in and remembered roles of the Go API. `PROJECT.json` lists each
component with its reason, and the hazards no property covers.

## Plan

1. `Auction`: opening and closing calls (`matching-engine.ts` 474-575,
   `trading-engine.service.ts` 1075-1210). One price that maximises volume;
   fills settled one by one, of which a later one can fail. With it, the window
   between a refused first execution and `Unbook`.
2. `ClosingSession` (1218-1312) and targeted liquidation (1511-1591): jobs of their own
   for taker and counterparties, and a reserved symbol that is skipped.
3. A restart in `TradingEngine`, with the books rebuilt from the price feed.
4. `FillLedger`: the four sides of `settleFillInner` (591-715) in cents, with minimum
   commissions, margins and short positions, as pure operators with lemmas.
5. Proofs. That `TradingEngine` may use `IsPlan` for the planner: that every plan of
   `FinitePlan`, seen order by order, is one that `IsPlan` allows. The theorems about
   the two modules are separate so far.
