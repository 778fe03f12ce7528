# A TLA+ model of SHIFT

SHIFT simulates a stock exchange for many traders at once. A DatafeedEngine
replays recorded quotes and trades, a MatchingEngine matches the orders of
clients with each other and with those quotes, a BrokerageCenter stands between
clients and the MatchingEngine and keeps their accounts, and clients use
LibCoreClient. The processes exchange FIX messages.

```
 clients (LibCoreClient, QtClient, WebClient)
    |  NewOrderSingle                     ^ reports, waiting list, portfolio,
    v                                     | order books, candlesticks
 BrokerageCenter: RiskManagement / OrderBook / CandlestickData
    |  NewOrderSingle                     ^ confirmations, execution reports,
    v                                     | order book updates
 MatchingEngine: one Market and one thread per symbol
    |  requests for chunks of data        ^ quotes and trades
    v                                     |
 DatafeedEngine (PostgreSQL, TRTH downloads)
```

## Inventory

| component | state | operations | what is hard | what makes it correct |
|---|---|---|---|---|
| `ContinuousStockMarket` with `Market`, `PriceLevel`, `Order` | local book (price levels of orders), global book (quotes), two queues, cursors into the lists, buffers of reports and updates | match, rest, cancel; take a quote or a trade of the feed | loops that erase under their own cursor; skipped orders of the same trader; hidden market orders with sentinel prices; sizes kept twice | price-time priority, no share lost or made up, no execution worse than a limit, no crossed book, every handler ends |
| `FBAStockMarket` | local book with auction counters, next auction, last price | rest, cancel, batch auction | choice of the price, pro-rata division in a sorted level | one price, at most what both sides offer, the division ends |
| ME `FIXAcceptor` | set of targets, static fields | order in, reports, updates and snapshots out | snapshot against registration; order queued before its confirmation | who is connected sees every change |
| `Market::getNextOrder` | two queues stamped with simulated time | merge by time | stamps are taken before the push | no order overtakes an earlier one of its queue |
| `RiskManagement` (one per user) | buying power, held and borrowed balance, portfolio items, pending bids and asks, waiting list, two queues | check and forward an order; book a report | two threads and four mutexes; a report may overtake the bookkeeping of its order; restart | what is held is what is pending; reservations never exceed the long shares; finished orders leave the waiting list |
| BC `OrderBook`, `BCDocuments` | four books, targets, subscriptions | apply and forward updates, subscribe, unsubscribe | snapshot and registration are two steps, subscription is recorded in two places | a subscriber's book is the BrokerageCenter's book |
| `CandlestickData` | open candlestick, history, targets | transactions, history for a subscriber | gaps in time; history sent by a detached thread | one candlestick per period |
| DE `RequestsProcessorPerTarget` | queue of requests, future of the last download | market data request, next chunk | waits for downloads with its mutex held | every request is answered, in order |
| `CoreClient` (LibCoreClient) | submitted orders, executions, waiting list, order books | submit, cancel, store reports | reports in any order with its own requests | executed size and status agree |
| `concurrency::Consumer.h` | quit flag, condition variable | wait, quit | flag set without the mutex | who is told to quit does |
| WebClient: pages, push server, backend | `cur_symbol` in the localStorage that tabs share, a lock and sessions per tab, tables; last lists kept by the push server | change the symbol, load, subscribe, receive, send all books every second | storage events late or for another symbol; sessions that open after they were closed; handlers that reuse rows | a tab is about one symbol, a table shows the last list and no row of an older one |
| start-up, configuration, databases, cryptography, strategies, NewMatchingEngine, QtClient | | | input and output, user interfaces, data classes | not modelled, see `PROJECT.json` |

`PROJECT.json` lists every component with its sources, and every place of the
code that is hard to test (`hazards`).

## Plan

1. `OrderLedger`, `ContinuousMarket`, their proofs (done): the matching engine
   is what all else is about.
2. `RiskManagement`, its proofs (done but for the restart): the order thread and the report
   thread of one user as processes, with an environment that may do to an order
   what `OrderLedger` allows; the reservation invariants; the waiting list that
   a fast report leaves behind (a finding). Left: restart from the database.
3. `FBAMarket`, its proofs (done): the auction with an action for each turn of
   its loops; implements `OrderLedger` without its rule on self-trades; whether
   the division ends (a finding).
4. `BookFeed`, its proofs (done): the updates of a market replayed by the BrokerageCenter's
   order book and by a subscriber's, with logon and subscription in their real
   steps; what the broadcaster repairs and what it does not (a finding).
5. `WebClient`, its proofs (done but for the chart's points): the pages in the tabs
   of a browser, the push server and the backend.
6. Left: `StaticSlot` (the counter in front of the static fields of the FIX
   handlers), `ConsumerThread` (the quit protocol of all worker threads),
   `EventMerge`, `ClientOrders`, `DatafeedRequests`, `Candlestick`.

Theorem planned beyond those below: mutual exclusion of `StaticSlot`.

## Modules

| module | models | kind |
|---|---|---|
| `OrderLedger` | what a matching engine promises about the shares of an order | abstract specification |
| `OrderLedgerProofs` | `NeverOverfilled` | proofs |
| `ContinuousMarket` | `markets::ContinuousStockMarket` and what it uses of `markets::Market` | detailed specification |
| `MCContinuousMarket` | the feeds of the small instances | instances for TLC |
| `DataLemmas` | facts on `RemoveAt` and `InsertAt`; the laws of the community modules' sum of a function | lemmas |
| `ContinuousMarketProofs` | types and shares: an inductive invariant, and the refinement | proofs |
| `ContinuousBookProofs` | the books stay in order and exact; the matching misses nothing and respects priority and limits | proofs |
| `RiskManagement` | the BrokerageCenter's `RiskManagement`, `PortfolioSummary`, `PortfolioItem` of one user | detailed specification |
| `RiskManagementProofs` | the inductive invariant and what follows from it | proofs |
| `MCRiskManagement` | the orders of the small instances | instances for TLC |
| `FBAMarket` | `markets::FBAStockMarket` and what it uses of `markets::Market` | detailed specification |
| `FBAMarketProofs` | the inductive invariant of the auction, and what follows from it | proofs |
| `MCFBAMarket` | the orders of the small instances | instances for TLC |
| `BookFeed` | the order books from `Market` over `FIXAcceptor`, `OrderBook`, `BCDocuments` to LibCoreClient | composition |
| `BookFeedProofs` | the inductive invariant of what is on its way, and what follows from it | proofs |
| `MCBookFeed` | the books at the start | instances for TLC |
| `WebClient` | scripts of the pages, `Pusher`, `MainClient` and `UserClient` | composition |
| `WebClientProofs` | the inductive invariant of the pages, and what follows from it | proofs |
| `MCWebClient` | pages, books and lists of the small instances | instances for TLC |

### OrderLedger

One variable, `ledger`: for each order, who submitted it, how many shares, and
how many of them were executed and cancelled. A step submits an order, executes
open shares of two orders of different traders against each other, executes
open shares against the data feed, or cancels open shares.

### ContinuousMarket

One symbol. The market thread is a small program: `phase` says where in the
handler it is, and `m_spinlock` is held in every phase but `idle`.

| code | model |
|---|---|
| `operator()`, one iteration | `ReceiveOrder`, `ReceiveCancel` or `ReceiveFeed` to enter, the actions of `Handle`, `Send` to leave |
| `doLocalLimitBuy/Sell`, `doLocalMarketBuy/Sell` | phase `match`: `NextPriceLevel`, `SkipOwnOrder`, `SkipHiddenLevel`, `MatchLocal`, `MatchGlobal`, `StopMatching`, one action per branch of the loop |
| `insertLocalBid/Ask` | phase `insert`: `InsertLocal` |
| `doLocalCancelBid/Ask` | phase `cancel`: `DoLocalCancel` |
| `doGlobalLimitBuy/Sell`, `updateGlobalBids/Asks` | phase `feed`: `MatchFeed`, `TradeHitsBids`, `ReportTrade`, `UpdateGlobal` |
| `executeLocalOrder`, `executeGlobalOrder` | `ExecuteLocalOrder`, `ExecuteGlobalOrder` |
| `m_localBids`, `m_localAsks` | `localBook`: sequences of levels with a price, a size and the IDs of their orders |
| the `Order` objects in the lists | `orders`, by ID; an order that is not in the book has size 0 |
| `m_globalBids`, `m_globalAsks` | `globalBook` |
| `m_thisPriceLevel`, `m_thisLocalOrder` | `level`, `pos`; an index one past the last stands for `end()` |
| `m_executionReports`, `m_orderBookUpdates` | `reports`, `updates` |

The code has a function for each side and the functions for market orders are
the ones for limit orders without the test of the limit; the model has one
action with the side as a parameter and the kind of the order in its guard.

Abstractions and assumptions:

- Prices, sizes and IDs are numbers; `DblMin` and `DblMax` are a number below
  and one above all prices. A size here is below 2^31 by far: no overflow.
- A client's order and a cancellation are taken from their queue in the same
  step in which they are processed, and which queue is read next is a choice
  (`getNextOrder` decides by simulated time, which the model does not have).
  The queue of the feed is kept because quotes come in pairs.
- A market order has price 0, which is what the BrokerageCenter makes of it
  (`src/BrokerageCenter/src/FIXAcceptor.cpp:810`), and a cancellation carries
  the ID, side and price of an order that was submitted. Sizes are positive.
- `insertLocalBid` and `insertLocalAsk` compare the new price with
  `m_thisPriceLevel->getPrice()` also when that is `end()`. In the standard
  library's list the sentinel holds the length of the list at that place, which
  read as a `double` is positive and below every price, so the order is
  appended on either side, by one branch or by the other. The model appends.
- The ID of a feed order is 0. `ledger`, `cancels` and `delivered` are history:
  no action of the code reads them.

Properties, the first being the type invariant:

- `TypeOK`
- `BooksOrdered`: levels strictly ordered, quotes ordered with one per exchange
  and price. The loops stop at the first worse price and rely on it.
- `LevelsExact`: an order is in the book exactly once while it has shares, and
  the size of a level is the sum over its orders.
- `SharesAccounted`: submitted = executed + cancelled + in the book + in hand.
- `NoMissedMatch`: when the handler is done, no two orders of different traders
  cross and no local order crosses a quote.
- `PriceTimePriority`: each execution is of the order or quote that has priority.
- `PricesWithinLimits`: no execution is worse than a limit, none is at a sentinel.
- `HandlerEnds`: each handler ends.
- `LedgerSpec`: `ContinuousMarket` implements `OrderLedger`.

### RiskManagement

One user. Three kinds of process share the queues and the portfolio: the order
thread, the report thread, and the MatchingEngine.

| code | model |
|---|---|
| `enqueueOrder`, `enqueueExecRpt`, and the FIX session in front of each | appending to `orderBuffer`, `execRptBuffer` |
| `processOrder`, `verifyAndSendOrder` | `ReadUsable`, then `Verify` (`SendBid`, `SendAsk`, `SendCancel` or `RejectOrder`), then `ListOrder`; `step` is where the thread is |
| `usableBuyingPower` | `usable` |
| `processExecRpt` | `BookBuy`, `BookSell`, `BookCancelBid`, `BookCancelAsk`, then `UpdateWaitingList`; `booked` is where the thread is |
| `m_porfolioSummary`, `m_portfolioItems` | `summary`, `items` |
| `m_pendingBidOrders`, `m_pendingAskOrders`, `m_pendingShortCashAmount`, `m_pendingShortUnitAmount` | `pendingBids`, `pendingAsks`, `shortCash`, `shortUnits` |
| `m_waitingList` | `waitingList`, without the order of size 0 that is always in it |
| `PortfolioSummary::holdBalance` and the like | `HoldBalance` and the like |
| MatchingEngine `onMessage(NewOrderSingle)` | `BufferMessage`, then `ConfirmMessage` |
| the market and its reports | `Execute`, `CarryOutCancel` |

Abstractions and assumptions:

- A step is what a thread does while it holds the mutexes of what it touches.
  The two reads of shared state between which the locks are released, the
  reading of the buying power and the decision, are two steps; sending
  the order is part of the decision, since the report thread touches nothing of it.
- Each thread holds the mutex of its queue for a whole turn, so whoever fills
  the queue waits. A waiting message and a buffered one are the same here: one
  queue stands for both.
- Money is in cents. What is returned when short shares are bought back is
  `floor(ret * 100) / 100` in doubles: a proportion rounded down, where a
  result that is a whole number of cents may come out one cent lower
  (`1.13 * 100` is below 113). `RoundingLoss` allows both. So a cent may stay
  borrowed when no short share is left.
- A market order is valued at any price or at none (`Valuations`); its execution
  may be at any price. The execution of a limit order is within its limit, which
  `PricesWithinLimits` shows of the market.
- A portfolio item exists for every symbol from the start: `processOrder`
  inserts an empty one when it is missing.
- Identities are unique. A cancellation carries the side and the price of its
  order, as `CoreClient::submitCancellation` makes it.
- `traded`, `open` and `orders` are the environment's: no action of the two
  threads decides by `open` or `traded`, and by `orders` only by what the message or the report carries.
- Profit and loss, average prices, share counts and the database are left out: nothing
  reads them to decide.

Properties, the first being the type invariant:

- `TypeOK`
- `HoldingsBacked`: the money held is that of the pending buy orders.
- `ReservationsExact`: cash and shares reserved are those of the pending sell
  orders; no share is reserved twice.
- `CashConserved`, `PositionConserved`: money and shares agree with what the
  market executed and with the reports that are on their way.
- `PendingExact`: no report meets an order that is not pending, and no order
  stays pending when nothing is left of it.
- `UnfinishedListed`: an order leaves the waiting list only when it is finished.
- `FinishedUnlisted`, `CanRecover`: do not hold, see the findings.

### FBAMarket

One symbol. `phase` says where in `operator()` the market thread is;
`m_spinlock` is held in every phase but `idle` and `publish`.

| code | model |
|---|---|
| `insertLocalBid/Ask`, `doLocalCancelBid/Ask` | `InsertLocal`, `DoLocalCancel` |
| `doBatchAuction`, first step | `StartAuction`; phase `price` with one `ReadRow` per turn of the loop over the table, whose rows `rows` are read in the code's order and chosen by `Beats`; `AnnouncePrice` |
| `s_determineExecutionSizes` | `DivideWhole`, or `DivideInTurn` and one `DivideTurn` per turn of its `while` loop |
| `doBatchAuction`, second step | phase `share` for the outer loop, phase `match` for the inner one: `StartMatching`, `MatchPair`, `EndLevel`, `EndMatching` |
| `doIncrementAuctionCounters`, `sendExecutionReports` | `CloseAuction` |
| `sendOrderBookData("", false, FBA_ORDER_BOOK_MAX_LEVEL)` | `Publish` |
| `FIXAcceptor::onLogon`, whose `sendOrderBookData(targetID)` waits for `m_spinlock` | `OnLogon` |
| `thisBidOrder`, `thisAskOrder`, `bidSizes`, `askSizes` | `pos`, `shares` |

Abstractions and assumptions: an auction may be due at any time between two
orders, since the model has no clock; quotes and trades of the feed fall through
the `switch` and are left out; the sentinel of a list is read as in
`ContinuousMarket`; `auctionCounter` is not counted below -1, where it no longer
matters. The difference between the largest double and a price is the largest
double: the third rule cannot tell prices apart then. Orders of one
trader may match, so in the refinement each order has a trader of its own.
`published` is what a broker was last sent, be it by the broadcast after an auction
or at its logon; the registration after the logon and the global book are in
`BookFeed`.

Two things the code does that no document speaks of, and that the model does as
well: a broker that logs on while orders are submitted is sent the book of that
moment, which may be crossed, although changes are not broadcast then; and the
price of a hidden market order, a sentinel, may win by the second rule and become the
price of the auction (a market bid and a limit bid of 10 each against a limit ask of 10).
`TradesSound` and `PriceRules` hold of such an auction.

Properties, the first being the type invariant: `TypeOK`; `LevelsExact`;
`SharesAccounted`; `LevelsByAge` (on which the division relies); `TradesSound`
(one price within all limits, no empty execution, as many shares as announced);
`AuctionClears` (nothing is left that crosses); `PublishedUncrossed` (the broadcast
after an auction is not crossed, whatever was sent at logons before, and nothing
sent shows a sentinel);
`PriceRules` (the three rules, against all rows although the code stops early);
`FairDivision` (all shares handed out, older orders first, equal parts to a
share, in a level that is sorted); `LedgerSpec`. `AuctionEnds` does not hold.

### BookFeed

The asks of one symbol; the books of the bids are the mirror image. The market
is open: any legal sequence of updates of its global and its local book.

| code | model |
|---|---|
| MatchingEngine `onLogon`: `sendOrderBookData`, then `m_targetSet.insert` | `LogonSends`, `LogonRegisters` |
| `addOrderBookUpdate`, `sendOrderBookUpdates` | `LocalLevel`, `Quote`, `TakeQuote` |
| the FIX session and `m_obeBuff` | `feed` |
| `OrderBook::process` | `SaveUpdate`, `SendUpdate`; the entry leaves the buffer at the end |
| `onSubscribeOrderBook` | `SubscribeSends`, `SubscribeRegisters` |
| `onUnsubscribeOrderBook`, `unregisterTargetFromOrderBooks` | `OnUnsubscribe`, `OnLogout` |
| `s_broadcastOrderBooks` | `BroadcastOrderBooks` |
| `setOrderBook`, `update` of the client's books | `Receive` |

Abstractions and assumptions: a book maps price and destination to a size (`SizeAt`,
0 where it has no entry: entries of size 0 are kept by some books and not by
others); the entries of a book are sent by price, in any order within one
price; FIX sessions keep the order and do not fail; the acceptor of the BrokerageCenter is a
`SocketAcceptor`, one thread serves all its clients, so a subscription and a
logout do not overlap; a target list is copied and used in one step.
`unseen` and `gaps` are history: the books that changed between the two
halves of the logon, and those of which a client missed an update.

Properties, the first being the type invariant: `TypeOK`; `MirrorExact` (the
BrokerageCenter's books are the market's once all has arrived, but for what the
logon lets pass, which nothing repairs; what will be at a place is what the last
message that says something of it says, `Saying` and `Telling`); `ClientCurrent` (a client that missed
nothing has the BrokerageCenter's books, whatever the order of whole books and
updates from three threads); `NonEmptyRefreshed` (what a client missed of a book
that is not empty is repaired). `AllRefreshed` does not hold.

### WebClient

The tabs of one browser and one user.

| code | model |
|---|---|
| `localStorage` and its events | `curSymbol`, `events` |
| `refreshSymbol`, arrow keys, the order form | `RefreshSymbol` |
| handlers of `refreshSymbolEvent storage` | `Follow`, `Reloads`, in `RefreshSymbol` and `StorageEvent` |
| `ticker_locked`, `togglelock` | `tab[t].locked`, `ToggleLock` |
| `ab.Session` of a page and of the last price | `main`, `conn`; `MainOpens`, `ConnOpens`, and `LeakedOpens` for a session that `close()` did not close since it was connecting |
| `Pusher::onSubscribe`, `onData` | `MainOpens`, `OnData` |
| `MainClient::checkEverySecond`, `sendOnce` | `CheckEverySecond`, `SendOnce` |
| handlers of the messages | `BookRows`, `PortfolioRows`, `WaitingRows`, `SubmittedRows` |

Abstractions and assumptions: a list is a sequence of model values; a page is
loaded in one step; a session subscribes at the server when it opens; the backend
reads a list and hands it to the push server in one step, although
`UserClient::receiveWaitingList` copies first and sends later, in two threads; the
push server handles the messages of one send one after the other in one step. The
portfolio has arrived (`isOpenBPReady`) when the backend starts to send it. The box
of the lock shows `ticker_locked` when a page is loaded; if an item `tickerlocked` of
the localStorage is false it shows the contrary, and the first click does
nothing. What autobahn, the browser and ZeroMQ do is taken from how the scripts use
them.

A book may end in a level of size 0: `OrderBook::getOrderBook` skips such
entries but for the last one, and a best quote that is used up stays in the
client's book (`OrderBookGlobalAsk::update`) when a better one comes in front of it.
The handler of the order book clears the whole table on it, the better levels
included.

Properties, the first being the type invariant: `TypeOK`; `TabFollows` (an order
goes to the stock on the screen); `SubmittedShown`; `PagesSettle` (in the end a
page shows what the backend has, but nothing of a book that ends in a used-up
level, `Showable`). The waiting
list has no property: its handler (`myportfolio.js:245`) removes a node of the
first cell from the seventh, which throws, so that a row that is there is never
written over (`WaitingRows`).

## Runs

| run | instance | shows |
|---|---|---|
| `continuous` | 2 traders, 2 prices, sizes 1 and 2, 4 orders or cancellations, no feed | every safety property and the refinement, about a million states |
| `continuous_feed` | 2 traders, 3 prices, 2 exchanges, 2 orders or cancellations, 2 quotes or trades | the same against a feed, and the inductive invariant, about 1.8 million states |
| `continuous_progress` | 2 traders, 2 prices, 2 orders, 1 quote or trade | `HandlerEnds` under `FairSpec` |
| `repeated_quote` | a feed that repeats one quote | a violation, see below |
| `risk` | 2 orders of four kinds, 1 cancellation, 2 symbols, 2 prices, sizes 1 and 2 | the invariants of `RiskManagement`, about 2.2 million states |
| `stale_buying_power` | 2 short sells | a violation, see below |
| `finished_order` | the instance of `risk` | a violation, see below |
| `auction` | 4 orders of two prices and sizes, market orders, 1 cancellation, 2 auctions, logons at any time | every safety property, the action properties and the refinement, about 2.2 million states |
| `auction_ends` | 5 orders at one price, 2 auctions | a violation, see below |
| `book_feed` | 1 client with 2 requests, 2 quotes and 1 level at the start, 2 updates | the invariants and `NonEmptyRefreshed`, about 800 thousand states |
| `stale_book` | the instance of `book_feed` | a violation, see below |
| `web_pages` | 2 tabs with four choices of pages, 2 symbols, 2 changes | the invariants and `PagesSettle`, about 135 thousand states |

Why these bounds are enough: with four requests there are two levels on a
side, two orders in a level, an own order in front of a foreign one, a hidden
market order in front of a limit order and an order that takes both, partial
fills, and cancellations of all, a part, and more than is left. With three
prices and two exchanges a quote falls behind, between and in front of others, replaces
one of its exchange, and removes better ones. The bounds `MaxOrders`,
`MaxRequests` and `MaxFeed` are in the guards of the actions that submit and
deliver; a run ends when they are used up, so deadlock is not checked. Traders are
symmetric in the safety runs.

For `risk`, two orders are two at once in every stage: one being verified while
the other is executed or booked. The user has one lot of one symbol, so the
orders reserve, borrow, sell both kinds in one execution, are cancelled
in either part, and buy back less, as much, or more than was borrowed.
`BuyingPower` is such that some orders are rejected. `MaxOrders` and
`MaxCancels` are in the guards of `SubmitOrder` and `SubmitCancel`.

For `auction`, four orders and two auctions are enough for a level with three
orders of two ages, a level that is divided while the other side is used up, a
market order on either side, ties in each of the three rules, and a book that is
crossed by market orders alone. A second auction on what the first one left
takes five orders to hang, which is the instance of `auction_ends`.

For `book_feed`, a client with two requests subscribes twice, or subscribes and
leaves; two updates put one between any two halves of a step and one after it.
The broadcaster sends only to clients whose messages have arrived (`MaxWire`),
which bounds the queue; it may send again and again. For `web_pages`, two changes
race with each other and with loading; each kind of page is in a tab, and
lists have up to two rows, so that rows are added, written over and deleted, and
a book may end in a level that is used up.
`MaxInbox` bounds the messages that wait for a page.

Fairness, in `FairSpec` of each module, is weak fairness only:

- `ContinuousMarket`, `FBAMarket`: the market thread, which loops until the
  simulation ends and, inside a handler or an auction, waits for nothing.
- `BookFeed`: the logon, the update thread, the broadcaster, the acceptor's
  thread and the reception of each client. Each is a loop that goes on until the
  program ends and holds its locks for a step.
- `WebClient`: the event loop of each tab and the thread of
  `checkEverySecond`. What is sent on request is not assumed to be sent.

Nothing is asked of clients, users and the data feed.

### Findings

`stale_buying_power`: the comment at `RiskManagement.cpp:480` says that the test
in front of it makes sure that the user can buy everything back. The test
compares the borrowed balance with a buying power that was read before the
locks were released and taken again; an execution of a short sell at a better
price than that of its order, booked in between, makes the first larger and the
second smaller. TLC shows an order that is accepted although the
borrowed balance is not below the usable buying power.

`finished_order`: `CoreClient::cancelAllPendingOrders` waits for the waiting
list to be empty "to make sure cancellations went through", and
`test_CancelBid.cpp:40` expects a cancelled order to leave it. An order is put on
the list after it was sent; a report that is booked in between finds no entry
to count in, and the entry made afterwards never reaches its size.

`repeated_quote`: the comments at `ContinuousStockMarket.cpp:121` and `:134`
say that a quote with the same price, size and destination is skipped. Each is
compared with `prevGlobalOrder`, which both sides share, while
`FIXInitiator::onMessage(Quote)` queues an ask and a bid for every quote: the
previous order is always of the other side, and nothing is ever skipped.

`auction_ends`: the comments at `FBAStockMarket.cpp:192` and `:196` say that the
orders of a level are ordered by counter and size, and the division breaks off a
turn at the first order of its counter that is full. An execution of a part
of the front order makes it smaller than those behind it, and nothing sorts the
level before the next auction: each turn then breaks off at the front order while
shares are left, and the market thread stays in the loop with `m_spinlock` held.

`stale_book`: the comment at `main.cpp:68` of the BrokerageCenter says that the
full order book of every stock is broadcast, to force a refresh. A book that is
empty is not sent. A client that was sent a whole book and is registered after
the update that emptied it keeps its levels, however often the broadcaster
runs.

## Proofs

`ContinuousMarketProofs` proves, for any set of traders, prices, sizes, quotes
and trades that satisfies `MarketAssumption` and any bounds:

- `Accounts`: `AccountsInv` is an invariant. `SharesAccounted` alone is not
  inductive: an execution takes shares from `nextOrder` and from an order of
  the book, so one must know that `nextOrder` is a submitted order which is not
  in the book (`NextOrderKnown`), that the ledger has an entry for each order
  (`LedgerKnown`) and that sizes are natural numbers (`TypeOK`). The proof has
  one lemma per action.
- `Types`, `Shares`: the two properties that runs check, from `Accounts`.
- `ImplementsLedger`: each step submits, executes or cancels as `OrderLedger`
  allows, or leaves `ledger` unchanged. An execution of two orders is one of
  different traders by the guard of `MatchLocal`, and of open shares by
  `SharesAccounted`.
- `NeverOverfilled`: `OrderLedgerProofs` proves it of `OrderLedger`, and the
  refinement carries it over.

`ContinuousBookProofs` proves `BooksStayOrdered` and `LevelsStayExact` from an
invariant on top of that one, `BookInv`:

- `SidesExact`: levels are strictly best first; the orders of a level rest there
  with shares left, by age, at its price and with sizes that add up to its own;
  and every order with shares left is in a level. "Exactly one place" follows:
  prices differ between levels and IDs grow in a level.
- `QuotesInOrder`: quotes are best first and those of one price are of different
  exchanges. A new quote erases the better ones, so what is kept is a suffix.
- `InHandKnown`: the order in hand is the last one that came in, which is why it
  joins a level behind all others, and is on the side that is not matched.

What an erasure, a change and an insertion do to a sequence is proved once
(`BookAfterLevels`, `InsertedLevels`, `WithQuoteOrdered`); that the sum of a
level follows its size is in `DataLemmas`.

`ContinuousBookProofs` also proves `NothingMissed`, `BestFirst` and `FairPrices`,
the properties `NoMissedMatch`, `PriceTimePriority` and `PricesWithinLimits`.
`NoMissedMatch` speaks of the state between two handlers; `MatchInv` says what
a handler has established on the way: the places that the cursor has passed
hold own orders, or both orders are market orders and the cursor is at the end
(`Passed`); when the loop has stopped and the rest is about to be inserted,
no order and no quote of the other side is within its limit (`Unmatched`); resting
market orders have the price ahead of all others (`MarketsHidden`); and the books do
not cross in any phase (`NoneCross`). An execution takes the order at the cursor,
and with `BookInv` everything behind the cursor is worse or younger.

`RiskManagementProofs` proves, for any finite set of symbols, any prices, sizes,
holdings and orders that satisfy `RiskAssumption` and any number of orders and
cancellations, all invariants that the run `risk` checks:

- `RiskInvariant`: `RiskInv` is an invariant. None of the six safety invariants
  is inductive alone. The report thread books what a report says without
  looking at what was ordered, so one must know that the order of a report is
  pending with at least the size of the report, which is `PendingExact`; that
  in turn needs to know where an order is. `RequestsQueued`, `MarketOrders` and
  `ReportsSound` say so: an order is in exactly one of `orderBuffer`, `toMarket`
  and `open`; what `confirming`, `cancels` and the reports name was sent, and a
  report agrees with its order in side, symbol and limit. `EntriesOK` gives the
  pending orders the prices and sizes that the order thread may have put there.
  `ListedWithin` bounds what an entry of the waiting list has counted by what was
  executed, so that it is not dropped while something is pending. `RiskInv` itself
  was checked by TLC on the instance of `risk` before it was proved.
- `RiskTypes`, `HoldingsAlwaysBacked`, `ReservationsAlwaysExact`,
  `CashAlwaysConserved`, `PositionAlwaysConserved`, `PendingAlwaysExact`,
  `UnfinishedAlwaysListed`: the seven invariants, each from `RiskInvariant`.
- The proof has one lemma per action of the two threads and of the
  MatchingEngine. The actions of the report thread are split into what a report
  does to the queues, to one entry, and to the balances: all sums change by
  the one entry or report that is added, removed or changed, which is linear
  arithmetic once the sums are named.

`DataLemmas` proves the laws of `SumFunction` that this rests on: a sum over one
more element, over one less, and over one that changes. The sum is a fold, a
recursive function over the subsets of its domain; that such a function exists
is proved by induction. The library's induction theorems take an operator as
a parameter; here the induction hypothesis is a set (of numbers, or of
subsets), and the least number outside of it leads to a contradiction.
`RiskAssumption` asks for a finite set of symbols because `PositionConserved`
adds over them; the portfolio of a user is a finite table.

`FBAMarketProofs` proves, for any finite or infinite set of prices, any orders that
satisfy `AuctionAssumption` and any bounds, every property that the run
`auction` checks: the seven invariants, the two action properties and the
refinement. All follow from `AuctionInvariant`: `Inv` is an invariant. It says of
each phase of an auction what the code relies on in the next one, and was checked by
TLC on the instance of `auction` before it was proved.

- `BookInv`, `NoneEmpty`: the levels are strictly best first, hold the orders with
  shares left by age, and have the size of their orders. An empty level exists
  only inside the inner loop of the matching, in front of its book. `LevelsExact`
  and `LevelsByAge` follow.
- `PriceSoFar`: the price is the best of the rows read, and the rows read are the
  lower ones. The early end of the reading is sound because what both sides
  offer at a price grows on one side and falls on the other with the price
  (`OfferedMonotone`): once fewer shares match, no higher row matches more
  (`FewerMatch`). `PriceFollowsRules` follows.
- `Parts`: the parts handed out fit the orders they were cut from, from the
  cursor `pos` on, and are either the whole level or add up to what is still to
  be executed with nothing but zeros behind the first zero (`InTurn`). During a
  division the orders older than its counter have all their shares and the younger
  ones none (`BeingDivided`), and, in a level that is sorted by size, those of
  the counter have equal parts or are full (`Even`). `DivisionsFair` follows.
- `Enough`: both sides offer what is still to be executed at the price, and one
  of them exactly that: it is used up level by level, whole (`Tight`). So when
  it is done the auction is done, no trade is of no share, and no side runs out of
  levels before. `TradesAlwaysSound` follows with `Reported`, which counts what was
  announced against what was reported.
- `Most`: at no price of the book more could be matched than is still to be
  executed. When nothing is left to execute, nothing crosses: `AuctionsClear`,
  and `PublishedNeverCrossed` with `Uncrossed`, which also covers the auction that
  does not start. `MarketsHidden`, that no sentinel is sent, holds of a
  logon as well, since it only asks where a level comes from.
- `LedgerInv`: `SharesAlwaysAccounted`; `AuctionImplementsLedger` adds to it that
  each action submits, executes or cancels as `OrderLedger` allows.

The lemmas on the model's operators carry most of it: sorting a level by rank
keeps its orders and puts the older in front (`SortedLevel`), what an
insertion, a cancellation and a trade do to a sorted side (`InsertedTended`,
`CancelledTended`, `TradedBook`), and what a turn of the division does to the
parts, stated on numbers alone (`TurnKeepsAges`, `TurnKeepsEven`).
`AuctionAssumption` asks that the bounds on levels and orders are numbers and that
prices lie strictly between the two sentinels.

`BookFeedProofs` proves, for any clients, prices, sizes, exchanges and books at the
start that satisfy `FeedAssumption` and any number of updates and requests, the
three invariants that the run `book_feed` checks. All follow from
`FeedInvariant`: `FeedInv` is an invariant.

- What is at a place of a book in the end is what the last message that says
  something of it says. So messages that follow others are told on top of them
  (`ToldConcat`), the first one is told first (`ToldHead`), and both parts of the
  feed are compositions of one argument.
- Applying an entry to a book leaves in each place what the entry says of it
  (`SaveLeaves`), in the BrokerageCenter and in the client, although they treat
  entries of size 0 differently. What the market sends says what it did to its own
  book (`MarketTells`): taking the best quote removes no other, since there is none
  before it.
- The list sent at logon, the worst price first, says what is in the book,
  whatever came before (`WorstFirstSays`, `OrderBookDataSays`): each quote speaks for all
  better places, but the places of the book speak for themselves later.
- `MirrorExact` is not inductive with `TypeOK`, since the entry that
  `OrderBook::process` has saved stays in the buffer until it is sent, and counts
  twice: `SavedInv` says that it changes nothing the second time.
- `ClientCurrent` says nothing of a book whose update is saved and not sent yet;
  `ClientInv` does: the client has the book of the BrokerageCenter when that entry
  is told last. It is so for an update that is sent next, for a whole book that
  the broadcaster or a subscription sends in between, which already contains the
  entry, and for a client that is no target, which misses it.

`FeedAssumption` asks that prices and exchanges are finitely many, so that a book
can be sent. `FeedInv` was checked by TLC on the instance of `book_feed` before it
was proved.

`WebClientProofs` proves, for any stocks, tabs, lists and order books that satisfy
`WebAssumption` and any number of changes, the three invariants that the run
`web_pages` checks. All follow from `PagesInvariant`: `WebInv` is an invariant, which
was checked by TLC on the instance of `web_pages` before it was proved.

- `TabFollows` speaks of a tab whose sessions are open; `Follows` says of each
  session alone that it is about `cur_symbol` if it is open, and of the order form
  and the title whether or not any is. A session that could not be closed adds
  `cur_symbol` to one that has it already.
- `SubmittedShown` speaks of a tab to which nothing is on its way. `Shown` says that
  the last list of submitted orders on its way is the one that is stored, or, if
  there is none, that the table shows it (`ShownBy`). A message at the end of
  the queue is the stored one (`ShownPassed`) or about something else
  (`ShownSkipped`); a handler leaves exactly the rows of the list (`CutOverwritten`).
- What the messages of one send leave stored, and what of them reaches a tab, are
  recursive functions (`StoredAfter`, `PassedOn`): the induction is over
  the number of messages handled, with `DataLemmas`' set of numbers.

`WebAssumption` asks that lists are sequences, that no symbol is twice in
`StockList`, and that the types of order books are finitely many.

So every safety property, action property and refinement that a passing run
checks is proved. Only model-checked: `HandlerEnds`, `NonEmptyRefreshed` and
`PagesSettle`, which are liveness under fairness and outside what the proof system
covers.

An operator named `XFaulty` is `X` with a mistake one could make in the code it models;
nothing uses it. Put in the place of `X` it makes TLC find a violation of the
property it is listed with in `PROJECT.json`.

## Not modelled

- The third-party scripts under `src/WebClient/frontend/public` (jQuery UI,
  Moment, Bootstrap, Flot, Morris), which are most of the JavaScript by lines:
  libraries that this system uses, with no logic of its own in them. The own
  scripts are in `public/scripts`; of these the chart's points, the overview, the
  performance chart, the leaderboard and the themes only display numbers.
- `Market::getNextOrder`, whose merge is by simulated time: the models choose.
- `RiskManagement` after a restart from the database.
- The static fields of FIX handlers behind a counter, the quit flag of the
  consumer threads, candlesticks, the requests of the DatafeedEngine, the orders
  and executions that `CoreClient` keeps: planned, see above.
- FIX and JSON conversion, SQL, CSV, cryptography, start-up, the Qt client's
  views, the example strategies and the data classes of NewMatchingEngine: input,
  output and sequential code without a state that others rely on.

## Running

```
tlc -workers 2 -config MCContinuousMarket.cfg MCContinuousMarket.tla
tlc -workers 2 -config MCRiskManagement.cfg MCRiskManagement.tla
tlc -workers 2 -config MCFBAMarket.cfg MCFBAMarket.tla
tlc -workers 2 -config MCBookFeed.cfg MCBookFeed.tla
tlc -workers 2 -config MCWebClient.cfg MCWebClient.tla
tlapm OrderLedgerProofs.tla
tlapm ContinuousMarketProofs.tla
tlapm ContinuousBookProofs.tla
tlapm DataLemmas.tla
tlapm RiskManagementProofs.tla
tlapm FBAMarketProofs.tla
tlapm BookFeedProofs.tla
tlapm WebClientProofs.tla
```
