---------------------------- MODULE ContinuousMarket ----------------------------
(***************************************************************************)
(* The continuous double auction of one symbol: class                      *)
(* markets::ContinuousStockMarket of the MatchingEngine, with what it      *)
(* inherits from markets::Market to execute orders.                        *)
(*                                                                         *)
(* One thread runs operator()(): it takes the next order from the queues   *)
(* and, holding m_spinlock, matches it against the local book (orders of   *)
(* the clients) and the global book (quotes of the data feed), rests what  *)
(* is left, and sends the execution reports and the order book updates.    *)
(* The handler is modelled at the grain of its loops: m_spinlock is free   *)
(* in phase "idle" only, every other phase is inside one handler, and each *)
(* iteration of a matching loop is one action.                             *)
(*                                                                         *)
(* The code has one function per side; they mirror each other, and the     *)
(* model has one operator with the side of the book as a parameter.        *)
(*                                                                         *)
(* An operator named XFaulty is X with a plausible mistake; nothing uses   *)
(* it. Each breaks a property of this module, which shows that the         *)
(* property depends on what X does.                                        *)
(***************************************************************************)
EXTENDS SequencesExt

CONSTANTS
    Traders,      \* the clients
    Feed,         \* "TRTH", the trader of whatever the data feed delivers
    Prices,       \* the prices of limit orders, quotes and trades
    Sizes,        \* the sizes of orders, quotes and trades
    Dests,        \* the exchanges that quotes and trades come from
    Shift,        \* "SHIFT", the destination of local orders
    Quotes,       \* the quotes (an ask and a bid each) and
    Trades,       \* the trades that the data feed may deliver
    DblMin,       \* std::numeric_limits<double>::min(): below every price, above 0
    DblMax,       \* std::numeric_limits<double>::max(): above every price
    MaxOrders,    \* bound: orders that clients submit
    MaxRequests,  \* bound: orders and cancellation requests that clients submit
    MaxFeed       \* bound: quotes and trades that the data feed delivers

FeedEntry == [price: Prices, size: Sizes, dest: Dests]

ASSUME MarketAssumption ==
    /\ Feed \notin Traders
    /\ Prices \subseteq Nat
    /\ Sizes \subseteq Nat \ {0}
    /\ DblMin \in Nat \ {0}
    /\ DblMax \in Nat
    /\ DblMin < DblMax
    /\ \A p \in Prices : DblMin < p /\ p < DblMax
    /\ Quotes \subseteq [ask: FeedEntry, bid: FeedEntry]
    /\ Trades \subseteq FeedEntry

Sides == {"bid", "ask"}
Other(s) == IF s = "bid" THEN "ask" ELSE "bid"

Kinds == {"NONE", "LIMIT", "MARKET", "CANCEL", "TRTH_TRADE", "TRTH_QUOTE"}

(* class Order. The ID of an order of the feed is 0; the side of a trade that *)
(* the feed reports means nothing.                                            *)
Order == [kind: Kinds, side: Sides, trader: Traders \cup {Feed}, id: Nat,
          price: Nat, size: Nat, dest: Dests \cup {Shift}]

NewOrder(kind, s, t, id, p, q, d) ==
    [kind |-> kind, side |-> s, trader |-> t, id |-> id, price |-> p, size |-> q, dest |-> d]

NoOrder == NewOrder("NONE", "bid", Feed, 0, 0, 0, Shift)

VARIABLES
    orders,           \* the Order objects of clients, by ID; size 0 when not in the book
    localBook,        \* m_localBids, m_localAsks: price levels of order IDs, best first
    globalBook,       \* m_globalBids, m_globalAsks: quotes, best first
    feed,             \* m_newGlobalOrders
    nextOrder,        \* the order that the handler is processing
    prevGlobalOrder,  \* the last quote that was not skipped
    phase,            \* where in the handler the market thread is
    against,          \* the side of the books that nextOrder is matched with
    level,            \* m_thisPriceLevel, as an index: one past the last is end()
    pos,              \* m_thisLocalOrder, as an index in that level
    reports,          \* m_executionReports
    updates,          \* m_orderBookUpdates
    ledger,           \* history: for each order, what was submitted and what reported
    cancels,          \* history: number of cancellation requests so far
    delivered         \* history: number of quotes and trades of the feed so far

book    == <<orders, localBook, globalBook>>
cursor  == <<against, level, pos>>
output  == <<reports, updates, ledger>>
counts  == <<cancels, delivered>>
vars    == <<orders, localBook, globalBook, feed, nextOrder, prevGlobalOrder, phase,
             against, level, pos, reports, updates, ledger, cancels, delivered>>

--------------------------------------------------------------------------------
(* Prices: on the bid side the higher is the better, on the ask side the lower. *)

Better(s, p, q) == IF s = "bid" THEN p > q ELSE p < q

(* The price that a resting market order is given, ahead of every limit order *)
(* of its side, and the price that stands for an empty side of a book.         *)
TopPrice(s) == IF s = "bid" THEN DblMax ELSE DblMin
NoPrice(s)  == TopPrice(Other(s))

(* The size of an execution, and what is left of a shares after one against b. *)
LeastFaulty(a, b) == b
Least(a, b) == IF a <= b THEN a ELSE b

LeftFaulty(a, b) == a - b
Left(a, b) == IF a > b THEN a - b ELSE 0

Levels(s) == localBook[s]

(* The local order under the cursor, and the next price level behind it. *)
AtEnd(s)     == level > Len(Levels(s))
LevelDone(s) == pos > Len(Levels(s)[level].ids)
Candidate(s) == orders[Levels(s)[level].ids[pos]]

(* A market order that rests in the book is hidden: it trades at the price of *)
(* the level behind it, if there is one and it is better than the price of the *)
(* limit order it meets, and else at the price of that limit order.            *)
HiddenPriceFaulty(s, l, limit) == Levels(s)[l].price
HiddenPrice(s, l, limit) ==
    IF l < Len(Levels(s)) /\ (limit = 0 \/ Better(s, Levels(s)[l + 1].price, limit))
    THEN Levels(s)[l + 1].price
    ELSE limit

LocalPriceFaulty(s, l, o, limit) == limit
LocalPrice(s, l, o, limit) ==
    IF o.kind = "MARKET" THEN HiddenPrice(s, l, limit) ELSE o.price

--------------------------------------------------------------------------------
(* Execution: Market::executeLocalOrder, Market::executeGlobalOrder. *)

(* What a report says of the orders it names: '4' is a cancellation, any other *)
(* decision an execution of both (an ID 0 is that of an order of the feed).    *)
Reported(r) ==
    [i \in DOMAIN ledger |->
        IF i \notin {r.id1, r.id2} THEN ledger[i]
        ELSE IF r.decision = "4" THEN [ledger[i] EXCEPT !.cancelled = @ + r.size]
        ELSE [ledger[i] EXCEPT !.filled = @ + r.size]]

AddExecutionReport(price, size, id1, id2, decision) ==
    LET r == [price |-> price, size |-> size, id1 |-> id1, id2 |-> id2, decision |-> decision]
    IN  /\ reports' = Append(reports, r)
        /\ ledger' = Reported(r)

Update(b, s, p, q, d) == [book |-> b, side |-> s, price |-> p, size |-> q, dest |-> d]

(* The level after q shares of its i-th order are gone, and the book with that *)
(* level in place l: executed orders and empty levels are erased.               *)
LevelAfterFaulty(lv, i, q) ==
    [price |-> lv.price,
     size  |-> lv.size,
     ids   |-> IF orders[lv.ids[i]].size <= q THEN RemoveAt(lv.ids, i) ELSE lv.ids]
LevelAfter(lv, i, q) ==
    [price |-> lv.price,
     size  |-> lv.size - q,
     ids   |-> IF orders[lv.ids[i]].size <= q THEN RemoveAt(lv.ids, i) ELSE lv.ids]

BookAfter(levels, l, lv) ==
    IF lv.ids = <<>> THEN RemoveAt(levels, l) ELSE ReplaceAt(levels, l, lv)

(* Executes nextOrder against the i-th order of level l of side s. *)
ExecuteLocalOrder(s, l, i, price, decision) ==
    LET lv == Levels(s)[l]
        id == lv.ids[i]
        q  == Least(orders[id].size, nextOrder.size)
    IN  /\ AddExecutionReport(price, q, id, nextOrder.id, decision)
        /\ orders' = [orders EXCEPT ![id].size = Left(@, nextOrder.size)]
        /\ nextOrder' = [nextOrder EXCEPT !.size = Left(@, orders[id].size)]
        /\ localBook' = [localBook EXCEPT ![s] = BookAfter(@, l, LevelAfter(lv, i, q))]

(* Executes nextOrder against the best quote of side s. *)
ExecuteGlobalOrder(s, price, decision) ==
    LET quote == globalBook[s][1]
        q     == Least(quote.size, nextOrder.size)
        left  == [quote EXCEPT !.size = Left(@, nextOrder.size)]
    IN  /\ AddExecutionReport(price, q, 0, nextOrder.id, decision)
        /\ nextOrder' = [nextOrder EXCEPT !.size = Left(@, quote.size)]
        /\ globalBook' = [globalBook EXCEPT
                             ![s] = IF left.size = 0 THEN Tail(@) ELSE ReplaceAt(@, 1, left)]
        /\ updates' = Append(updates, Update("GLB", s, quote.price, left.size, quote.dest))

--------------------------------------------------------------------------------
(* The queues. *)

Begin(o, ph, s) ==
    /\ nextOrder' = o
    /\ phase' = ph
    /\ against' = s
    /\ level' = 1
    /\ pos' = 1

(* A client's limit or market order reaches the market. *)
ReceiveOrder(kind, s, t, p, q) ==
    /\ phase = "idle"
    /\ Len(orders) < MaxOrders
    /\ Len(orders) + cancels < MaxRequests
    /\ LET o == NewOrder(kind, s, t, Len(orders) + 1, p, q, Shift)
       IN  /\ orders' = Append(orders, [o EXCEPT !.size = 0])
           /\ Begin(o, "match", Other(s))
    /\ ledger' = Append(ledger, [trader |-> t, submitted |-> q, filled |-> 0, cancelled |-> 0])
    /\ UNCHANGED <<localBook, globalBook, feed, prevGlobalOrder, reports, updates, counts>>

(* A cancellation of q shares of order id: it carries the ID, the side and the *)
(* price (0 for a market order) that its client gave to the order.              *)
ReceiveCancel(id, q) ==
    /\ phase = "idle"
    /\ Len(orders) + cancels < MaxRequests
    /\ cancels' = cancels + 1
    /\ LET o == orders[id]
           p == IF o.kind = "MARKET" THEN 0 ELSE o.price
       IN  Begin(NewOrder("CANCEL", o.side, o.trader, id, p, q, Shift), "cancel", o.side)
    /\ UNCHANGED <<book, feed, prevGlobalOrder, output, delivered>>

(* FIXInitiator::onMessage(Quote): a quote queues its ask, then its bid. *)
DeliverQuote(q) ==
    /\ delivered < MaxFeed
    /\ feed' = feed \o << NewOrder("TRTH_QUOTE", "ask", Feed, 0, q.ask.price, q.ask.size, q.ask.dest),
                          NewOrder("TRTH_QUOTE", "bid", Feed, 0, q.bid.price, q.bid.size, q.bid.dest) >>
    /\ delivered' = delivered + 1
    /\ UNCHANGED <<book, nextOrder, prevGlobalOrder, phase, cursor, output, cancels>>

DeliverTrade(t) ==
    /\ delivered < MaxFeed
    /\ feed' = feed \o << NewOrder("TRTH_TRADE", "bid", Feed, 0, t.price, t.size, t.dest) >>
    /\ delivered' = delivered + 1
    /\ UNCHANGED <<book, nextOrder, prevGlobalOrder, phase, cursor, output, cancels>>

(* A trade first hits the asks, a quote the side it is not on. A quote equal   *)
(* to the last one that was processed is skipped.                               *)
ReceiveFeed ==
    /\ phase = "idle"
    /\ feed # <<>>
    /\ feed' = Tail(feed)
    /\ LET o == Head(feed)
       IN  IF o.kind = "TRTH_TRADE"
           THEN Begin(o, "feed", "ask") /\ UNCHANGED prevGlobalOrder
           ELSE IF o = prevGlobalOrder
           THEN UNCHANGED <<nextOrder, phase, cursor, prevGlobalOrder>>
           ELSE Begin(o, "feed", Other(o.side)) /\ prevGlobalOrder' = o
    /\ UNCHANGED <<book, output, counts>>

--------------------------------------------------------------------------------
(* doLocalLimitBuy, doLocalLimitSell, doLocalMarketBuy, doLocalMarketSell:    *)
(* the matching loop of a local order, one action per branch of its body.       *)

(* The cursor ran over the last order of its level. *)
NextPriceLevel ==
    /\ phase = "match"
    /\ nextOrder.size > 0
    /\ ~AtEnd(against)
    /\ LevelDone(against)
    /\ level' = level + 1
    /\ pos' = 1
    /\ UNCHANGED <<book, feed, nextOrder, prevGlobalOrder, phase, against, output, counts>>

OwnOrderFaulty == FALSE
OwnOrder == Candidate(against).trader = nextOrder.trader

(* Orders of one trader do not match each other. *)
NextInLevelFaulty == pos
NextInLevel == pos + 1

SkipOwnOrder ==
    /\ phase = "match"
    /\ nextOrder.size > 0
    /\ ~AtEnd(against)
    /\ ~LevelDone(against)
    /\ OwnOrder
    /\ pos' = NextInLevel
    /\ UNCHANGED <<book, feed, nextOrder, prevGlobalOrder, phase, against, level, output, counts>>

(* Two market orders need the price of another level to match. *)
NoPriceForMarket ==
    /\ nextOrder.kind = "MARKET"
    /\ Candidate(against).kind = "MARKET"
    /\ level = Len(Levels(against))

SkipHiddenLevel ==
    /\ phase = "match"
    /\ nextOrder.size > 0
    /\ ~AtEnd(against)
    /\ ~LevelDone(against)
    /\ ~OwnOrder
    /\ NoPriceForMarket
    /\ level' = Len(Levels(against)) + 1
    /\ UNCHANGED <<book, feed, nextOrder, prevGlobalOrder, phase, against, pos, output, counts>>

(* The loop has found the local order to compare with the best quote. *)
Selected ==
    /\ phase = "match"
    /\ nextOrder.size > 0
    /\ ~AtEnd(against) => ~LevelDone(against) /\ ~OwnOrder /\ ~NoPriceForMarket

BestLocal ==
    IF AtEnd(against) THEN NoPrice(against)
    ELSE LocalPrice(against, level, Candidate(against), nextOrder.price)

BestGlobal ==
    IF globalBook[against] = <<>> THEN NoPrice(against) ELSE globalBook[against][1].price

(* Nothing to match with, or nothing at the limit of the order. *)
NoMatchFaulty ==
    \/ BestLocal = NoPrice(against) /\ BestGlobal = NoPrice(against)
    \/ /\ nextOrder.kind = "LIMIT"
       /\ ~Better(against, BestLocal, nextOrder.price)
       /\ ~Better(against, BestGlobal, nextOrder.price)
NoMatch ==
    \/ BestLocal = NoPrice(against) /\ BestGlobal = NoPrice(against)
    \/ /\ nextOrder.kind = "LIMIT"
       /\ Better(against, nextOrder.price, BestLocal)
       /\ Better(against, nextOrder.price, BestGlobal)

(* At the same price the local book goes first. *)
LocalFirstFaulty == Better(against, BestLocal, BestGlobal)
LocalFirst == ~Better(against, BestGlobal, BestLocal)

MatchLocal ==
    /\ Selected
    /\ ~NoMatch
    /\ LocalFirst
    /\ ExecuteLocalOrder(against, level, pos, BestLocal, "2")
    /\ LET lv   == Levels(against)[level]
           left == LevelAfter(lv, pos, Least(Candidate(against).size, nextOrder.size))
       IN  /\ pos' = IF left.ids = <<>> THEN 1 ELSE pos
           /\ updates' = IF Candidate(against).kind = "MARKET" THEN updates
                         ELSE Append(updates, Update("LOC", against, lv.price, left.size, Shift))
    /\ UNCHANGED <<globalBook, feed, prevGlobalOrder, phase, against, level, counts>>

MatchGlobal ==
    /\ Selected
    /\ ~NoMatch
    /\ ~LocalFirst
    /\ ExecuteGlobalOrder(against, BestGlobal, "2")
    /\ UNCHANGED <<orders, localBook, feed, prevGlobalOrder, phase, cursor, counts>>

(* The loop ends; what is left of the order is to be inserted. *)
StopMatching ==
    /\ phase = "match"
    /\ nextOrder.size = 0 \/ (Selected /\ NoMatch)
    /\ phase' = IF nextOrder.size = 0 THEN "send" ELSE "insert"
    /\ UNCHANGED <<book, feed, nextOrder, prevGlobalOrder, cursor, output, counts>>

--------------------------------------------------------------------------------
(* insertLocalBid, insertLocalAsk: a limit order rests behind the orders of    *)
(* its price, a market order gets the top price and stays hidden.               *)

NotBetterThanFaulty(s, levels, p) == SelectInSeq(levels, LAMBDA lv : Better(s, lv.price, p))
NotBetterThan(s, levels, p) == SelectInSeq(levels, LAMBDA lv : ~Better(s, lv.price, p))

(* The book with order id at price p in it. Past the last level the code reads *)
(* the sentinel of the list, and appends whatever it finds there.               *)
QueuedFaulty(ids, id) == <<id>> \o ids
Queued(ids, id) == Append(ids, id)

Inserted(s, levels, id, p, q) ==
    LET i    == NotBetterThan(s, levels, p)
        mine == [price |-> p, size |-> q, ids |-> <<id>>]
    IN  IF i = 0 THEN Append(levels, mine)
        ELSE IF levels[i].price = p
        THEN ReplaceAt(levels, i, [levels[i] EXCEPT !.size = @ + q, !.ids = Queued(@, id)])
        ELSE InsertAt(levels, i, mine)

LevelSize(levels, p) == levels[SelectInSeq(levels, LAMBDA lv : lv.price = p)].size

InsertLocal ==
    /\ phase = "insert"
    /\ LET s  == nextOrder.side
           id == nextOrder.id
           p  == IF nextOrder.kind = "MARKET" THEN TopPrice(s) ELSE nextOrder.price
       IN  /\ orders' = [orders EXCEPT ![id].price = p, ![id].size = nextOrder.size]
           /\ localBook' = [localBook EXCEPT ![s] = Inserted(s, @, id, p, nextOrder.size)]
           /\ updates' = IF nextOrder.kind = "MARKET" THEN updates
                         ELSE Append(updates,
                                Update("LOC", s, p, LevelSize(localBook'[s], p), Shift))
    /\ phase' = "send"
    /\ UNCHANGED <<globalBook, feed, nextOrder, prevGlobalOrder, cursor, reports, ledger, counts>>

--------------------------------------------------------------------------------
(* doLocalCancelBid, doLocalCancelAsk. *)

(* The level that a cancellation looks into: that of its price, or the first   *)
(* for a market order; 0 when there is none.                                    *)
CancelLevel(s, levels, p) ==
    IF p = 0 THEN Least(1, Len(levels))
    ELSE LET i == NotBetterThan(s, levels, p)
         IN  IF i # 0 /\ levels[i].price = p THEN i ELSE 0

PlaceOf(ids, id) == SelectInSeq(ids, LAMBDA x : x = id)

DoLocalCancel ==
    /\ phase = "cancel"
    /\ phase' = "send"
    /\ LET l == CancelLevel(against, Levels(against), nextOrder.price)
           i == IF l = 0 THEN 0 ELSE PlaceOf(Levels(against)[l].ids, nextOrder.id)
       IN  IF i = 0
           THEN UNCHANGED <<orders, localBook, nextOrder, output>>
           ELSE LET lv == Levels(against)[l]
                    o  == orders[lv.ids[i]]
                    q  == Least(o.size, nextOrder.size)
                IN  /\ ExecuteLocalOrder(against, l, i, 0, "4")
                    /\ updates' = IF o.kind = "MARKET" THEN updates
                                  ELSE Append(updates,
                                         Update("LOC", against, lv.price, lv.size - q, Shift))
    /\ UNCHANGED <<globalBook, feed, prevGlobalOrder, cursor, counts>>

--------------------------------------------------------------------------------
(* doGlobalLimitBuy, doGlobalLimitSell: a quote or trade of the feed takes     *)
(* what the local book offers at its price, whoever offers it.                  *)

FeedMatchesFaulty ==
    /\ nextOrder.size > 0
    /\ Levels(against) # <<>>
    /\ Better(against, Levels(against)[1].price, nextOrder.price)
FeedMatches ==
    /\ nextOrder.size > 0
    /\ Levels(against) # <<>>
    /\ ~Better(against, nextOrder.price, Levels(against)[1].price)

(* The update of a level is sent when its loop ends: the level or the order is *)
(* used up.                                                                     *)
MatchFeed ==
    /\ phase = "feed"
    /\ FeedMatches
    /\ LET lv   == Levels(against)[1]
           o    == orders[lv.ids[1]]
           q    == Least(o.size, nextOrder.size)
           left == LevelAfter(lv, 1, q)
       IN  /\ ExecuteLocalOrder(against, 1, 1,
                                LocalPrice(against, 1, o, nextOrder.price), "2")
           /\ updates' = IF o.kind # "MARKET" /\ (left.ids = <<>> \/ nextOrder.size = q)
                         THEN Append(updates, Update("LOC", against, lv.price, left.size, Shift))
                         ELSE updates
    /\ UNCHANGED <<globalBook, feed, prevGlobalOrder, phase, cursor, counts>>

(* updateGlobalBids, updateGlobalAsks: a quote is the best of its side, so the *)
(* better ones are gone; it replaces the one of its price and destination.      *)
FromPrice(s, quotes, p) ==
    LET first == NotBetterThan(s, quotes, p)
    IN  IF first = 0 THEN <<>> ELSE SubSeq(quotes, first, Len(quotes))

WithQuoteFaulty(s, quotes, o) ==
    LET new  == [price |-> o.price, size |-> o.size, dest |-> o.dest]
    IN  <<new>> \o FromPrice(s, quotes, o.price)
WithQuote(s, quotes, o) ==
    LET new  == [price |-> o.price, size |-> o.size, dest |-> o.dest]
        kept == FromPrice(s, quotes, o.price)
        same == SelectInSeq(kept, LAMBDA g : g.price = o.price /\ g.dest = o.dest)
        next == SelectInSeq(kept, LAMBDA g : Better(s, o.price, g.price))
    IN  IF same # 0 THEN ReplaceAt(kept, same, new)
        ELSE IF next # 0 THEN InsertAt(kept, next, new)
        ELSE Append(kept, new)

(* The feed order has hit its first side: a trade goes on to the bids. *)
TradeHitsBids ==
    /\ phase = "feed"
    /\ ~FeedMatches
    /\ nextOrder.kind = "TRTH_TRADE"
    /\ against = "ask"
    /\ against' = "bid"
    /\ UNCHANGED <<book, feed, nextOrder, prevGlobalOrder, phase, level, pos, output, counts>>

(* What no local order took of a trade is reported as a trade of the feed ('5'). *)
ReportTrade ==
    /\ phase = "feed"
    /\ ~FeedMatches
    /\ nextOrder.kind = "TRTH_TRADE"
    /\ against = "bid"
    /\ IF nextOrder.size > 0
       THEN AddExecutionReport(nextOrder.price, nextOrder.size, 0, 0, "5")
       ELSE UNCHANGED <<reports, ledger>>
    /\ phase' = "send"
    /\ UNCHANGED <<book, feed, nextOrder, prevGlobalOrder, cursor, updates, counts>>

(* What no local order took of a quote enters the global book. *)
UpdateGlobal ==
    /\ phase = "feed"
    /\ ~FeedMatches
    /\ nextOrder.kind = "TRTH_QUOTE"
    /\ LET s == nextOrder.side
       IN  IF nextOrder.size > 0
           THEN /\ globalBook' = [globalBook EXCEPT ![s] = WithQuote(s, @, nextOrder)]
                /\ updates' = Append(updates, Update("GLB", s, nextOrder.price,
                                                     nextOrder.size, nextOrder.dest))
           ELSE UNCHANGED <<globalBook, updates>>
    /\ phase' = "send"
    /\ UNCHANGED <<orders, localBook, feed, nextOrder, prevGlobalOrder, cursor, reports, ledger, counts>>

--------------------------------------------------------------------------------
(* sendExecutionReports, sendOrderBookUpdates, and m_spinlock is released. *)
Send ==
    /\ phase = "send"
    /\ reports' = <<>>
    /\ updates' = <<>>
    /\ Begin(NoOrder, "idle", "ask")
    /\ UNCHANGED <<book, feed, prevGlobalOrder, ledger, counts>>

Init ==
    /\ orders = <<>>
    /\ localBook = [s \in Sides |-> <<>>]
    /\ globalBook = [s \in Sides |-> <<>>]
    /\ feed = <<>>
    /\ nextOrder = NoOrder
    /\ prevGlobalOrder = NoOrder
    /\ phase = "idle"
    /\ against = "ask"
    /\ level = 1
    /\ pos = 1
    /\ reports = <<>>
    /\ updates = <<>>
    /\ ledger = <<>>
    /\ cancels = 0
    /\ delivered = 0

(* What the market thread does to finish the handler it is in. *)
Handle ==
    \/ NextPriceLevel \/ SkipOwnOrder \/ SkipHiddenLevel
    \/ MatchLocal \/ MatchGlobal \/ StopMatching \/ InsertLocal
    \/ DoLocalCancel
    \/ MatchFeed \/ TradeHitsBids \/ ReportTrade \/ UpdateGlobal
    \/ Send

Next ==
    \/ \E s \in Sides, t \in Traders, p \in Prices, q \in Sizes : ReceiveOrder("LIMIT", s, t, p, q)
    \/ \E s \in Sides, t \in Traders, q \in Sizes : ReceiveOrder("MARKET", s, t, 0, q)
    \/ \E id \in DOMAIN orders, q \in Sizes : ReceiveCancel(id, q)
    \/ \E q \in Quotes : DeliverQuote(q)
    \/ \E t \in Trades : DeliverTrade(t)
    \/ ReceiveFeed
    \/ Handle

Spec == Init /\ [][Next]_vars

(* The market thread runs until the simulation ends; clients and feed may stop. *)
FairSpec == Spec /\ WF_vars(ReceiveFeed) /\ WF_vars(Handle)

--------------------------------------------------------------------------------
(* Properties. *)

ClientOrder == [kind: {"LIMIT", "MARKET"}, side: Sides, trader: Traders, id: Nat,
                price: Nat, size: Nat, dest: {Shift}]
FeedOrder   == [kind: {"TRTH_TRADE", "TRTH_QUOTE"}, side: Sides, trader: {Feed}, id: {0},
                price: Prices, size: Nat, dest: Dests]
GlobalQuote == [price: Prices, size: Nat, dest: Dests]
PriceLevel  == [price: Prices \cup {DblMin, DblMax}, size: Int,
                ids: Seq(DOMAIN orders) \ {<<>>}]
Report      == [price: Nat, size: Nat, id1: Nat, id2: Nat, decision: {"2", "4", "5"}]
BookUpdate  == [book: {"LOC", "GLB"}, side: Sides, price: Nat, size: Int, dest: Dests \cup {Shift}]
Phases      == {"idle", "match", "insert", "cancel", "feed", "send"}

(***************************************************************************)
(* Every variable holds a value of its type. In particular no execution    *)
(* leaves an order or a quote with a negative size, the book refers to     *)
(* orders that exist, and no price level of it is empty.                   *)
(***************************************************************************)
TypeOK ==
    /\ orders \in Seq(ClientOrder)
    /\ localBook \in [Sides -> Seq(PriceLevel)]
    /\ globalBook \in [Sides -> Seq(GlobalQuote)]
    /\ feed \in Seq(FeedOrder)
    /\ nextOrder \in Order
    /\ prevGlobalOrder \in Order
    /\ phase \in Phases
    /\ against \in Sides
    /\ level \in Nat \ {0}
    /\ pos \in Nat \ {0}
    /\ reports \in Seq(Report)
    /\ updates \in Seq(BookUpdate)
    /\ ledger \in Seq([trader: Traders, submitted: Sizes, filled: Nat, cancelled: Nat])
    /\ cancels \in Nat
    /\ delivered \in Nat

(***************************************************************************)
(* The books stay in order, through every erasure and insertion: local     *)
(* levels strictly best first, quotes best first with one per price and    *)
(* destination. The loops that stop at the first worse price rely on it.    *)
(***************************************************************************)
BooksOrdered ==
    \A s \in Sides :
        /\ \A i, j \in DOMAIN localBook[s] :
              i < j => Better(s, localBook[s][i].price, localBook[s][j].price)
        /\ \A i, j \in DOMAIN globalBook[s] :
              i < j => \/ Better(s, globalBook[s][i].price, globalBook[s][j].price)
                       \/ /\ globalBook[s][i].price = globalBook[s][j].price
                          /\ globalBook[s][i].dest # globalBook[s][j].dest

(***************************************************************************)
(* The local book holds each order with shares left exactly once, on its   *)
(* side and at its price, and no order without; and the size of a level,   *)
(* which executions and cancellations adjust beside the orders, is the sum *)
(* of the sizes of its orders.                                             *)
(***************************************************************************)
LevelsExact ==
    /\ \A s \in Sides : \A lv \in Range(Levels(s)) :
          /\ IsInjective(lv.ids)
          /\ \A id \in Range(lv.ids) :
                /\ orders[id].size > 0
                /\ orders[id].side = s /\ orders[id].price = lv.price
          /\ lv.size = SumFunction([i \in DOMAIN lv.ids |-> orders[lv.ids[i]].size])
    /\ \A id \in DOMAIN orders : orders[id].size > 0 =>
          LET levels == Levels(orders[id].side)
          IN  \E l \in DOMAIN levels : \A k \in DOMAIN levels :
                 id \in Range(levels[k].ids) <=> k = l

(* What nextOrder still has of order id while the handler matches it. *)
InHand(id) ==
    IF nextOrder.id = id /\ phase \in {"match", "insert"} THEN nextOrder.size ELSE 0

(***************************************************************************)
(* No share is lost or made up: what was submitted is what was reported as *)
(* executed or cancelled, what rests in the book and what is being matched. *)
(***************************************************************************)
SharesAccounted ==
    \A id \in DOMAIN orders :
        ledger[id].submitted =
            ledger[id].filled + ledger[id].cancelled + orders[id].size + InHand(id)

(* The type invariant says too little of a step to be preserved by it; with    *)
(* what the handler knows of the order it processes it is.                      *)
LimitsPriced == \A id \in DOMAIN orders : orders[id].kind = "LIMIT" => orders[id].price \in Prices

NextOrderKnown ==
    /\ phase \in {"match", "insert"} =>
          /\ nextOrder \in ClientOrder
          /\ nextOrder.kind = "LIMIT" => nextOrder.price \in Prices
          /\ nextOrder.kind = "MARKET" => nextOrder.price = 0
          /\ nextOrder.id \in DOMAIN orders
          /\ nextOrder.trader = orders[nextOrder.id].trader
          /\ nextOrder.kind = orders[nextOrder.id].kind
          /\ orders[nextOrder.id].size = 0
    /\ phase = "cancel" => nextOrder.id \in DOMAIN orders
    /\ phase = "feed" => nextOrder \in FeedOrder

LedgerKnown ==
    /\ Len(ledger) = Len(orders)
    /\ \A id \in DOMAIN orders : ledger[id].trader = orders[id].trader

(***************************************************************************)
(* Shares are accounted for, strengthened to an invariant that every step   *)
(* preserves: the ledger has an entry for each order, and the order that   *)
(* the handler matches is one of them and not in the book.                  *)
(***************************************************************************)
AccountsInv == TypeOK /\ LimitsPriced /\ NextOrderKnown /\ LedgerKnown /\ SharesAccounted

(* Two resting orders that should have met. *)
Crossed(b, a) ==
    /\ orders[b].size > 0 /\ orders[b].side = "bid"
    /\ orders[a].size > 0 /\ orders[a].side = "ask"
    /\ orders[b].trader # orders[a].trader
    /\ ~(orders[b].kind = "MARKET" /\ orders[a].kind = "MARKET")
    /\ orders[b].price >= orders[a].price

(***************************************************************************)
(* Between two handlers no two orders of different traders cross, unless   *)
(* both are hidden market orders, and no local order crosses the quotes of *)
(* the other side: a resting market order implies that there are none.     *)
(***************************************************************************)
NoMissedMatch ==
    phase = "idle" =>
        /\ \A b, a \in DOMAIN orders : ~Crossed(b, a)
        /\ \A s \in Sides : \A g \in DOMAIN globalBook[Other(s)] : \A id \in DOMAIN orders :
              orders[id].size > 0 /\ orders[id].side = s
                  => Better(s, globalBook[Other(s)][g].price, orders[id].price)

(* The step that reports an execution of two orders, and what it reports. *)
Executes == Len(reports') > Len(reports) /\ Last(reports').decision = "2"

(* The orders of the other side that nextOrder may trade with. *)
Eligible == {id \in DOMAIN orders : /\ orders[id].size > 0
                                    /\ orders[id].side = against
                                    /\ orders[id].trader # nextOrder.trader}

(* The execution r takes the eligible order of the best price and, among those, *)
(* the one that was submitted first.                                            *)
TakesTheFirst(r) ==
    IF r.id1 # 0
    THEN /\ r.id1 \in Eligible
         /\ \A x \in Eligible \ {r.id1} :
               \/ Better(against, orders[r.id1].price, orders[x].price)
               \/ orders[r.id1].price = orders[x].price /\ r.id1 < x
         /\ nextOrder.trader # Feed /\ globalBook[against] # <<>>
               => ~Better(against, globalBook[against][1].price, r.price)
    ELSE \A x \in Eligible :
            orders[x].kind = "LIMIT" => Better(against, r.price, orders[x].price)

(* The price of the execution r is a real one that both sides agreed to. *)
PriceAgreed(r) ==
    /\ r.price \in Prices
    /\ nextOrder.kind # "MARKET" => ~Better(against, nextOrder.price, r.price)
    /\ r.id1 # 0 => orders[r.id1].kind = "MARKET" \/ r.price = orders[r.id1].price

(***************************************************************************)
(* Price-time priority: an execution takes the eligible order of the best   *)
(* price and, among those, the one that was submitted first; a local order *)
(* only if no quote is better than the price of the execution, and a quote *)
(* only if no limit order is as good.                                      *)
(***************************************************************************)
PriceTimePriority == [][Executes => TakesTheFirst(Last(reports'))]_vars

(***************************************************************************)
(* No execution is worse than a limit: it has the price of the resting     *)
(* limit order or quote, is at the limit of the incoming order or better,   *)
(* and is a real price even when a hidden market order takes part.          *)
(***************************************************************************)
PricesWithinLimits == [][Executes => PriceAgreed(Last(reports'))]_vars

(***************************************************************************)
(* The handler of every order ends, and m_spinlock is released: the loops  *)
(* advance on every branch.                                                *)
(***************************************************************************)
HandlerEnds == phase # "idle" ~> phase = "idle"

(***************************************************************************)
(* The market keeps the promise of OrderLedger: no share is executed or    *)
(* cancelled twice, and no trader trades with itself.                      *)
(***************************************************************************)
Ledger == INSTANCE OrderLedger WITH ledger <- ledger
LedgerSpec == Ledger!Spec

================================================================================
