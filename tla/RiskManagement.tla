----------------------------- MODULE RiskManagement -----------------------------
(***************************************************************************)
(* The RiskManagement of one user of the BrokerageCenter: the thread that  *)
(* verifies the orders of the user and sends them to the MatchingEngine,   *)
(* the thread that books the reports that come back, the portfolio they    *)
(* share under four mutexes, and the MatchingEngine as seen from here.     *)
(*                                                                         *)
(* A step is what a thread does without releasing the mutexes it needs: an *)
(* order is verified in one step after its buying power was read in        *)
(* another, and put on the waiting list in a third.  Each queue stands for *)
(* the FIX session that fills it and the buffer behind it.  Money is in    *)
(* cents.  Profit and loss, average prices and the database are left out.  *)
(*                                                                         *)
(* An operator named XFaulty is X with a plausible mistake; nothing uses   *)
(* it.                                                                     *)
(***************************************************************************)
EXTENDS Integers, Sequences, FiniteSets, FiniteSetsExt, Functions

CONSTANTS Symbols,       \* the traded symbols
          Prices,        \* the prices of orders and executions, in cents
          Sizes,         \* the sizes of orders, in lots
          BuyingPower,   \* the buying power the user starts with
          LongShares,    \* the shares of each symbol the user starts with
          Inputs,        \* the orders the user may submit
          MaxOrders,     \* bound: the orders the user submits
          MaxCancels     \* bound: the cancellations the user submits

\* A market order has no price of its own.
Orders == [side: {"buy", "sell"}, symbol: Symbols, price: Prices \cup {0}, size: Sizes]

ASSUME RiskAssumption ==
    /\ IsFiniteSet(Symbols)
    /\ Prices \subseteq Nat \ {0}
    /\ Sizes \subseteq Nat \ {0}
    /\ BuyingPower \in Nat
    /\ LongShares \in [Symbols -> Nat]
    /\ Inputs \subseteq Orders
    /\ MaxOrders \in Nat
    /\ MaxCancels \in Nat

VARIABLES
    orders,        \* what the user submitted, the place of an order is its identity
    cancelled,     \* the number of cancellations the user submitted
    orderBuffer,   \* m_orderBuffer
    execRptBuffer, \* m_execRptBuffer
    step,          \* where the order thread is: "read", "verify" or "list"
    usable,        \* its usableBuyingPower
    booked,        \* whether the report thread has booked its first report
    summary,       \* m_porfolioSummary
    items,         \* m_portfolioItems
    pendingBids,   \* m_pendingBidOrders
    pendingAsks,   \* m_pendingAskOrders
    shortCash,     \* m_pendingShortCashAmount
    shortUnits,    \* m_pendingShortUnitAmount
    waitingList,   \* m_waitingList, without its order of size 0
    toMarket,      \* what was sent to the MatchingEngine
    confirming,    \* the message its acceptor has buffered but not confirmed
    cancels,       \* the cancellations its market has not carried out
    open,          \* the open size of the orders it has buffered
    traded         \* the money and the shares its executions brought the user

order    == <<orders, cancelled>>
thread   == <<orderBuffer, step, usable>>
account  == <<summary, items>>
pending  == <<pendingBids, pendingAsks, shortCash, shortUnits>>
market   == <<toMarket, confirming, cancels, open, traded>>
book     == <<account, pending, waitingList>>
vars == <<order, thread, execRptBuffer, booked, book, market>>

--------------------------------------------------------------------------------
Lot == 100

Requests == [id: 1..MaxOrders, cancel: BOOLEAN, size: Sizes]
Statuses == {"PENDING_NEW", "NEW", "PENDING_CANCEL", "PARTIALLY_FILLED", "FILLED", "CANCELED"}
Reports == [id: 1..MaxOrders, status: Statuses, size: Nat, price: Prices \cup {0}]

Report(id, status, size, price) ==
    [id |-> id, status |-> status, size |-> size, price |-> price]

HoldBalance(s, v)    == [s EXCEPT !.buyingPower = @ - v, !.holding = @ + v]
ReleaseBalance(s, v) == [s EXCEPT !.buyingPower = @ + v, !.holding = @ - v]
BorrowBalance(s, v)  == [s EXCEPT !.buyingPower = @ - v, !.borrowed = @ + v]
ReturnBalanceFaulty(s, v) == [s EXCEPT !.buyingPower = @ + v, !.borrowed = @ - v]
ReturnBalance(s, v)  == [s EXCEPT !.buyingPower = @ + 2 * v, !.borrowed = @ - v]
AddBuyingPower(s, v) == [s EXCEPT !.buyingPower = @ + v]

With(f, id, entry) == [x \in DOMAIN f \cup {id} |-> IF x = id THEN entry ELSE f[x]]
Without(f, id) == Restrict(f, DOMAIN f \ {id})

\* An order whose last share is reported is erased.
Kept(f, id, entry) == IF entry.size = 0 THEN Without(f, id) ELSE With(f, id, entry)

NoSummary == [buyingPower |-> BuyingPower, holding |-> 0, borrowed |-> 0]

Init ==
    /\ orders = <<>> /\ cancelled = 0
    /\ orderBuffer = <<>> /\ step = "read" /\ usable = 0
    /\ execRptBuffer = <<>> /\ booked = FALSE
    /\ summary = NoSummary
    /\ items = [s \in Symbols |-> [long |-> LongShares[s], short |-> 0, borrowed |-> 0]]
    /\ pendingBids = <<>> /\ pendingAsks = <<>>
    /\ shortCash = 0 /\ shortUnits = [s \in Symbols |-> 0]
    /\ waitingList = <<>>
    /\ toMarket = <<>> /\ confirming = <<>> /\ cancels = <<>> /\ open = <<>>
    /\ traded = [cash |-> 0, shares |-> [s \in Symbols |-> 0]]

--------------------------------------------------------------------------------
(***************************************************************************)
(* The user.  A client cancels an order by its side and price, as the      *)
(* order has them.                                                         *)
(***************************************************************************)
SubmitOrder(o) ==
    /\ Len(orders) < MaxOrders
    /\ orders' = Append(orders, o)
    /\ orderBuffer' = Append(orderBuffer, [id |-> Len(orders'), cancel |-> FALSE, size |-> o.size])
    /\ UNCHANGED <<cancelled, step, usable, execRptBuffer, booked, book, market>>

SubmitCancel(id, q) ==
    /\ cancelled < MaxCancels
    /\ cancelled' = cancelled + 1
    /\ orderBuffer' = Append(orderBuffer, [id |-> id, cancel |-> TRUE, size |-> q])
    /\ UNCHANGED <<orders, step, usable, execRptBuffer, booked, book, market>>

--------------------------------------------------------------------------------
(***************************************************************************)
(* The order thread: processOrder and verifyAndSendOrder.                  *)
(***************************************************************************)
request == Head(orderBuffer)
ordered == orders[request.id]

\* The locks are released after the buying power was read.
ReadUsable ==
    /\ step = "read"
    /\ orderBuffer # <<>>
    /\ usable' = summary.buyingPower - shortCash
    /\ step' = "verify"
    /\ UNCHANGED <<order, orderBuffer, execRptBuffer, booked, book, market>>

\* A market order is valued at the best price on the other side, 0 if there is none.
Valuations(o) == IF o.price = 0 THEN Prices \cup {0} ELSE {o.price}

BidCovered(o, price) == price * o.size * Lot < usable

AvailableSharesFaulty(symbol) == items[symbol].long
AvailableShares(symbol) == items[symbol].long - shortUnits[symbol]
ShortShares(o) == o.size * Lot - AvailableShares(o.symbol)
AskCovered(o, price) ==
    \/ ShortShares(o) <= 0
    \/ summary.borrowed < usable /\ price * ShortShares(o) < usable

Send ==
    /\ toMarket' = Append(toMarket, request)
    /\ step' = "list"
    /\ usable' = 0
    /\ UNCHANGED <<order, orderBuffer, execRptBuffer, booked, items, waitingList,
                   confirming, cancels, open, traded>>

SendBid(price) ==
    /\ ~request.cancel /\ ordered.side = "buy"
    /\ price # 0 /\ BidCovered(ordered, price)
    /\ summary' = HoldBalance(summary, price * ordered.size * Lot)
    /\ pendingBids' = With(pendingBids, request.id, [price |-> price, size |-> ordered.size])
    /\ Send
    /\ UNCHANGED <<pendingAsks, shortCash, shortUnits>>

SendAsk(price) ==
    /\ ~request.cancel /\ ordered.side = "sell"
    /\ price # 0 /\ AskCovered(ordered, price)
    /\ LET short == Max({ShortShares(ordered), 0})
           reserved == ordered.size * Lot - short
       IN  /\ shortCash' = shortCash + price * short
           /\ shortUnits' = [shortUnits EXCEPT ![ordered.symbol] = @ + reserved]
           /\ pendingAsks' = With(pendingAsks, request.id,
                     [price |-> price, size |-> ordered.size, reserved |-> reserved])
    /\ Send
    /\ UNCHANGED <<summary, pendingBids>>

Cancellable(id) ==
    /\ id \in DOMAIN waitingList
    /\ waitingList[id].side = orders[id].side
    /\ waitingList[id].price = orders[id].price

SendCancel ==
    /\ request.cancel
    /\ Cancellable(request.id)
    /\ Send
    /\ UNCHANGED <<summary, pending>>

\* The order is popped and the client told; nothing else remembers it.
RejectOrder(price) ==
    /\ \/ request.cancel /\ ~Cancellable(request.id)
       \/ /\ ~request.cancel
          /\ \/ price = 0
             \/ ordered.side = "buy" /\ ~BidCovered(ordered, price)
             \/ ordered.side = "sell" /\ ~AskCovered(ordered, price)
    /\ orderBuffer' = Tail(orderBuffer)
    /\ step' = "read"
    /\ usable' = 0
    /\ UNCHANGED <<order, execRptBuffer, booked, book, market>>

Verify ==
    /\ step = "verify"
    /\ \/ \E price \in Valuations(ordered) : SendBid(price) \/ SendAsk(price) \/ RejectOrder(price)
       \/ SendCancel

\* The order has been sent, and may have been executed, when it gets on the list.
ListOrder ==
    /\ step = "list"
    /\ waitingList' = IF request.cancel THEN waitingList
                      ELSE With(waitingList, request.id,
                                [side |-> ordered.side, price |-> ordered.price,
                                 size |-> ordered.size, executed |-> 0,
                                 status |-> "PENDING_NEW"])
    /\ orderBuffer' = Tail(orderBuffer)
    /\ step' = "read"
    /\ UNCHANGED <<order, usable, execRptBuffer, booked, account, pending, market>>

--------------------------------------------------------------------------------
(***************************************************************************)
(* The MatchingEngine.  Its acceptor buffers a message for the market and  *)
(* then confirms it, before it takes the next; the market may execute or   *)
(* cancel the order before the confirmation is sent.  What it promises is  *)
(* module OrderLedger: it trades and cancels shares that are open, at      *)
(* prices within the limit (PricesWithinLimits of ContinuousMarket).       *)
(***************************************************************************)
BufferMessage ==
    /\ confirming = <<>> /\ toMarket # <<>>
    /\ LET m == Head(toMarket)
       IN  /\ confirming' = <<m>>
           /\ open' = IF m.cancel THEN open ELSE With(open, m.id, m.size)
           /\ cancels' = IF m.cancel THEN Append(cancels, m) ELSE cancels
    /\ toMarket' = Tail(toMarket)
    /\ UNCHANGED <<order, thread, execRptBuffer, booked, book, traded>>

ConfirmMessage ==
    /\ confirming # <<>>
    /\ LET m == confirming[1]
       IN  execRptBuffer' = Append(execRptBuffer,
               Report(m.id, IF m.cancel THEN "PENDING_CANCEL" ELSE "NEW", 0, orders[m.id].price))
    /\ confirming' = <<>>
    /\ UNCHANGED <<order, thread, booked, book,
                   toMarket, cancels, open, traded>>

WithinLimit(o, price) ==
    \/ o.price = 0
    \/ o.side = "buy" /\ price <= o.price
    \/ o.side = "sell" /\ price >= o.price

\* What an execution of n shares brings the user.
Proceeds(side, n, price) == IF side = "buy" THEN -n * price ELSE n * price
SharesOf(side, n) == IF side = "buy" THEN n ELSE -n

Execute(id, q, price) ==
    /\ WithinLimit(orders[id], price)
    /\ open' = [open EXCEPT ![id] = @ - q]
    /\ LET o == orders[id]
       IN  traded' = [traded EXCEPT !.cash = @ + Proceeds(o.side, q * Lot, price),
                                    !.shares[o.symbol] = @ + SharesOf(o.side, q * Lot)]
    /\ execRptBuffer' = Append(execRptBuffer, Report(id, "FILLED", q, price))
    /\ UNCHANGED <<order, thread, booked, book,
                   toMarket, confirming, cancels>>

\* Nothing is reported when there is nothing left to cancel, or when a market
\* order rests at another price than the cancellation names.
CarryOutCancel ==
    /\ cancels # <<>>
    /\ LET m == Head(cancels)
       IN  \E q \in {Min({m.size, open[m.id]})} \cup (IF orders[m.id].price = 0 THEN {0} ELSE {}) :
               /\ open' = [open EXCEPT ![m.id] = @ - q]
               /\ execRptBuffer' = IF q = 0 THEN execRptBuffer
                     ELSE Append(execRptBuffer, Report(m.id, "CANCELED", q, orders[m.id].price))
    /\ cancels' = Tail(cancels)
    /\ UNCHANGED <<order, thread, booked, book,
                   toMarket, confirming, traded>>

--------------------------------------------------------------------------------
(***************************************************************************)
(* The report thread: processExecRpt.                                      *)
(***************************************************************************)
report == Head(execRptBuffer)
reported == orders[report.id]

Confirmations == {"NEW", "PENDING_CANCEL"}

\* operator[] of the pending orders makes an order of size 0 of an unknown one.
Bid(id) == IF id \in DOMAIN pendingBids THEN pendingBids[id] ELSE [price |-> 0, size |-> 0]
Ask(id) == IF id \in DOMAIN pendingAsks THEN pendingAsks[id]
           ELSE [price |-> 0, size |-> 0, reserved |-> 0]

Booking(status) ==
    /\ execRptBuffer # <<>> /\ ~booked
    /\ report.status = status
    /\ booked' = TRUE
    /\ UNCHANGED <<order, thread, waitingList, market>>

MarkPartial(left) ==
    execRptBuffer' = IF left = 0 THEN execRptBuffer
                     ELSE [execRptBuffer EXCEPT ![1].status = "PARTIALLY_FILLED"]

\* The money returned when n of the short shares are bought back is rounded down
\* to a cent; a whole number of cents may lose one, as it is computed in doubles.
RoundingLoss(item, n) ==
    IF item.short >= n /\ item.borrowed > 0 /\ (item.borrowed * n) % item.short = 0
    THEN {0, 1} ELSE {0}
Returned(item, n, loss) ==
    CASE item.short = 0 -> 0
      [] item.short > 0 /\ item.short < n -> item.borrowed
      [] OTHER -> (item.borrowed * n) \div item.short - loss

BoughtFaulty(item, n, ret) ==
    [long |-> item.long + (IF n > item.short THEN n ELSE 0),
     short |-> Max({item.short - n, 0}),
     borrowed |-> item.borrowed - ret]
Bought(item, n, ret) ==
    [long |-> item.long + Max({n - item.short, 0}),
     short |-> Max({item.short - n, 0}),
     borrowed |-> item.borrowed - ret]

\* What was held for the shares of a report of a buy order.
HeldForFaulty(bid, r) == r.price * r.size * Lot
HeldFor(bid, r) == bid.price * r.size * Lot

BookBuy ==
    /\ Booking("FILLED") /\ reported.side = "buy"
    /\ LET n == report.size * Lot
           bid == Bid(report.id)
           item == items[reported.symbol]
           left == bid.size - report.size
       IN  /\ \E loss \in RoundingLoss(item, n) :
                 LET ret == Returned(item, n, loss)
                     returned == ReturnBalance(summary, ret)
                     paid == AddBuyingPower(returned, -n * report.price)
                 IN  /\ summary' = ReleaseBalance(paid, HeldFor(bid, report))
                     /\ items' = [items EXCEPT ![reported.symbol] = Bought(item, n, ret)]
           /\ pendingBids' = Kept(pendingBids, report.id, [bid EXCEPT !.size = left])
           /\ MarkPartial(left)
    /\ UNCHANGED <<pendingAsks, shortCash, shortUnits>>

\* The reserved shares are sold first, the others are borrowed.
BookSell ==
    /\ Booking("FILLED") /\ reported.side = "sell"
    /\ LET n == report.size * Lot
           ask == Ask(report.id)
           own == Min({n, ask.reserved})
           short == n - own
           left == ask.size - report.size
       IN  /\ summary' = BorrowBalance(AddBuyingPower(summary, own * report.price),
                                       short * report.price)
           /\ items' = [items EXCEPT ![reported.symbol] =
                           [long |-> @.long - own, short |-> @.short + short,
                            borrowed |-> @.borrowed + short * report.price]]
           /\ shortCash' = shortCash - ask.price * short
           /\ shortUnits' = [shortUnits EXCEPT ![reported.symbol] = @ - own]
           /\ pendingAsks' = Kept(pendingAsks, report.id,
                                  [ask EXCEPT !.size = left, !.reserved = @ - own])
           /\ MarkPartial(left)
    /\ UNCHANGED pendingBids

BookCancelBidFaulty ==
    /\ Booking("CANCELED") /\ reported.side = "buy"
    /\ summary' = ReleaseBalance(summary, HeldFor(Bid(report.id), report))
    /\ UNCHANGED <<execRptBuffer, items, pending>>

BookCancelBid ==
    /\ Booking("CANCELED") /\ reported.side = "buy"
    /\ LET bid == Bid(report.id)
       IN  /\ summary' = ReleaseBalance(summary, HeldFor(bid, report))
           /\ pendingBids' = Kept(pendingBids, report.id, [bid EXCEPT !.size = @ - report.size])
    /\ UNCHANGED <<execRptBuffer, items, pendingAsks, shortCash, shortUnits>>

\* The shares to be borrowed are cancelled first, then the reserved ones.
BookCancelAsk ==
    /\ Booking("CANCELED") /\ reported.side = "sell"
    /\ LET n == report.size * Lot
           ask == Ask(report.id)
           short == Min({n, ask.size * Lot - ask.reserved})
           own == n - short
       IN  /\ shortCash' = shortCash - ask.price * short
           /\ shortUnits' = [shortUnits EXCEPT ![reported.symbol] = @ - own]
           /\ pendingAsks' = Kept(pendingAsks, report.id,
                                  [ask EXCEPT !.size = @ - report.size, !.reserved = @ - own])
    /\ UNCHANGED <<execRptBuffer, account, pendingBids>>

Listed(entry, status) ==
    IF status = "CANCELED" THEN [entry EXCEPT !.status = "PARTIALLY_FILLED"]
    ELSE [entry EXCEPT !.status = status]

\* The size that is executed or cancelled with a report: 0 for a confirmation.
ExecutedFaulty(entry, r) ==
    entry.executed + (IF r.status \in Confirmations THEN entry.size ELSE r.size)
Executed(entry, r) == entry.executed + r.size

UpdateWaitingListFaulty ==
    /\ execRptBuffer # <<>>
    /\ booked \/ report.status \in Confirmations
    /\ execRptBuffer' = Tail(execRptBuffer)
    /\ UNCHANGED <<order, thread, booked, book, market>>

\* A report of an order that is not listed changes nothing.
UpdateWaitingList ==
    /\ execRptBuffer # <<>>
    /\ booked \/ report.status \in Confirmations
    /\ IF report.id \in DOMAIN waitingList
       THEN LET listed == waitingList[report.id]
                entry == [listed EXCEPT !.executed = Executed(listed, report)]
            IN  waitingList' = IF entry.executed = entry.size THEN Without(waitingList, report.id)
                               ELSE [waitingList EXCEPT ![report.id] = Listed(entry, report.status)]
       ELSE UNCHANGED waitingList
    /\ execRptBuffer' = Tail(execRptBuffer)
    /\ booked' = FALSE
    /\ UNCHANGED <<order, thread, account, pending, market>>

--------------------------------------------------------------------------------
OrderThread  == ReadUsable \/ Verify \/ ListOrder
ReportThread == BookBuy \/ BookSell \/ BookCancelBid \/ BookCancelAsk \/ UpdateWaitingList

User ==
    \/ \E o \in Inputs : SubmitOrder(o)
    \/ \E id \in 1..Len(orders), q \in Sizes : SubmitCancel(id, q)

Market ==
    \/ BufferMessage
    \/ ConfirmMessage
    \/ \E id \in DOMAIN open : \E q \in 1..open[id], price \in Prices : Execute(id, q, price)
    \/ CarryOutCancel

Next == OrderThread \/ ReportThread \/ User \/ Market

Spec == Init /\ [][Next]_vars

--------------------------------------------------------------------------------
TypeOK ==
    /\ orders \in Seq(Orders) /\ Len(orders) <= MaxOrders
    /\ cancelled \in 0..MaxCancels
    /\ orderBuffer \in Seq(Requests) /\ toMarket \in Seq(Requests)
    /\ execRptBuffer \in Seq(Reports)
    /\ step \in {"read", "verify", "list"} /\ (step # "read" => orderBuffer # <<>>)
    /\ usable \in Int
    /\ booked \in BOOLEAN /\ (booked => execRptBuffer # <<>>)
    /\ summary \in [buyingPower: Int, holding: Int, borrowed: Int]
    /\ items \in [Symbols -> [long: Int, short: Int, borrowed: Int]]
    /\ DOMAIN pendingBids \cup DOMAIN pendingAsks \subseteq 1..Len(orders)
    /\ shortCash \in Int /\ shortUnits \in [Symbols -> Int]
    /\ DOMAIN waitingList \subseteq 1..Len(orders)
    /\ \A id \in DOMAIN waitingList : waitingList[id].status \in Statuses
    /\ confirming \in Seq(Requests) /\ Len(confirming) <= 1
    /\ cancels \in Seq(Requests)
    /\ DOMAIN open \subseteq 1..Len(orders) /\ \A id \in DOMAIN open : open[id] \in Nat
    /\ traded \in [cash: Int, shares: [Symbols -> Int]]

\* The reports that are still to be booked.
Unbooked == IF booked THEN Tail(execRptBuffer) ELSE execRptBuffer

\* What the booking of a report will bring the user.
ProceedsOf(r) ==
    IF r.status = "FILLED" THEN Proceeds(orders[r.id].side, r.size * Lot, r.price) ELSE 0
SharesIn(r, s) ==
    IF r.status = "FILLED" /\ orders[r.id].symbol = s
    THEN SharesOf(orders[r.id].side, r.size * Lot) ELSE 0

\* What a pending order may still cost, and what it has reserved.
HeldBids     == [id \in DOMAIN pendingBids |-> pendingBids[id].price * pendingBids[id].size * Lot]
CashReserved == [id \in DOMAIN pendingAsks |->
                    pendingAsks[id].price * (pendingAsks[id].size * Lot - pendingAsks[id].reserved)]
UnitsReserved(s) == [id \in DOMAIN pendingAsks |->
                        IF orders[id].symbol = s THEN pendingAsks[id].reserved ELSE 0]

\* What the reports on their way and the messages that are sent say of an order.
CashComing      == [k \in DOMAIN Unbooked |-> ProceedsOf(Unbooked[k])]
SharesComing(s) == [k \in DOMAIN Unbooked |-> SharesIn(Unbooked[k], s)]
SizeComing(id)  == [k \in DOMAIN Unbooked |-> IF Unbooked[k].id = id THEN Unbooked[k].size ELSE 0]
SizeSent(id)    == [k \in DOMAIN toMarket |->
                       IF toMarket[k].id = id /\ ~toMarket[k].cancel THEN toMarket[k].size ELSE 0]

(***************************************************************************)
(* The money held is what the pending buy orders may still cost at the     *)
(* prices they were accepted at, whatever was executed or cancelled since. *)
(***************************************************************************)
HoldingsBacked == summary.holding = SumFunction(HeldBids)

(***************************************************************************)
(* The shares reserved for pending sell orders are those the orders may    *)
(* still use, no more than the user has, and the cash reserved is for all  *)
(* the others: the split made when an order is accepted, when it is        *)
(* executed and when it is cancelled agree.                                *)
(***************************************************************************)
ReservationsExact ==
    /\ shortCash = SumFunction(CashReserved)
    /\ \A s \in Symbols :
          /\ shortUnits[s] = SumFunction(UnitsReserved(s))
          /\ shortUnits[s] <= items[s].long
    /\ \A id \in DOMAIN pendingAsks :
          pendingAsks[id].reserved \in 0..pendingAsks[id].size * Lot

(***************************************************************************)
(* No money is made or lost: what the user can spend, what is held, what   *)
(* is borrowed (withheld once as lent and once as sold) and what the       *)
(* reports on their way will bring is what the user started with and what  *)
(* the executions of the market brought.                                   *)
(***************************************************************************)
CashConserved ==
    summary.buyingPower + summary.holding + 2 * summary.borrowed + SumFunction(CashComing)
      = BuyingPower + traded.cash

(***************************************************************************)
(* No share is made or lost: the long shares less the short ones are those *)
(* the user started with and those traded, but for the reports on their    *)
(* way.  The sum of what is borrowed for each symbol is what is borrowed.  *)
(***************************************************************************)
PositionConserved ==
    /\ \A s \in Symbols :
          /\ items[s].long - items[s].short + SumFunction(SharesComing(s))
               = LongShares[s] + traded.shares[s]
          /\ items[s].long >= 0 /\ items[s].short >= 0
    /\ summary.borrowed = SumFunction([s \in Symbols |-> items[s].borrowed])

(***************************************************************************)
(* An order is pending for what the MatchingEngine still has of it and     *)
(* what the reports on their way say of it: no report meets an order that  *)
(* is not pending, and no order stays pending when there is nothing left.  *)
(***************************************************************************)
AtMarket(id) == IF id \in DOMAIN open THEN open[id] ELSE SumFunction(SizeSent(id))

PendingExact ==
    \A id \in DOMAIN orders :
       Bid(id).size + Ask(id).size = AtMarket(id) + SumFunction(SizeComing(id))

(***************************************************************************)
(* An order that is not finished is on the waiting list as soon as the     *)
(* order thread has put it there, so the user sees it and may cancel it.   *)
(***************************************************************************)
UnfinishedListed ==
    \A id \in DOMAIN pendingBids \cup DOMAIN pendingAsks :
       \/ step = "list" /\ request.id = id /\ ~request.cancel
       \/ id \in DOMAIN waitingList

(***************************************************************************)
(* When the order thread and the reports are done with an order of which   *)
(* nothing is left, it is not on the waiting list: a client that cancels   *)
(* its orders waits until the list is empty.                               *)
(***************************************************************************)
FinishedUnlisted ==
    \A id \in DOMAIN waitingList :
       \/ id \in DOMAIN open /\ open[id] > 0
       \/ \E m \in Range(toMarket) \cup Range(orderBuffer) : m.id = id
       \/ \E r \in Range(execRptBuffer) : r.id = id

(***************************************************************************)
(* A sell order that needs borrowed shares is accepted only when the user  *)
(* can still buy back everything that is borrowed with the money that is   *)
(* not reserved.                                                           *)
(***************************************************************************)
CanRecover ==
    [][\A id \in DOMAIN pendingAsks' \ DOMAIN pendingAsks :
          shortCash' > shortCash => summary.borrowed < summary.buyingPower - shortCash]_vars

================================================================================
