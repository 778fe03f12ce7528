------------------------------- MODULE FBAMarket -------------------------------
(***************************************************************************)
(* The frequent batch auction of one symbol: class markets::FBAStockMarket *)
(* of the MatchingEngine.                                                  *)
(*                                                                         *)
(* The market thread collects orders in the local book and, when the next  *)
(* auction is due, chooses one price and matches at it. It holds           *)
(* m_spinlock in every phase but "idle" and "publish". Submissions and     *)
(* cancellations are one action each; the auction has an action for each   *)
(* turn of its loops, since one of them need not end. The feed's quotes    *)
(* and trades are ignored here, and orders of one trader may match.        *)
(*                                                                         *)
(* The code has one function per side; the model has the side as a         *)
(* parameter. An operator named XFaulty is X with a plausible mistake;     *)
(* nothing uses it.                                                        *)
(***************************************************************************)
EXTENDS SequencesExt

CONSTANTS
    Prices,       \* the prices of limit orders
    Submissions,  \* the orders that clients may submit
    CancelSizes,  \* the sizes of cancellations
    MaxLevel,     \* FBA_ORDER_BOOK_MAX_LEVEL
    DblMin,       \* std::numeric_limits<double>::min(): below every price
    DblMax,       \* std::numeric_limits<double>::max(): above every price
    MaxOrders,    \* bound: orders that clients submit
    MaxCancels,   \* bound: cancellations that clients submit
    MaxAuctions   \* bound: auctions

Sides == {"bid", "ask"}
Kinds == {"LIMIT", "MARKET"}

ASSUME AuctionAssumption ==
    /\ Prices \subseteq Nat
    /\ DblMin \in Nat
    /\ DblMax \in Nat
    /\ DblMin < DblMax
    /\ \A p \in Prices : DblMin < p /\ p < DblMax
    /\ Submissions \subseteq [kind: Kinds, side: Sides, price: Prices \cup {0}, size: Nat \ {0}]
    /\ \A o \in Submissions : o.kind = "LIMIT" <=> o.price \in Prices
    /\ CancelSizes \subseteq Nat \ {0}
    /\ {MaxLevel, MaxOrders} \subseteq Nat

VARIABLES
    orders,       \* the Order objects, by ID; size 0 when not in the book
    book,         \* m_localBids, m_localAsks: price levels of order IDs, best first
    lastPrice,    \* m_lastExecutionPrice
    phase,        \* where in operator() the market thread is
    rows,         \* the rows of demandSuppyTable that are still to be read
    total,        \* totalExecutionSize
    price,        \* executionPrice
    shares,       \* bidSizes, askSizes
    pos,          \* thisBidOrder, thisAskOrder, as indices in the first level
    division,     \* the locals of s_determineExecutionSizes
    reports,      \* m_executionReports
    published,    \* the local books that a broker was last sent
    ledger,       \* history: for each order, what was submitted and what reported
    cancels,      \* history: number of cancellations so far
    auctions      \* history: number of auctions so far

auction == <<lastPrice, rows, total, price, shares, pos, division>>
vars    == <<orders, book, lastPrice, phase, rows, total, price, shares, pos, division,
             reports, published, ledger, cancels, auctions>>

Better(s, p, q) == IF s = "bid" THEN p > q ELSE p < q
TopPrice(s)     == IF s = "bid" THEN DblMax ELSE DblMin
LeastFaulty(a, b) == IF a <= b THEN b ELSE a
Least(a, b)     == IF a <= b THEN a ELSE b
LeftFaulty(a, b) == a - b
Left(a, b)      == IF a > b THEN a - b ELSE 0

--------------------------------------------------------------------------------
(* The submission stage. *)

(* s_sortPriceLevel: more auctions first, then more shares; the sort is stable. *)
PrecedesFaulty(ord, ids, i, j) ==
    \/ ord[ids[i]].size > ord[ids[j]].size
    \/ ord[ids[i]].size = ord[ids[j]].size /\ i < j
Precedes(ord, ids, i, j) ==
    LET a == ord[ids[i]]
        b == ord[ids[j]]
    IN  \/ a.counter > b.counter
        \/ a.counter = b.counter /\ a.size > b.size
        \/ a.counter = b.counter /\ a.size = b.size /\ i < j

SortPriceLevel(ord, ids) ==
    LET ahead(i) == {j \in DOMAIN ids : Precedes(ord, ids, j, i)}
    IN  [k \in DOMAIN ids |-> ids[CHOOSE i \in DOMAIN ids : Cardinality(ahead(i)) = k - 1]]

NotBetterThan(s, p) == SelectInSeq(book[s], LAMBDA lv : ~Better(s, lv.price, p))

(* The levels of side s with order id of ord in them. Past the last level the  *)
(* code reads the sentinel of the list, and appends whatever it finds there.   *)
LevelWith(lv, q) == lv.size + q

Inserted(s, ord, id) ==
    LET o    == ord[id]
        i    == NotBetterThan(s, o.price)
        mine == [price |-> o.price, size |-> o.size, ids |-> <<id>>]
    IN  IF i = 0 THEN Append(book[s], mine)
        ELSE IF book[s][i].price = o.price
        THEN ReplaceAt(book[s], i,
                [price |-> o.price, size |-> LevelWith(book[s][i], o.size),
                 ids |-> SortPriceLevel(ord, Append(book[s][i].ids, id))])
        ELSE InsertAt(book[s], i, mine)

(* insertLocalBid, insertLocalAsk: a market order gets the top price of its side. *)
InsertLocal(o) ==
    /\ phase = "idle"
    /\ Len(orders) < MaxOrders
    /\ orders' = Append(orders, [kind |-> o.kind, side |-> o.side, size |-> o.size, counter |-> 0,
                                 price |-> IF o.kind = "MARKET" THEN TopPrice(o.side) ELSE o.price])
    /\ book' = [book EXCEPT ![o.side] = Inserted(o.side, orders', Len(orders'))]
    /\ ledger' = Append(ledger, [trader |-> Len(orders'), submitted |-> o.size,
                                 filled |-> 0, cancelled |-> 0])
    /\ UNCHANGED <<auction, phase, reports, published, cancels, auctions>>

(* doLocalCancelBid, doLocalCancelAsk: the level of the price, or the first for *)
(* a market order; what is left of the level is sorted again.                    *)
CancelLevel(s, p) ==
    IF p = 0 THEN Least(1, Len(book[s]))
    ELSE LET i == NotBetterThan(s, p) IN IF i # 0 /\ book[s][i].price = p THEN i ELSE 0

DoLocalCancel(id, q) ==
    LET o  == orders[id]
        s  == o.side
        l  == CancelLevel(s, IF o.kind = "MARKET" THEN 0 ELSE o.price)
        lv == book[s][l]
        i  == IF l = 0 THEN 0 ELSE SelectInSeq(lv.ids, LAMBDA x : x = id)
        executed == Least(o.size, q)
    IN  /\ phase = "idle"
        /\ cancels < MaxCancels
        /\ cancels' = cancels + 1
        /\ IF i = 0 THEN UNCHANGED <<orders, book, ledger>>
           ELSE /\ orders' = [orders EXCEPT ![id].size = Left(@, q)]
                /\ ledger' = [ledger EXCEPT ![id].cancelled = @ + executed]
                /\ LET left == IF o.size <= q THEN RemoveAt(lv.ids, i) ELSE lv.ids
                   IN  book' = [book EXCEPT ![s] =
                          IF left = <<>> THEN RemoveAt(@, l)
                          ELSE ReplaceAt(@, l, [price |-> lv.price, size |-> lv.size - executed,
                                                ids |-> SortPriceLevel(orders', left)])]
        /\ UNCHANGED <<auction, phase, reports, published, auctions>>

--------------------------------------------------------------------------------
(* doBatchAuction, first step: the execution price. *)

(* The first level of limit orders of a side, one past the last if there is none. *)
LimitLevel(s) ==
    IF book[s] # <<>> /\ orders[book[s][1].ids[1]].kind = "MARKET" THEN 2 ELSE 1

MatchesPossible ==
    /\ \A s \in Sides : LimitLevel(s) <= Len(book[s])
    /\ book["bid"][LimitLevel("bid")].price >= book["ask"][LimitLevel("ask")].price

(* A row of the demand and supply table, its gaps filled: the shares that side *)
(* s offers at price p or better. The rows are the prices of all levels.        *)
OfferedFaulty(s, p) ==
    SumFunction([i \in DOMAIN book[s] |->
                    IF Better(s, book[s][i].price, p) THEN 0 ELSE book[s][i].size])
Offered(s, p) ==
    SumFunction([i \in DOMAIN book[s] |->
                    IF Better(s, p, book[s][i].price) THEN 0 ELSE book[s][i].size])

Rows == UNION {{lv.price : lv \in Range(book[s])} : s \in Sides}

Matched(p) == Least(Offered("bid", p), Offered("ask", p))
Excess(p)  == LET d == Offered("bid", p) - Offered("ask", p) IN IF d < 0 THEN -d ELSE d

(* The distance of two doubles: next to the largest one any price is nothing. *)
Distance(p, q) ==
    IF DblMax \in {p, q} /\ p # q THEN DblMax ELSE IF p < q THEN q - p ELSE p - q

(* Whether row p is chosen rather than the best one so far, when not fewer shares *)
(* match at it.                                                                      *)
BeatsFaulty(p) ==
    \/ Matched(p) > total
    \/ Excess(p) = Excess(price) /\ Distance(p, lastPrice) < Distance(price, lastPrice)
Beats(p) ==
    \/ Matched(p) > total
    \/ Excess(p) < Excess(price)
    \/ Excess(p) = Excess(price) /\ Distance(p, lastPrice) < Distance(price, lastPrice)

Report(d, p, q, b, a) == [decision |-> d, price |-> p, size |-> q, bid |-> b, ask |-> a]

(* The auction is due. *)
StartAuction ==
    /\ phase = "idle"
    /\ auctions < MaxAuctions
    /\ auctions' = auctions + 1
    /\ IF MatchesPossible
       THEN phase' = "price" /\ rows' = Rows /\ total' = -1 /\ price' = 0
       ELSE phase' = "close" /\ UNCHANGED <<rows, total, price>>
    /\ UNCHANGED <<orders, book, lastPrice, shares, pos, division, reports, published,
                   ledger, cancels>>

(* The table is read from the lowest price upwards until fewer shares match. *)
ReadRow ==
    LET p == Min(rows)
    IN  /\ phase = "price" /\ rows # {}
        /\ IF Matched(p) < total THEN rows' = {} /\ UNCHANGED <<total, price>>
           ELSE /\ rows' = rows \ {p}
                /\ total' = Matched(p)
                /\ price' = IF Beats(p) THEN p ELSE price
        /\ UNCHANGED <<orders, book, lastPrice, phase, shares, pos, division, reports, published,
                       ledger, cancels, auctions>>

(* The price is announced with decision '5'. *)
AnnouncePrice ==
    /\ phase = "price" /\ rows = {}
    /\ phase' = "share"
    /\ lastPrice' = price
    /\ reports' = <<Report("5", price, total, 0, 0)>>
    /\ UNCHANGED <<orders, book, rows, total, price, shares, pos, division, published,
                   ledger, cancels, auctions>>

--------------------------------------------------------------------------------
(* doBatchAuction, second step: matching, always in the first level of a side. *)

First(s)  == book[s][1]
OrderAt(s, i) == orders[First(s).ids[i]]

(* The side whose level is divided next: the bids, unless they are. *)
ToDivide == IF shares["bid"] = <<>> THEN "bid" ELSE "ask"

Dividing ==
    /\ phase = "share"
    /\ total > 0
    /\ \E s \in Sides : shares[s] = <<>>

(* s_determineExecutionSizes: a level that is not larger than the execution is *)
(* used up.                                                                      *)
WholeLevel(s) == total >= First(s).size

DivideWhole ==
    /\ Dividing
    /\ WholeLevel(ToDivide)
    /\ shares' = [shares EXCEPT ![ToDivide] = [i \in DOMAIN First(ToDivide).ids |-> OrderAt(ToDivide, i).size]]
    /\ UNCHANGED <<orders, book, lastPrice, phase, rows, total, price, pos, division,
                   reports, published, ledger, cancels, auctions>>

(* Else its orders get one share each in turn, the oldest of them first. *)
OldestCounterFaulty(s) == OrderAt(s, Len(First(s).ids)).counter
OldestCounter(s) == OrderAt(s, 1).counter

DivideInTurn ==
    /\ Dividing
    /\ ~WholeLevel(ToDivide)
    /\ shares' = [shares EXCEPT ![ToDivide] = [i \in DOMAIN First(ToDivide).ids |-> 0]]
    /\ division' = [side |-> ToDivide, rest |-> total, counter |-> OldestCounter(ToDivide)]
    /\ phase' = "divide"
    /\ UNCHANGED <<orders, book, lastPrice, rows, total, price, pos,
                   reports, published, ledger, cancels, auctions>>

(* A turn stops at an order that is full or younger than the counter, and serves *)
(* the orders of that counter in front of it while there are shares.             *)
StopsTurn(s, i) ==
    \/ OrderAt(s, i).counter = division.counter /\ OrderAt(s, i).size <= shares[s][i]
    \/ OrderAt(s, i).counter < division.counter

Served(s) ==
    LET reached == {i \in DOMAIN shares[s] : \A j \in 1..i : ~StopsTurn(s, j)}
        open == {i \in reached : OrderAt(s, i).counter = division.counter}
    IN  {i \in open : Cardinality({j \in open : j < i}) < division.rest}

(* One turn of the loop. A turn that serves nobody makes the counter smaller.   *)
(* Below all counters it serves nobody ever after: what the counter then is     *)
(* does not matter, and the model stops counting at -1.                          *)
DivideTurn ==
    LET s == division.side
    IN  /\ phase = "divide"
        /\ shares' = [shares EXCEPT ![s] = [i \in DOMAIN @ |-> IF i \in Served(s) THEN @[i] + 1 ELSE @[i]]]
        /\ division' = [division EXCEPT !.rest = @ - Cardinality(Served(s)),
                                        !.counter = IF Served(s) = {} /\ @ >= 0 THEN @ - 1 ELSE @]
        /\ phase' = IF division'.rest = 0 THEN "share" ELSE "divide"
        /\ UNCHANGED <<orders, book, lastPrice, rows, total, price, pos,
                       reports, published, ledger, cancels, auctions>>

StartMatching ==
    /\ phase = "share"
    /\ total > 0
    /\ \A s \in Sides : shares[s] # <<>>
    /\ phase' = "match"
    /\ UNCHANGED <<orders, book, auction, reports, published, ledger, cancels, auctions>>

(* The order under the cursor of side s after q of its shares are executed:   *)
(* when its part is used up it is erased, if nothing is left of it, or passed. *)
PartDone(s, q) == shares[s][1] = q
OrderDone(s, q) == OrderAt(s, pos[s]).size = q

LevelAfterFaulty(s, q) ==
    [First(s) EXCEPT !.ids = IF PartDone(s, q) /\ OrderDone(s, q) THEN RemoveAt(@, pos[s]) ELSE @]
LevelAfter(s, q) ==
    [First(s) EXCEPT !.size = @ - q,
                     !.ids = IF PartDone(s, q) /\ OrderDone(s, q) THEN RemoveAt(@, pos[s]) ELSE @]

(* The bid and the ask under the cursors trade. *)
MatchPair ==
    LET q  == Least(shares["bid"][1], shares["ask"][1])
        id == [s \in Sides |-> First(s).ids[pos[s]]]
    IN  /\ phase = "match"
        /\ \A s \in Sides : shares[s] # <<>>
        /\ orders' = [i \in DOMAIN orders |->
                        IF i \in {id["bid"], id["ask"]} THEN [orders[i] EXCEPT !.size = @ - q]
                        ELSE orders[i]]
        /\ ledger' = [i \in DOMAIN ledger |->
                        IF i \in {id["bid"], id["ask"]} THEN [ledger[i] EXCEPT !.filled = @ + q]
                        ELSE ledger[i]]
        /\ book' = [s \in Sides |-> ReplaceAt(book[s], 1, LevelAfter(s, q))]
        /\ total' = total - q
        /\ reports' = Append(reports, Report("2", price, q, id["bid"], id["ask"]))
        /\ shares' = [s \in Sides |-> IF PartDone(s, q) THEN Tail(shares[s])
                                      ELSE ReplaceAt(shares[s], 1, shares[s][1] - q)]
        /\ pos' = [s \in Sides |-> IF PartDone(s, q) /\ ~OrderDone(s, q) THEN pos[s] + 1 ELSE pos[s]]
        /\ UNCHANGED <<lastPrice, phase, rows, price, division, published, cancels, auctions>>

(* The parts of one side are used up: empty levels are erased. *)
EndLevel ==
    LET empty == {s \in Sides : First(s).ids = <<>>}
    IN  /\ phase = "match"
        /\ \E s \in Sides : shares[s] = <<>>
        /\ book' = [s \in Sides |-> IF s \in empty THEN Tail(book[s]) ELSE book[s]]
        /\ pos' = [s \in Sides |-> IF s \in empty THEN 1 ELSE pos[s]]
        /\ phase' = "share"
        /\ UNCHANGED <<orders, lastPrice, rows, total, price, shares, division,
                       reports, published, ledger, cancels, auctions>>

EndMatching ==
    /\ phase = "share"
    /\ total = 0
    /\ shares' = [s \in Sides |-> <<>>]
    /\ pos' = [s \in Sides |-> 1]
    /\ phase' = "close"
    /\ UNCHANGED <<orders, book, lastPrice, rows, total, price, division,
                   reports, published, ledger, cancels, auctions>>

--------------------------------------------------------------------------------
(* doIncrementAuctionCounters, sendExecutionReports, and m_spinlock is released. *)
Resting == UNION {UNION {Range(lv.ids) : lv \in Range(book[s])} : s \in Sides}

CloseAuction ==
    /\ phase = "close"
    /\ orders' = [i \in DOMAIN orders |->
                    IF i \in Resting THEN [orders[i] EXCEPT !.counter = @ + 1] ELSE orders[i]]
    /\ reports' = <<>>
    /\ phase' = "publish"
    /\ UNCHANGED <<book, auction, published, ledger, cancels, auctions>>

(* sendOrderBookData: the first n levels of side s, hidden market orders aside. *)
VisibleFaulty(s, n) == {book[s][i] : i \in 1..Least(n, Len(book[s]))}
Visible(s, n) ==
    {lv \in {book[s][i] : i \in 1..Least(n, Len(book[s]))} : orders[lv.ids[1]].kind # "MARKET"}

Sent(s, n) == {[price |-> lv.price, size |-> lv.size] : lv \in Visible(s, n)}

(* After the auction the books are broadcast. *)
Publish ==
    /\ phase = "publish"
    /\ published' = [s \in Sides |-> Sent(s, MaxLevel)]
    /\ phase' = "idle"
    /\ UNCHANGED <<orders, book, auction, reports, ledger, cancels, auctions>>

(* A broker logs on: it is sent the whole books as they are, when m_spinlock is free. *)
OnLogon ==
    /\ phase \in {"idle", "publish"}
    /\ published' = [s \in Sides |-> Sent(s, Len(book[s]))]
    /\ UNCHANGED <<orders, book, auction, phase, reports, ledger, cancels, auctions>>

Init ==
    /\ orders = <<>>
    /\ book = [s \in Sides |-> <<>>]
    /\ lastPrice = 0
    /\ phase = "idle"
    /\ rows = {}
    /\ total = 0
    /\ price = 0
    /\ shares = [s \in Sides |-> <<>>]
    /\ pos = [s \in Sides |-> 1]
    /\ division = [side |-> "bid", rest |-> 0, counter |-> 0]
    /\ reports = <<>>
    /\ published = [s \in Sides |-> {}]
    /\ ledger = <<>>
    /\ cancels = 0
    /\ auctions = 0

(* What the market thread does to finish the auction it is in. *)
Auction ==
    \/ ReadRow \/ AnnouncePrice
    \/ DivideWhole \/ DivideInTurn \/ DivideTurn
    \/ StartMatching \/ MatchPair \/ EndLevel \/ EndMatching
    \/ CloseAuction \/ Publish

Next ==
    \/ \E o \in Submissions : InsertLocal(o)
    \/ \E id \in DOMAIN orders, q \in CancelSizes : DoLocalCancel(id, q)
    \/ StartAuction
    \/ OnLogon
    \/ Auction

Spec == Init /\ [][Next]_vars

(* The market thread runs until the simulation ends. *)
FairSpec == Spec /\ WF_vars(Auction)

--------------------------------------------------------------------------------
(* Properties. *)

TypeOK ==
    /\ orders \in Seq([kind: Kinds, side: Sides, price: Nat, size: Nat, counter: Nat])
    /\ book \in [Sides -> Seq([price: Nat, size: Nat, ids: Seq(DOMAIN orders)])]
    /\ lastPrice \in Nat
    /\ phase \in {"idle", "price", "share", "divide", "match", "close", "publish"}
    /\ rows \subseteq Nat
    /\ total \in Nat \cup {-1}
    /\ price \in Nat
    /\ shares \in [Sides -> Seq(Nat)]
    /\ pos \in [Sides -> Nat \ {0}]
    /\ division \in [side: Sides, rest: Nat, counter: Int]
    /\ reports \in Seq([decision: {"2", "5"}, price: Nat, size: Nat, bid: Nat, ask: Nat])
    /\ published \in [Sides -> SUBSET [price: Nat, size: Nat]]
    /\ ledger \in Seq([trader: Nat, submitted: Nat, filled: Nat, cancelled: Nat])
    /\ cancels \in Nat
    /\ auctions \in Nat

(* The orders that belong to the level of price p of side s, and their shares. *)
Members(s, p) ==
    {id \in DOMAIN orders : orders[id].size > 0 /\ orders[id].side = s /\ orders[id].price = p}
SharesOf(ids) == SumFunction([id \in ids |-> orders[id].size])

(***************************************************************************)
(* The book holds each order with shares left exactly once, on its side    *)
(* and at its price, and no other; levels are strictly best first; and the *)
(* size of a level, which insertions, cancellations and executions adjust  *)
(* beside the orders, is the sum of the sizes of its orders. The table of   *)
(* demand and supply is made from the sizes of levels.                      *)
(***************************************************************************)
LevelsExact ==
    \A s \in Sides :
        /\ \A l \in DOMAIN book[s] :
              LET lv == book[s][l]
              IN  /\ IsInjective(lv.ids) /\ Range(lv.ids) = Members(s, lv.price)
                  /\ lv.size = SharesOf(Members(s, lv.price))
                  /\ \A m \in 1..(l - 1) : Better(s, book[s][m].price, lv.price)
        /\ \A id \in DOMAIN orders :
              orders[id].size > 0 /\ orders[id].side = s
                  => \E lv \in Range(book[s]) : lv.price = orders[id].price

(***************************************************************************)
(* No share is lost or made up: what was submitted is what was reported as *)
(* executed or cancelled and what rests in the book.                       *)
(***************************************************************************)
SharesAccounted ==
    /\ Len(ledger) = Len(orders)
    /\ \A id \in DOMAIN orders :
          ledger[id].submitted = ledger[id].filled + ledger[id].cancelled + orders[id].size

(***************************************************************************)
(* In every level, orders that have seen more auctions stand in front,     *)
(* through insertions, partial cancellations and auctions. The division of *)
(* an execution stops at the first younger order and relies on it.          *)
(***************************************************************************)
LevelsByAge ==
    \A s \in Sides : \A l \in DOMAIN book[s] : \A i, j \in DOMAIN book[s][l].ids :
        i < j => orders[book[s][l].ids[i]].counter >= orders[book[s][l].ids[j]].counter

(***************************************************************************)
(* Each trade of an auction is of at least one share, at the one price     *)
(* that was announced, and within the limits of both orders; and when the  *)
(* auction closes, as many shares were traded as were announced. An         *)
(* execution of no share would follow from parts that end in zeros on both *)
(* sides at once: one side is always used up level by level.                *)
(***************************************************************************)
TradesSound ==
    /\ \A i \in 2..Len(reports) :
          /\ reports[i].size > 0
          /\ reports[i].price = reports[1].price
          /\ orders[reports[i].bid].price >= reports[i].price
          /\ orders[reports[i].ask].price <= reports[i].price
    /\ phase = "close" /\ reports # <<>>
          => reports[1].size = SumFunction([i \in 2..Len(reports) |-> reports[i].size])

(***************************************************************************)
(* An auction that trades leaves nothing to trade: no bid and ask that     *)
(* cross are left, hidden market orders included. So a partial execution   *)
(* is on one side of the market only.                                      *)
(***************************************************************************)
AuctionClears ==
    phase = "close" /\ reports # <<>> =>
        \A b, a \in DOMAIN orders :
            ~ /\ orders[b].side = "bid" /\ orders[b].size > 0
              /\ orders[a].side = "ask" /\ orders[a].size > 0
              /\ orders[b].price >= orders[a].price

(* Of hidden market orders, whose price is a sentinel, nothing is sent. *)
MarketsHidden == \A s \in Sides : \A lv \in published[s] : lv.price \in Prices

(***************************************************************************)
(* The broadcast after an auction replaces whatever a broker has, which may *)
(* be a crossed book from its logon during the submission of orders, by one *)
(* that is not crossed, also when nothing was traded and hidden market      *)
(* orders stay in front of it; and no broadcast or logon shows a sentinel.  *)
(***************************************************************************)
PublishedUncrossed ==
    [][/\ MarketsHidden'
       /\ phase = "publish" /\ phase' = "idle" =>
             \A b \in published'["bid"], a \in published'["ask"] : b.price < a.price]_vars

(***************************************************************************)
(* The three rules: the price matches the most shares; among such prices    *)
(* it leaves the fewest shares without a counterpart; among those it is     *)
(* closest to the last price. The code reads the table only until fewer     *)
(* shares match, and this is what it would find in all of it.               *)
(***************************************************************************)
PriceRules ==
    [][phase = "price" /\ phase' = "share" =>
          \A r \in Rows :
              /\ Matched(r) <= total'
              /\ Matched(r) = total' => Excess(price') <= Excess(r)
              /\ Matched(r) = total' /\ Excess(price') = Excess(r)
                    => Distance(price', lastPrice) <= Distance(r, lastPrice)]_vars

(* The orders of a level are as the division expects them. *)
BySize(s) ==
    \A i, j \in DOMAIN First(s).ids :
        i < j /\ OrderAt(s, i).counter = OrderAt(s, j).counter
            => OrderAt(s, i).size >= OrderAt(s, j).size

(***************************************************************************)
(* The division of an execution among the orders of a level that is sorted *)
(* by counter and size hands out all of it; gives nothing to an order while *)
(* an older one has shares left; and gives orders of one age equal parts,   *)
(* to a share, unless one is full.                                          *)
(***************************************************************************)
FairDivision ==
    [][phase = "divide" /\ phase' = "share" /\ BySize(division.side) =>
          LET s    == division.side
              part == shares'[s]
              full == {i \in DOMAIN part : part[i] = OrderAt(s, i).size}
          IN  /\ SumFunction(part) = total
              /\ \A i \in DOMAIN part \ full, j \in DOMAIN part :
                    /\ OrderAt(s, i).counter > OrderAt(s, j).counter => part[j] = 0
                    /\ OrderAt(s, i).counter = OrderAt(s, j).counter => part[j] <= part[i] + 1]_vars

(***************************************************************************)
(* The market keeps the promise of OrderLedger. An auction matches orders  *)
(* of the same trader too, so each order stands for a trader of its own.    *)
(***************************************************************************)
Ledger == INSTANCE OrderLedger WITH Traders <- 1..MaxOrders,
                                    Sizes   <- {o.size : o \in Submissions},
                                    ledger  <- ledger
LedgerSpec == Ledger!Spec

(***************************************************************************)
(* Every auction ends and m_spinlock is released. It does not, because the  *)
(* division of an execution ends only if the level is sorted, and partial   *)
(* executions leave it unsorted.                                            *)
(***************************************************************************)
AuctionEnds == phase # "idle" ~> phase = "idle"

================================================================================
