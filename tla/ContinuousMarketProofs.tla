------------------------- MODULE ContinuousMarketProofs -------------------------
(***************************************************************************)
(* Proofs about ContinuousMarket, for any traders, prices, sizes, feed and *)
(* number of orders.                                                       *)
(***************************************************************************)
EXTENDS ContinuousMarket, DataLemmas

(***************************************************************************)
(* The search for the first level or quote that is not better than a price *)
(* finds one, or nothing.                                                  *)
(***************************************************************************)
LEMMA NotBetterThanType ==
    ASSUME NEW S, NEW s, NEW levels \in Seq(S), NEW p
    PROVE  NotBetterThan(s, levels, p) \in 0..Len(levels)
<1> DEFINE I == {i \in 1..Len(levels) : ~Better(s, levels[i].price, p)}
<1>1. I # {} => Min(I) \in I
  <2> I \in SUBSET Nat
    OBVIOUS
  <2> HIDE DEF I
  <2> QED BY MinNat
<1> QED BY <1>1 DEF NotBetterThan, SelectInSeq

--------------------------------------------------------------------------------
(* Executions: what a report does to the ledger, and an execution to the books. *)

LedgerEntry == [trader: Traders, submitted: Sizes, filled: Nat, cancelled: Nat]

Reduced(e) == e.filled + e.cancelled

(***************************************************************************)
(* What an execution report for size shares of id1 and id2 does to the      *)
(* ledger: it stays an account of the same orders, and the entries of the   *)
(* two orders change by size.                                               *)
(***************************************************************************)
ReportEffect(size, id1, id2) ==
    /\ reports' \in Seq(Report)
    /\ ledger' \in Seq(LedgerEntry)
    /\ Len(ledger') = Len(ledger)
    /\ \A i \in 1..Len(ledger) :
          /\ ledger'[i].trader = ledger[i].trader
          /\ ledger'[i].submitted = ledger[i].submitted
          /\ Reduced(ledger'[i]) \in Nat /\ Reduced(ledger[i]) \in Nat
          /\ Reduced(ledger'[i]) = IF i \in {id1, id2} THEN Reduced(ledger[i]) + size
                                   ELSE Reduced(ledger[i])

(***************************************************************************)
(* An execution report keeps the ledger an account of the same orders, and  *)
(* changes the entries of the orders it names only.                        *)
(***************************************************************************)
LEMMA ReportStep ==
    ASSUME reports \in Seq(Report), ledger \in Seq(LedgerEntry),
           NEW price \in Nat, NEW size \in Nat, NEW id1 \in Nat, NEW id2 \in Nat,
           NEW decision \in {"2", "4", "5"},
           AddExecutionReport(price, size, id1, id2, decision)
    PROVE  ReportEffect(size, id1, id2)
<1> DEFINE r == [price |-> price, size |-> size, id1 |-> id1, id2 |-> id2,
                 decision |-> decision]
<1>1. reports' = Append(reports, r) /\ ledger' = Reported(r)
  BY DEF AddExecutionReport
<1>2. r \in Report
  BY DEF Report
<1>3. reports' \in Seq(Report)
  BY <1>1, <1>2, AppendProperties
<1>4. DOMAIN ledger = 1..Len(ledger) /\ Len(ledger) \in Nat
  BY LenProperties
<1>5. \A i \in 1..Len(ledger) : ledger[i] \in LedgerEntry
  BY ElementOfSeq
<1> DEFINE e(i) == IF i \notin {id1, id2} THEN ledger[i]
                   ELSE IF decision = "4" THEN [ledger[i] EXCEPT !.cancelled = @ + size]
                   ELSE [ledger[i] EXCEPT !.filled = @ + size]
<1>6. ledger' = [i \in 1..Len(ledger) |-> e(i)]
  BY <1>1, <1>4 DEF Reported
<1>7. ASSUME NEW i \in 1..Len(ledger)
      PROVE  e(i) \in LedgerEntry
  <2>1. ledger[i].filled + size \in Nat /\ ledger[i].cancelled + size \in Nat
    BY <1>5, SMTT(60) DEF LedgerEntry
  <2>2. /\ [ledger[i] EXCEPT !.filled = @ + size] \in LedgerEntry
        /\ [ledger[i] EXCEPT !.cancelled = @ + size] \in LedgerEntry
    BY <1>5, <2>1 DEF LedgerEntry
  <2> QED BY <1>5, <2>2
<1> HIDE DEF e
<1>8. ledger' \in [1..Len(ledger) -> LedgerEntry]
  BY <1>6, <1>7
<1>9. ledger' \in Seq(LedgerEntry)
  BY <1>4, <1>8, SeqDef
<1>10. Len(ledger') = Len(ledger)
  BY <1>4, <1>6, <1>9, LenProperties
<1>11. ASSUME NEW i \in 1..Len(ledger)
       PROVE  /\ e(i).trader = ledger[i].trader
              /\ e(i).submitted = ledger[i].submitted
              /\ Reduced(e(i)) \in Nat /\ Reduced(ledger[i]) \in Nat
              /\ Reduced(e(i)) = IF i \in {id1, id2} THEN Reduced(ledger[i]) + size
                                 ELSE Reduced(ledger[i])
  <2>1. ledger[i] \in LedgerEntry
    BY <1>5
  <2>3. ledger[i].filled \in Nat /\ ledger[i].cancelled \in Nat
    BY <2>1 DEF LedgerEntry
  <2>4. /\ e(i).trader = ledger[i].trader
        /\ e(i).submitted = ledger[i].submitted
        /\ e(i).filled = ledger[i].filled
              + (IF i \in {id1, id2} /\ decision # "4" THEN size ELSE 0)
        /\ e(i).cancelled = ledger[i].cancelled
              + (IF i \in {id1, id2} /\ decision = "4" THEN size ELSE 0)
    BY SMTT(60), <2>1, <2>3 DEF LedgerEntry, e
  <2> QED BY <2>3, <2>4, SMTT(60) DEF Reduced
<1> QED BY <1>3, <1>6, <1>9, <1>10, <1>11 DEF ReportEffect

(***************************************************************************)
(* Execution arithmetic: an execution takes from either order the size      *)
(* that is reported, which neither of them exceeds.                        *)
(***************************************************************************)
LEMMA ExecutionSize ==
    ASSUME NEW a \in Nat, NEW b \in Nat
    PROVE  /\ Least(a, b) \in Nat
           /\ Least(a, b) <= a /\ Least(a, b) <= b
           /\ a > 0 /\ b > 0 => Least(a, b) > 0
           /\ Left(a, b) = a - Least(a, b) /\ Left(b, a) = b - Least(a, b)
           /\ a - Least(a, b) \in Nat /\ b - Least(a, b) \in Nat
BY DEF Least, Left

(***************************************************************************)
(* A level and its book, after an execution of the order at its i-th place, *)
(* hold what they held but for that order and, if it was the last, the      *)
(* level.                                                                  *)
(***************************************************************************)
LEMMA BookAfterType ==
    ASSUME NEW levels \in Seq(PriceLevel), NEW l \in 1..Len(levels),
           NEW i \in 1..Len(levels[l].ids), NEW q \in Nat
    PROVE  BookAfter(levels, l, LevelAfter(levels[l], i, q)) \in Seq(PriceLevel)
<1> DEFINE lv == levels[l]
           ids == IF orders[lv.ids[i]].size <= q THEN RemoveAt(lv.ids, i) ELSE lv.ids
           after == [price |-> lv.price, size |-> lv.size - q, ids |-> ids]
<1>1. lv \in PriceLevel
  BY ElementOfSeq
<1>2. lv.ids \in Seq(DOMAIN orders)
  BY <1>1 DEF PriceLevel
<1>3. ids \in Seq(DOMAIN orders)
  BY <1>2, RemoveAtProperties
<1>4. LevelAfter(lv, i, q) = after
  BY DEF LevelAfter
<1> HIDE DEF ids, lv
<1>5. lv.price \in Prices \cup {DblMin, DblMax} /\ lv.size \in Int
  BY <1>1 DEF PriceLevel
<1>6. after.ids # <<>> => after \in PriceLevel
  BY <1>3, <1>5 DEF PriceLevel
<1> HIDE DEF after
<1>7. RemoveAt(levels, l) \in Seq(PriceLevel)
  BY RemoveAtProperties
<1>8. after.ids # <<>> => ReplaceAt(levels, l, after) \in Seq(PriceLevel)
  BY <1>6, ExceptSeq DEF ReplaceAt
<1> QED BY <1>4, <1>6, <1>7, <1>8 DEF BookAfter, lv

(* The order at the i-th place of level l of side s, and the size of an        *)
(* execution of nextOrder with it.                                              *)
Resting(s, l, i)  == localBook[s][l].ids[i]
Executed(s, l, i) == Least(orders[Resting(s, l, i)].size, nextOrder.size)

(***************************************************************************)
(* An execution of nextOrder with a resting order takes the reported size  *)
(* from both, and leaves the other orders and every type as they are.      *)
(***************************************************************************)
LEMMA LocalExecution ==
    ASSUME TypeOK, NEW s \in Sides, NEW l \in 1..Len(localBook[s]),
           NEW i \in 1..Len(localBook[s][l].ids), NEW price \in Nat,
           NEW decision \in {"2", "4"},
           ExecuteLocalOrder(s, l, i, price, decision)
    PROVE  /\ Resting(s, l, i) \in 1..Len(orders) /\ Executed(s, l, i) \in Nat
           /\ Executed(s, l, i) <= orders[Resting(s, l, i)].size /\ Executed(s, l, i) <= nextOrder.size
           /\ orders[Resting(s, l, i)].size > 0 /\ nextOrder.size > 0 => Executed(s, l, i) > 0
           /\ orders' \in Seq(ClientOrder) /\ Len(orders') = Len(orders)
           /\ \A j \in 1..Len(orders) :
                 orders'[j] = IF j = Resting(s, l, i) THEN [orders[Resting(s, l, i)] EXCEPT !.size = orders[Resting(s, l, i)].size - Executed(s, l, i)]
                              ELSE orders[j]
           /\ nextOrder' \in Order
           /\ nextOrder' = [nextOrder EXCEPT !.size = nextOrder.size - Executed(s, l, i)]
           /\ localBook' \in [Sides -> Seq(PriceLevel')]
           /\ AddExecutionReport(price, Executed(s, l, i), Resting(s, l, i), nextOrder.id, decision)
<1> DEFINE id == Resting(s, l, i)
           q == Executed(s, l, i)
<1>0. id = localBook[s][l].ids[i] /\ q = Least(orders[id].size, nextOrder.size)
  BY DEF Resting, Executed
<1> HIDE DEF id, q
<1>1. /\ localBook[s] \in Seq(PriceLevel)
      /\ DOMAIN orders = 1..Len(orders) /\ Len(orders) \in Nat
  BY LenProperties DEF TypeOK
<1>2. localBook[s][l].ids \in Seq(1..Len(orders))
  <2>1. localBook[s][l] \in PriceLevel
    BY <1>1, ElementOfSeq
  <2> QED BY <1>1, <2>1 DEF PriceLevel
<1>3. id \in 1..Len(orders)
  BY <1>0, <1>2, ElementOfSeq
<1>4. orders[id] \in ClientOrder
  BY <1>3, ElementOfSeq DEF TypeOK
<1>5. orders[id].size \in Nat
  BY <1>4 DEF ClientOrder
<1>6. nextOrder \in Order /\ nextOrder.size \in Nat
  BY DEF TypeOK, Order
<1>7. /\ q \in Nat /\ q <= orders[id].size /\ q <= nextOrder.size
      /\ orders[id].size > 0 /\ nextOrder.size > 0 => q > 0
      /\ Left(orders[id].size, nextOrder.size) = orders[id].size - q
      /\ Left(nextOrder.size, orders[id].size) = nextOrder.size - q
      /\ orders[id].size - q \in Nat /\ nextOrder.size - q \in Nat
  <2> DEFINE a == orders[id].size
             b == nextOrder.size
  <2>1. a \in Nat /\ b \in Nat /\ q = Least(a, b)
    BY <1>0, <1>5, <1>6
  <2> HIDE DEF a, b
  <2>2. /\ q \in Nat /\ q <= a /\ q <= b /\ (a > 0 /\ b > 0 => q > 0)
        /\ Left(a, b) = a - q /\ Left(b, a) = b - q
        /\ a - q \in Nat /\ b - q \in Nat
    BY <2>1, ExecutionSize, SMTT(30)
  <2> QED BY <2>2 DEF a, b
<1>8. nextOrder' = [nextOrder EXCEPT !.size = nextOrder.size - q]
  BY <1>0, <1>7, Zenon DEF ExecuteLocalOrder, Levels
<1>9. nextOrder' \in Order
  BY <1>6, <1>7, <1>8 DEF Order
<1> DEFINE new == [orders[id] EXCEPT !.size = orders[id].size - q]
<1>10. new \in ClientOrder
  BY <1>4, <1>7, Zenon DEF ClientOrder
<1>11. orders' = [orders EXCEPT ![id] = new]
  BY <1>0, <1>7, Zenon DEF ExecuteLocalOrder, Levels
<1> HIDE DEF new
<1>12. /\ orders' \in Seq(ClientOrder) /\ Len(orders') = Len(orders)
       /\ \A j \in 1..Len(orders) : orders'[j] = IF j = id THEN new ELSE orders[j]
  <2>1. orders \in Seq(ClientOrder)
    BY DEF TypeOK
  <2> QED BY <2>1, <1>3, <1>10, <1>11, ExceptSeq
<1>13. DOMAIN orders' = DOMAIN orders
  BY <1>11
<1> DEFINE after == BookAfter(localBook[s], l, LevelAfter(localBook[s][l], i, q))
<1>14. after \in Seq(PriceLevel)
  BY <1>1, <1>7, BookAfterType, SMTT(60)
<1>15. localBook' = [localBook EXCEPT ![s] = after]
  BY <1>0 DEF ExecuteLocalOrder, Levels
<1> HIDE DEF after
<1>16. localBook' \in [Sides -> Seq(PriceLevel)]
  BY <1>14, <1>15 DEF TypeOK
<1>17. PriceLevel' = PriceLevel
  BY <1>13, ZenonT(60) DEF PriceLevel
<1>18. AddExecutionReport(price, q, id, nextOrder.id, decision)
  BY <1>0 DEF ExecuteLocalOrder, Levels
<1> QED BY <1>3, <1>7, <1>8, <1>9, <1>12, <1>16, <1>17, <1>18 DEF new, id, q

--------------------------------------------------------------------------------
(* AccountsInv is inductive: one lemma for each action that changes an order,  *)
(* a book or the ledger, one for the others.                                    *)

\* Nothing is submitted, resting or in hand at the start.
LEMMA InitAccounts == Init => AccountsInv
BY DEF Init, AccountsInv, TypeOK, LimitsPriced, NextOrderKnown, LedgerKnown, SharesAccounted,
       NoOrder, NewOrder, Order, Kinds, Sides, Phases

(***************************************************************************)
(* Moving the cursor, ending the loop, or ending the handler.              *)
(***************************************************************************)
LEMMA CursorAccounts ==
    ASSUME AccountsInv,
           NextPriceLevel \/ SkipOwnOrder \/ SkipHiddenLevel \/ StopMatching \/ TradeHitsBids
    PROVE  AccountsInv'
<1>1. UNCHANGED <<orders, localBook, globalBook, feed, nextOrder, prevGlobalOrder,
                  reports, updates, ledger, cancels, delivered>>
  BY DEF NextPriceLevel, SkipOwnOrder, SkipHiddenLevel, StopMatching, TradeHitsBids,
         book, cursor, output, counts
<1>2. TypeOK'
  <2>1. PriceLevel' = PriceLevel
    BY <1>1 DEF PriceLevel
  <2>2. level' \in Nat \ {0} /\ pos' \in Nat \ {0}
    <3>1. Len(localBook[against]) \in Nat
      BY DEF AccountsInv, TypeOK
    <3> QED BY SMTT(60), <3>1 DEF AccountsInv, TypeOK, NextPriceLevel, SkipOwnOrder, SkipHiddenLevel,
               StopMatching, TradeHitsBids, NextInLevel, Levels, cursor
  <2>3. phase' \in Phases /\ against' \in Sides
    BY DEF AccountsInv, TypeOK, NextPriceLevel, SkipOwnOrder, SkipHiddenLevel,
           StopMatching, TradeHitsBids, Phases, Sides, cursor
  <2> QED BY <1>1, <2>1, <2>2, <2>3 DEF AccountsInv, TypeOK
<1>3. LimitsPriced' /\ LedgerKnown'
  BY <1>1 DEF AccountsInv, LimitsPriced, LedgerKnown
<1>4. phase' = phase \/ (phase = "match" /\ phase' = "insert")
      \/ (phase = "match" /\ phase' = "send" /\ nextOrder.size = 0)
  BY DEF NextPriceLevel, SkipOwnOrder, SkipHiddenLevel, StopMatching, TradeHitsBids
<1>5. NextOrderKnown'
  BY <1>1, <1>4 DEF AccountsInv, NextOrderKnown, ClientOrder, FeedOrder
<1>6. ASSUME NEW id
      PROVE  InHand(id)' = InHand(id)
  BY <1>1, <1>4 DEF InHand
<1>7. SharesAccounted'
  BY <1>1, <1>6 DEF AccountsInv, SharesAccounted
<1> QED BY <1>2, <1>3, <1>5, <1>7 DEF AccountsInv

(***************************************************************************)
(* A new order: it has an entry of the ledger of its own, in which all its  *)
(* shares are in hand.                                                     *)
(***************************************************************************)
LEMMA ReceiveOrderAccounts ==
    ASSUME AccountsInv, NEW kind \in {"LIMIT", "MARKET"}, NEW s \in Sides, NEW t \in Traders,
           NEW p \in Nat, NEW q \in Sizes, kind = "LIMIT" => p \in Prices,
           kind = "MARKET" => p = 0,
           ReceiveOrder(kind, s, t, p, q)
    PROVE  AccountsInv'
<1> DEFINE n == Len(orders) + 1
           o == NewOrder(kind, s, t, n, p, q, Shift)
           e == [trader |-> t, submitted |-> q, filled |-> 0, cancelled |-> 0]
           rest == [o EXCEPT !.size = 0]
<1>1. /\ orders \in Seq(ClientOrder) /\ ledger \in Seq(LedgerEntry)
      /\ Len(orders) \in Nat /\ Len(ledger) = Len(orders) /\ n \in Nat
      /\ DOMAIN orders = 1..Len(orders)
  BY LenProperties DEF AccountsInv, TypeOK, LedgerKnown, LedgerEntry
<1>2. q \in Nat
  BY MarketAssumption
<1>3. o \in ClientOrder /\ rest \in ClientOrder /\ o \in Order
  BY <1>1, <1>2 DEF NewOrder, ClientOrder, Order, Kinds
<1>4. /\ o.kind = kind /\ o.price = p /\ o.trader = t /\ o.id = n /\ o.size = q
      /\ rest.kind = kind /\ rest.price = p /\ rest.trader = t /\ rest.size = 0
  BY DEF NewOrder
<1>5. e \in LedgerEntry
  BY DEF LedgerEntry
<1>6. /\ orders' = Append(orders, rest) /\ ledger' = Append(ledger, e)
      /\ nextOrder' = o /\ phase' = "match" /\ against' = Other(s) /\ level' = 1 /\ pos' = 1
      /\ UNCHANGED <<localBook, globalBook, feed, prevGlobalOrder, reports, updates,
                     cancels, delivered>>
  BY DEF ReceiveOrder, Begin, counts
<1> HIDE DEF o, e, rest
<1>7. /\ orders' \in Seq(ClientOrder) /\ Len(orders') = n /\ orders'[n] = rest
      /\ \A i \in 1..Len(orders) : orders'[i] = orders[i]
  BY <1>1, <1>3, <1>6, AppendProperties
<1>8. /\ ledger' \in Seq(LedgerEntry) /\ Len(ledger') = n /\ ledger'[n] = e
      /\ \A i \in 1..Len(orders) : ledger'[i] = ledger[i]
  BY <1>1, <1>5, <1>6, AppendProperties
<1>9. DOMAIN orders' = 1..n /\ DOMAIN orders \subseteq DOMAIN orders'
  BY <1>1, <1>7, LenProperties
<1>10. localBook' \in [Sides -> Seq(PriceLevel')]
  <2>1. Seq(DOMAIN orders) \subseteq Seq(DOMAIN orders')
    BY <1>9, SeqMonotonic
  <2>2. PriceLevel \subseteq PriceLevel'
    BY <2>1 DEF PriceLevel
  <2> HIDE DEF PriceLevel
  <2>3. Seq(PriceLevel) \subseteq Seq(PriceLevel')
    BY <2>2, SeqMonotonic
  <2>4. localBook \in [Sides -> Seq(PriceLevel)]
    BY DEF AccountsInv, TypeOK
  <2> QED BY <1>6, <2>3, <2>4
<1>11. TypeOK'
  <2>1. Other(s) \in Sides
    BY DEF Other, Sides
  <2> QED BY <1>3, <1>6, <1>7, <1>8, <1>10, <2>1
          DEF AccountsInv, TypeOK, LedgerEntry, Phases
<1>12. \A id \in 1..n : id = n \/ id \in 1..Len(orders)
  BY <1>1
<1>13. LimitsPriced'
  BY <1>1, <1>4, <1>7, <1>9, <1>12 DEF AccountsInv, LimitsPriced
<1>14. NextOrderKnown'
  BY <1>1, <1>3, <1>4, <1>6, <1>7, <1>9 DEF NextOrderKnown
<1>15. LedgerKnown'
  BY <1>1, <1>4, <1>7, <1>8, <1>9, <1>12 DEF AccountsInv, LedgerKnown, e
<1>16. SharesAccounted'
  <2> SUFFICES ASSUME NEW id \in 1..n
               PROVE  (ledger[id].submitted = ledger[id].filled + ledger[id].cancelled
                                                + orders[id].size + InHand(id))'
    BY <1>9 DEF SharesAccounted
  <2>1. CASE id = n
    <3>1. InHand(id)' = q
      BY <1>4, <1>6, <2>1 DEF InHand
    <3> QED BY <1>2, <1>4, <1>7, <1>8, <2>1, <3>1 DEF e
  <2>2. CASE id \in 1..Len(orders)
    <3>1. phase = "idle"
      BY DEF ReceiveOrder
    <3>2. InHand(id)' = 0 /\ InHand(id) = 0
      BY <1>1, <1>4, <1>6, <2>2, <3>1 DEF InHand
    <3> QED BY <1>1, <1>7, <1>8, <2>2, <3>2 DEF AccountsInv, SharesAccounted
  <2> QED BY <1>12, <2>1, <2>2
<1> QED BY <1>11, <1>13, <1>14, <1>15, <1>16 DEF AccountsInv

\* What comes from the feed is an order.
LEMMA FeedOrderIsOrder == FeedOrder \subseteq Order
<1>1. /\ {"TRTH_TRADE", "TRTH_QUOTE"} \subseteq Kinds /\ {Feed} \subseteq Traders \cup {Feed}
      /\ {0} \subseteq Nat /\ Prices \subseteq Nat /\ Dests \subseteq Dests \cup {Shift}
  BY MarketAssumption DEF Kinds
<1>2. ASSUME NEW o \in FeedOrder
      PROVE  o \in Order
  BY <1>1 DEF FeedOrder, Order
<1> QED BY <1>2

(***************************************************************************)
(* What touches neither an order, nor the books, nor the ledger, and        *)
(* happens when or leaves the market idle.                                 *)
(***************************************************************************)
LEMMA QueueAccounts ==
    ASSUME AccountsInv,
           \/ \E id \in DOMAIN orders, q \in Sizes : ReceiveCancel(id, q)
           \/ \E q \in Quotes : DeliverQuote(q)
           \/ \E t \in Trades : DeliverTrade(t)
           \/ ReceiveFeed
           \/ Send
    PROVE  AccountsInv'
<1>1. UNCHANGED <<orders, localBook, globalBook, ledger>>
  BY DEF ReceiveCancel, DeliverQuote, DeliverTrade, ReceiveFeed, Send, book, output
<1>2. PriceLevel' = PriceLevel
  BY <1>1 DEF PriceLevel
<1>3. feed' \in Seq(FeedOrder)
  <2>1. feed \in Seq(FeedOrder)
    BY DEF AccountsInv, TypeOK
  <2>2. ASSUME NEW q \in Quotes, DeliverQuote(q)
        PROVE  feed' \in Seq(FeedOrder)
    <3> DEFINE a == NewOrder("TRTH_QUOTE", "ask", Feed, 0, q.ask.price, q.ask.size, q.ask.dest)
               b == NewOrder("TRTH_QUOTE", "bid", Feed, 0, q.bid.price, q.bid.size, q.bid.dest)
    <3>1. a \in FeedOrder /\ b \in FeedOrder
      BY MarketAssumption DEF FeedEntry, FeedOrder, NewOrder, Sides
    <3>2. feed' = feed \o <<a, b>>
      BY <2>2 DEF DeliverQuote
    <3> HIDE DEF a, b
    <3>3. <<a, b>> \in Seq(FeedOrder)
      BY <3>1
    <3> QED BY <2>1, <3>2, <3>3, ConcatProperties
  <2>3. ASSUME NEW t \in Trades, DeliverTrade(t)
        PROVE  feed' \in Seq(FeedOrder)
    <3> DEFINE a == NewOrder("TRTH_TRADE", "bid", Feed, 0, t.price, t.size, t.dest)
    <3>1. a \in FeedOrder
      BY MarketAssumption DEF FeedEntry, FeedOrder, NewOrder, Sides
    <3>2. feed' = feed \o <<a>>
      BY <2>3 DEF DeliverTrade
    <3> HIDE DEF a
    <3>3. <<a>> \in Seq(FeedOrder)
      BY <3>1
    <3> QED BY <2>1, <3>2, <3>3, ConcatProperties
  <2>4. ReceiveFeed => feed' \in Seq(FeedOrder)
    BY <2>1, HeadTailProperties DEF ReceiveFeed
  <2> QED BY <2>1, <2>2, <2>3, <2>4 DEF ReceiveCancel, Send
<1>4. /\ nextOrder' \in Order /\ prevGlobalOrder' \in Order
      /\ phase' = "feed" => phase = "feed" \/ nextOrder' \in FeedOrder
      /\ phase' = "cancel" => phase = "cancel" \/ nextOrder'.id \in DOMAIN orders
      /\ phase' \in Phases
      /\ phase \in {"match", "insert", "cancel", "feed"} => phase' = phase /\ nextOrder' = nextOrder
      /\ phase' \in {"match", "insert"} => phase' = phase
      /\ against' \in Sides /\ level' \in Nat \ {0} /\ pos' \in Nat \ {0}
  <2>1. /\ nextOrder \in Order /\ prevGlobalOrder \in Order /\ phase \in Phases
        /\ against \in Sides /\ level \in Nat \ {0} /\ pos \in Nat \ {0}
    BY DEF AccountsInv, TypeOK
  <2>2. ASSUME NEW id \in DOMAIN orders, NEW q \in Sizes, ReceiveCancel(id, q)
        PROVE  <1>4
    <3>1. orders[id] \in ClientOrder /\ id \in Nat
      <4>1. orders \in Seq(ClientOrder) /\ DOMAIN orders = 1..Len(orders)
        BY LenProperties DEF AccountsInv, TypeOK
      <4> QED BY <4>1, ElementOfSeq
    <3>2. q \in Nat
      BY MarketAssumption
    <3> QED BY <2>1, <2>2, <3>1, <3>2
            DEF ReceiveCancel, Begin, NewOrder, Order, Kinds, ClientOrder, Phases, Sides
  <2>3. (\E q \in Quotes : DeliverQuote(q)) \/ (\E t \in Trades : DeliverTrade(t)) => <1>4
    BY <2>1 DEF DeliverQuote, DeliverTrade, cursor
  <2>4. ReceiveFeed => <1>4
    <3> SUFFICES ASSUME ReceiveFeed PROVE <1>4
      OBVIOUS
    <3>1. Head(feed) \in FeedOrder
      BY HeadTailProperties DEF ReceiveFeed, AccountsInv, TypeOK
    <3>2. Head(feed) \in Order /\ phase = "idle"
      BY <3>1, FeedOrderIsOrder DEF ReceiveFeed
    <3>3. \/ UNCHANGED <<nextOrder, phase, against, level, pos, prevGlobalOrder>>
          \/ /\ nextOrder' = Head(feed) /\ phase' = "feed" /\ level' = 1 /\ pos' = 1
             /\ against' \in {"ask", Other(Head(feed).side)}
             /\ prevGlobalOrder' \in {prevGlobalOrder, Head(feed)}
      BY DEF ReceiveFeed, Begin, cursor
    <3>4. {"ask", Other(Head(feed).side)} \subseteq Sides
      BY DEF Sides, Other
    <3> QED BY <2>1, <3>1, <3>2, <3>3, <3>4 DEF Phases
  <2>5. Send => <1>4
    BY <2>1 DEF Send, Begin, NoOrder, NewOrder, Order, Kinds, Phases, Sides
  <2> QED BY <2>2, <2>3, <2>4, <2>5
<1>5. reports' \in Seq(Report) /\ updates' \in Seq(BookUpdate)
  <2>1. reports' \in {reports, <<>>} /\ updates' \in {updates, <<>>}
    BY DEF ReceiveCancel, DeliverQuote, DeliverTrade, ReceiveFeed, Send, output
  <2>2. /\ reports \in Seq(Report) /\ updates \in Seq(BookUpdate)
        /\ <<>> \in Seq(Report) /\ <<>> \in Seq(BookUpdate)
    BY EmptySeq DEF AccountsInv, TypeOK
  <2> QED BY <2>1, <2>2
<1>6. cancels' \in Nat /\ delivered' \in Nat
  <2>1. cancels' \in {cancels, cancels + 1} /\ delivered' \in {delivered, delivered + 1}
    BY DEF ReceiveCancel, DeliverQuote, DeliverTrade, ReceiveFeed, Send, counts
  <2> QED BY <2>1 DEF AccountsInv, TypeOK
<1>7. TypeOK'
  BY <1>1, <1>2, <1>3, <1>4, <1>5, <1>6 DEF AccountsInv, TypeOK
<1>8. LimitsPriced' /\ LedgerKnown'
  BY <1>1 DEF AccountsInv, LimitsPriced, LedgerKnown
<1>9. NextOrderKnown'
  BY <1>1, <1>4 DEF AccountsInv, NextOrderKnown, ClientOrder, FeedOrder
<1>10. ASSUME NEW id
       PROVE  InHand(id)' = InHand(id)
  BY <1>4 DEF InHand
<1>11. SharesAccounted'
  BY <1>1, <1>10 DEF AccountsInv, SharesAccounted
<1> QED BY <1>7, <1>8, <1>9, <1>11 DEF AccountsInv

(***************************************************************************)
(* An execution with a resting order, or its cancellation, moves shares     *)
(* from the book, and from the order in hand, to the ledger.                *)
(***************************************************************************)
LEMMA LocalExecutionAccounts ==
    ASSUME AccountsInv, NEW s \in Sides, NEW l \in 1..Len(localBook[s]),
           NEW i \in 1..Len(localBook[s][l].ids), NEW price \in Nat,
           NEW decision \in {"2", "4"},
           ExecuteLocalOrder(s, l, i, price, decision),
           \/ phase = "match" /\ phase' = "match" /\ decision = "2"
                 /\ orders[Resting(s, l, i)].trader # nextOrder.trader
           \/ phase = "feed" /\ phase' = "feed" /\ decision = "2"
           \/ phase = "cancel" /\ phase' = "send" /\ decision = "4" /\ Resting(s, l, i) = nextOrder.id
    PROVE  /\ orders' \in Seq(ClientOrder) /\ localBook' \in [Sides -> Seq(PriceLevel')]
           /\ nextOrder' \in Order /\ reports' \in Seq(Report) /\ ledger' \in Seq(LedgerEntry)
           /\ LimitsPriced' /\ NextOrderKnown' /\ LedgerKnown' /\ SharesAccounted'
<1> DEFINE id == Resting(s, l, i)
           q == Executed(s, l, i)
           n == Len(orders)
<1>1. TypeOK
  BY DEF AccountsInv
<1>2. /\ id \in 1..n /\ q \in Nat /\ q <= orders[id].size /\ q <= nextOrder.size
      /\ orders' \in Seq(ClientOrder) /\ Len(orders') = n
      /\ \A j \in 1..n :
            orders'[j] = IF j = id THEN [orders[id] EXCEPT !.size = orders[id].size - q]
                         ELSE orders[j]
      /\ nextOrder' \in Order /\ nextOrder' = [nextOrder EXCEPT !.size = nextOrder.size - q]
      /\ localBook' \in [Sides -> Seq(PriceLevel')]
      /\ AddExecutionReport(price, q, id, nextOrder.id, decision)
  BY <1>1, LocalExecution
<1> HIDE DEF id, q
<1>0. \/ phase = "match" /\ phase' = "match" /\ decision = "2"
            /\ orders[id].trader # nextOrder.trader
      \/ phase = "feed" /\ phase' = "feed" /\ decision = "2"
      \/ phase = "cancel" /\ phase' = "send" /\ decision = "4" /\ id = nextOrder.id
  BY DEF id
<1>3. /\ orders \in Seq(ClientOrder) /\ n \in Nat /\ DOMAIN orders = 1..n /\ DOMAIN orders' = 1..n
      /\ nextOrder \in Order /\ nextOrder.id \in Nat /\ nextOrder.size \in Nat
      /\ reports \in Seq(Report) /\ ledger \in Seq(LedgerEntry) /\ Len(ledger) = n
  BY <1>1, <1>2, LenProperties DEF TypeOK, Order, AccountsInv, LedgerKnown, LedgerEntry
<1>4. /\ reports' \in Seq(Report) /\ ledger' \in Seq(LedgerEntry) /\ Len(ledger') = n
      /\ \A j \in 1..n :
            /\ ledger'[j].trader = ledger[j].trader
            /\ ledger'[j].submitted = ledger[j].submitted
            /\ Reduced(ledger'[j]) \in Nat /\ Reduced(ledger[j]) \in Nat
            /\ Reduced(ledger'[j]) = IF j \in {id, nextOrder.id} THEN Reduced(ledger[j]) + q
                                     ELSE Reduced(ledger[j])
  <2>1. id \in Nat /\ q \in Nat /\ nextOrder.id \in Nat /\ decision \in {"2", "4", "5"}
    BY <1>2, <1>3
  <2>2. AddExecutionReport(price, q, id, nextOrder.id, decision)
    BY <1>2
  <2>3. /\ reports \in Seq(Report) /\ ledger \in Seq(LedgerEntry) /\ Len(ledger) = n
    BY <1>3
  <2> HIDE DEF n, id, q
  <2>4. ReportEffect(q, id, nextOrder.id)
    BY <2>1, <2>2, <2>3, ReportStep
  <2> QED BY <2>3, <2>4 DEF ReportEffect
<1>5. /\ nextOrder' = [nextOrder EXCEPT !.size = nextOrder.size - q]
      /\ nextOrder.size - q \in Nat /\ nextOrder'.size = nextOrder.size - q
      /\ nextOrder'.id = nextOrder.id /\ nextOrder'.trader = nextOrder.trader
      /\ nextOrder'.kind = nextOrder.kind /\ nextOrder'.price = nextOrder.price
  BY <1>2, <1>3 DEF Order
<1>6. \A j \in 1..n : /\ orders[j] \in ClientOrder /\ orders[j].size \in Nat
                      /\ ledger[j] \in LedgerEntry
  <2>1. \A j \in 1..n : orders[j] \in ClientOrder
    BY <1>3, ElementOfSeq
  <2>2. \A j \in 1..n : ledger[j] \in LedgerEntry
    BY <1>3, ElementOfSeq
  <2> QED BY <2>1, <2>2 DEF ClientOrder
<1>7. \A j \in 1..n : /\ orders'[j].trader = orders[j].trader
                      /\ orders'[j].kind = orders[j].kind
                      /\ orders'[j].price = orders[j].price
                      /\ orders'[j].size = IF j = id THEN orders[j].size - q ELSE orders[j].size
  <2>1. \A j \in 1..n \ {id} : orders'[j] = orders[j]
    BY <1>2
  <2>2. orders'[id] = [orders[id] EXCEPT !.size = orders[id].size - q] /\ orders[id] \in ClientOrder
    BY <1>2, <1>6
  <2> QED BY <2>1, <2>2, SMTT(60) DEF ClientOrder
<1>9. LimitsPriced'
  BY <1>3, <1>7 DEF AccountsInv, LimitsPriced
<1>10. LedgerKnown'
  BY <1>2, <1>3, <1>4, <1>7 DEF AccountsInv, LedgerKnown
<1>11. phase = "match" => nextOrder.id \in 1..n /\ nextOrder.id # id
  BY <1>0, <1>3 DEF AccountsInv, NextOrderKnown
<1>12. phase = "feed" => nextOrder.id = 0
  BY DEF AccountsInv, NextOrderKnown, FeedOrder
<1>13. NextOrderKnown'
  <2>1. CASE phase = "match"
    <3>1. nextOrder' \in ClientOrder
      BY <1>5, <2>1 DEF AccountsInv, NextOrderKnown, ClientOrder
    <3> QED BY <1>3, <1>5, <1>7, <1>11, <2>1, <3>1 DEF AccountsInv, NextOrderKnown
  <2>2. CASE phase = "feed"
    <3>1. nextOrder' \in FeedOrder
      BY <1>5, <2>2 DEF AccountsInv, NextOrderKnown, FeedOrder
    <3> QED BY <2>2, <3>1 DEF NextOrderKnown
  <2>3. CASE phase = "cancel"
    BY <2>3 DEF NextOrderKnown
  <2> QED BY <2>1, <2>2, <2>3
<1>14. SharesAccounted'
  <2> SUFFICES ASSUME NEW j \in 1..n
               PROVE  (ledger[j].submitted = Reduced(ledger[j]) + orders[j].size + InHand(j))'
    BY <1>3 DEF SharesAccounted, Reduced
  <2>1. ledger[j].submitted = Reduced(ledger[j]) + orders[j].size + InHand(j)
    BY <1>3 DEF AccountsInv, SharesAccounted, Reduced
  <2>2. orders[j].size \in Nat /\ q \in Nat /\ nextOrder.size \in Nat
    BY <1>2, <1>3, <1>6
  <2>3. /\ ledger'[j].submitted = ledger[j].submitted
        /\ Reduced(ledger[j]) \in Nat
        /\ Reduced(ledger'[j]) = IF j \in {id, nextOrder.id} THEN Reduced(ledger[j]) + q
                                 ELSE Reduced(ledger[j])
        /\ orders'[j].size = IF j = id THEN orders[j].size - q ELSE orders[j].size
    BY <1>4, <1>7
  <2>4. CASE phase = "match"
    <3>1. /\ InHand(j) = IF nextOrder.id = j THEN nextOrder.size ELSE 0
          /\ InHand(j)' = IF nextOrder.id = j THEN nextOrder.size - q ELSE 0
      BY <1>0, <1>5, <2>4 DEF InHand
    <3>2. nextOrder.id # id
      BY <1>11, <2>4
    <3> QED BY <2>1, <2>2, <2>3, <3>1, <3>2, SMTT(60)
  <2>5. CASE phase \in {"feed", "cancel"}
    <3>1. InHand(j) = 0 /\ InHand(j)' = 0
      BY <1>0, <2>5 DEF InHand
    <3>2. j \in {id, nextOrder.id} <=> j = id
      BY <1>0, <1>2, <1>3, <1>12, <2>5
    <3> QED BY <2>1, <2>2, <2>3, <3>1, <3>2
  <2> QED BY <1>0, <2>4, <2>5
<1> QED BY <1>2, <1>4, <1>9, <1>10, <1>13, <1>14

(***************************************************************************)
(* The values of the book at a place of it.                                *)
(***************************************************************************)
LEMMA PlaceType ==
    ASSUME TypeOK, NEW s \in Sides, NEW l \in 1..Len(localBook[s]),
           NEW i \in 1..Len(localBook[s][l].ids)
    PROVE  /\ localBook[s][l].price \in Nat /\ localBook[s][l].size \in Int
           /\ Resting(s, l, i) \in 1..Len(orders)
           /\ orders[Resting(s, l, i)] \in ClientOrder
           /\ Executed(s, l, i) \in Nat
<1>1. localBook[s] \in Seq(PriceLevel) /\ orders \in Seq(ClientOrder)
  BY DEF TypeOK
<1>2. localBook[s][l] \in PriceLevel
  BY <1>1, ElementOfSeq
<1>3. DOMAIN orders = 1..Len(orders)
  BY <1>1, LenProperties
<1>4. localBook[s][l].ids \in Seq(1..Len(orders)) /\ localBook[s][l].size \in Int
  BY <1>2, <1>3 DEF PriceLevel
<1>5. localBook[s][l].price \in Nat
  <2>1. localBook[s][l].price \in Prices \cup {DblMin, DblMax}
    BY <1>2 DEF PriceLevel
  <2> QED BY <2>1, MarketAssumption
<1>6. Resting(s, l, i) \in 1..Len(orders)
  BY <1>4, ElementOfSeq DEF Resting
<1>7. orders[Resting(s, l, i)] \in ClientOrder
  BY <1>1, <1>6, ElementOfSeq
<1>8. Executed(s, l, i) \in Nat
  <2>1. orders[Resting(s, l, i)].size \in Nat /\ nextOrder.size \in Nat
    BY <1>7 DEF ClientOrder, TypeOK, Order
  <2> QED BY <2>1, ExecutionSize DEF Executed
<1> QED BY <1>4, <1>5, <1>6, <1>7, <1>8

(***************************************************************************)
(* An update of the local book, after an execution of q shares, has its     *)
(* type.                                                                   *)
(***************************************************************************)
LEMMA UpdateType ==
    ASSUME updates \in Seq(BookUpdate), NEW b \in {"LOC", "GLB"}, NEW s \in Sides,
           NEW p \in Nat, NEW q \in Int, NEW d \in Dests \cup {Shift}
    PROVE  Append(updates, Update(b, s, p, q, d)) \in Seq(BookUpdate)
<1>1. Update(b, s, p, q, d) \in BookUpdate
  BY DEF Update, BookUpdate
<1> QED BY <1>1, AppendProperties

\* The price of an execution of two orders is a number.
LEMMA LocalPriceType ==
    ASSUME TypeOK, NEW s \in Sides, NEW l \in 1..Len(localBook[s]), NEW o, o.price \in Nat,
           NEW limit \in Nat
    PROVE  LocalPrice(s, l, o, limit) \in Nat
<1>1. localBook[s] \in Seq(PriceLevel) /\ Len(localBook[s]) \in Nat
  BY LenProperties DEF TypeOK
<1>2. \A k \in 1..Len(localBook[s]) : localBook[s][k] \in PriceLevel
  BY <1>1, ElementOfSeq
<1>3. \A k \in 1..Len(localBook[s]) : localBook[s][k].price \in Prices \cup {DblMin, DblMax}
  BY <1>2 DEF PriceLevel
<1>4. l < Len(localBook[s]) => l + 1 \in 1..Len(localBook[s])
  BY <1>1
<1>5. l < Len(localBook[s]) => localBook[s][l + 1].price \in Nat
  BY <1>3, <1>4, MarketAssumption
<1> QED BY <1>5 DEF LocalPrice, HiddenPrice, Levels

(***************************************************************************)
(* An order that the loop has selected is in the book, and is another      *)
(* trader's.                                                               *)
(***************************************************************************)
LEMMA SelectedPlace ==
    ASSUME AccountsInv, Selected, ~AtEnd(against)
    PROVE  /\ against \in Sides
           /\ level \in 1..Len(localBook[against])
           /\ pos \in 1..Len(localBook[against][level].ids)
           /\ Candidate(against) = orders[Resting(against, level, pos)]
           /\ orders[Resting(against, level, pos)].trader # nextOrder.trader
<1>1. /\ against \in Sides /\ level \in Nat \ {0} /\ pos \in Nat \ {0}
      /\ localBook[against] \in Seq(PriceLevel)
  BY DEF AccountsInv, TypeOK
<1>2. Len(localBook[against]) \in Nat
  BY <1>1, LenProperties
<1>3. level \in 1..Len(localBook[against])
  BY <1>1, <1>2 DEF AtEnd, Levels
<1>4. localBook[against][level] \in PriceLevel
  BY <1>1, <1>3, ElementOfSeq
<1>5. Len(localBook[against][level].ids) \in Nat
  BY <1>4, LenProperties DEF PriceLevel
<1>6. ~LevelDone(against) /\ ~OwnOrder
  BY DEF Selected
<1>7. pos \in 1..Len(localBook[against][level].ids)
  BY <1>1, <1>5, <1>6 DEF LevelDone, Levels
<1> QED BY <1>1, <1>3, <1>6, <1>7 DEF OwnOrder, Candidate, Levels, Resting

(***************************************************************************)
(* The first quote of a global book that is not empty.                     *)
(***************************************************************************)
LEMMA FirstQuote ==
    ASSUME TypeOK, NEW s \in Sides, globalBook[s] # <<>>
    PROVE  globalBook[s] \in Seq(GlobalQuote) /\ 1 \in 1..Len(globalBook[s])
           /\ globalBook[s][1] \in GlobalQuote
<1>1. globalBook[s] \in Seq(GlobalQuote)
  BY DEF TypeOK
<1>2. 1 \in 1..Len(globalBook[s])
  BY <1>1, EmptySeq
<1> QED BY <1>1, <1>2, ElementOfSeq

(***************************************************************************)
(* The price that the local book offers is a price, or that of no offer: a  *)
(* market order is never selected at price 0.                              *)
(***************************************************************************)
LEMMA BestLocalBounds ==
    ASSUME AccountsInv, Selected
    PROVE  BestLocal \in Nat /\ DblMin <= BestLocal /\ BestLocal <= DblMax
<1>1. /\ \A p \in Prices \cup {DblMin, DblMax} : p \in Nat /\ DblMin <= p /\ p <= DblMax
      /\ against \in Sides /\ nextOrder.price \in Nat
  BY MarketAssumption, SMTT(60) DEF AccountsInv, TypeOK, Order
<1>2. CASE AtEnd(against)
  BY <1>1, <1>2 DEF BestLocal, NoPrice, TopPrice, Other, Sides
<1>3. CASE ~AtEnd(against)
  <2> DEFINE o == Candidate(against)
             n == Len(localBook[against])
  <2>1. /\ level \in 1..n /\ pos \in 1..Len(localBook[against][level].ids)
        /\ o = orders[Resting(against, level, pos)]
    BY <1>3, SelectedPlace
  <2>2. Resting(against, level, pos) \in 1..Len(orders) /\ o \in ClientOrder
    BY <1>1, <2>1, PlaceType DEF AccountsInv
  <2>3. DOMAIN orders = 1..Len(orders) /\ localBook[against] \in Seq(PriceLevel) /\ n \in Nat
    BY <1>1, LenProperties DEF AccountsInv, TypeOK
  <2>4. o.kind = "LIMIT" => o.price \in Prices
    BY <2>1, <2>2, <2>3 DEF AccountsInv, LimitsPriced
  <2>5. BestLocal = LocalPrice(against, level, o, nextOrder.price)
    BY <1>3 DEF BestLocal
  <2>6. o.kind \in {"LIMIT", "MARKET"} /\ nextOrder.kind \in {"LIMIT", "MARKET"}
        /\ (nextOrder.kind = "LIMIT" => nextOrder.price \in Prices)
    BY <2>2 DEF AccountsInv, NextOrderKnown, Selected, ClientOrder
  <2>7. o.kind = "MARKET" /\ nextOrder.kind = "MARKET" => level < n
    BY <1>3, <2>1, <2>3 DEF Selected, NoPriceForMarket, Levels
  <2> HIDE DEF o
  <2>8. ASSUME level < n
        PROVE  localBook[against][level + 1].price \in Prices \cup {DblMin, DblMax}
    <3>1. level + 1 \in 1..n
      BY <2>1, <2>3, <2>8
    <3>2. localBook[against][level + 1] \in PriceLevel
      BY <2>3, <3>1, ElementOfSeq
    <3> QED BY <3>2 DEF PriceLevel
  <2>9. CASE o.kind = "LIMIT"
    BY <1>1, <2>4, <2>5, <2>9 DEF LocalPrice
  <2>10. CASE o.kind = "MARKET"
    <3> DEFINE behind == localBook[against][level + 1].price
    <3>1. BestLocal = IF level < n /\ (nextOrder.price = 0 \/ Better(against, behind, nextOrder.price))
                      THEN behind ELSE nextOrder.price
      BY <2>5, <2>10 DEF LocalPrice, HiddenPrice, Levels
    <3>2. level < n => behind \in Nat /\ DblMin <= behind /\ behind <= DblMax
      BY <1>1, <2>8
    <3>3. nextOrder.price \in Prices \/ (level < n /\ nextOrder.kind = "MARKET")
      BY <2>6, <2>7, <2>10
    <3> HIDE DEF behind
    <3>4. nextOrder.kind = "MARKET" => nextOrder.price = 0
      BY DEF AccountsInv, NextOrderKnown, Selected
    <3> QED BY <1>1, <3>1, <3>2, <3>3, <3>4
  <2> QED BY <2>6, <2>9, <2>10
<1> QED BY <1>2, <1>3

(***************************************************************************)
(* The loop executes against a local order, or a quote, only if there is    *)
(* one.                                                                    *)
(***************************************************************************)
LEMMA MatchLocalPlace ==
    ASSUME AccountsInv, MatchLocal
    PROVE  ~AtEnd(against)
<1> SUFFICES ASSUME AtEnd(against) PROVE FALSE
  OBVIOUS
<1>1. BestLocal = NoPrice(against) /\ ~Better(against, BestGlobal, NoPrice(against))
      /\ BestGlobal # NoPrice(against)
  BY DEF MatchLocal, BestLocal, LocalFirst, NoMatch
<1>2. BestGlobal = globalBook[against][1].price /\ globalBook[against] # <<>>
  BY <1>1 DEF BestGlobal
<1>3. against \in Sides
  BY DEF AccountsInv, TypeOK
<1>4. BestGlobal \in Prices
  BY <1>2, <1>3, FirstQuote DEF AccountsInv, GlobalQuote
<1> QED BY <1>1, <1>3, <1>4, MarketAssumption DEF Sides, Better, NoPrice, TopPrice, Other

\* When a quote is to be taken there is one.
LEMMA MatchGlobalPlace ==
    ASSUME AccountsInv, MatchGlobal
    PROVE  against \in Sides /\ globalBook[against] # <<>>
<1>1. against \in Sides
  BY DEF AccountsInv, TypeOK
<1>2. BestLocal \in Nat /\ DblMin <= BestLocal /\ BestLocal <= DblMax
  BY BestLocalBounds DEF MatchGlobal
<1>3. Better(against, BestGlobal, BestLocal)
  BY DEF MatchGlobal, LocalFirst
<1>4. BestGlobal # NoPrice(against)
  <2> HIDE DEF BestLocal, BestGlobal
  <2> QED BY <1>1, <1>2, <1>3, MarketAssumption DEF Sides, Better, NoPrice, TopPrice, Other
<1> QED BY <1>1, <1>4 DEF BestGlobal

\* Two orders are executed against each other.
LEMMA MatchLocalAccounts == AccountsInv /\ MatchLocal => AccountsInv'
<1> SUFFICES ASSUME AccountsInv, MatchLocal PROVE AccountsInv'
  OBVIOUS
<1> DEFINE lv == localBook[against][level]
           left == LevelAfter(lv, pos, Executed(against, level, pos))
<1>1. TypeOK /\ phase = "match" /\ phase' = "match"
  BY DEF AccountsInv, MatchLocal, Selected
<1>2. /\ against \in Sides /\ level \in 1..Len(localBook[against])
      /\ pos \in 1..Len(lv.ids)
      /\ orders[Resting(against, level, pos)].trader # nextOrder.trader
  BY MatchLocalPlace, SelectedPlace DEF MatchLocal
<1>3. /\ lv.price \in Nat /\ lv.size \in Int
      /\ orders[Resting(against, level, pos)] \in ClientOrder
      /\ Executed(against, level, pos) \in Nat
  BY <1>1, <1>2, PlaceType
<1>4. /\ ExecuteLocalOrder(against, level, pos, BestLocal, "2")
      /\ pos' \in {1, pos}
      /\ updates' \in {updates, Append(updates, Update("LOC", against, lv.price, left.size, Shift))}
      /\ UNCHANGED <<globalBook, feed, prevGlobalOrder, against, level, cancels, delivered>>
  BY DEF MatchLocal, Candidate, Levels, Executed, Resting, counts
<1>5. BestLocal \in Nat
  <2>1. ~AtEnd(against) /\ Candidate(against) = orders[Resting(against, level, pos)]
    BY <1>1, <1>2 DEF AtEnd, Levels, Candidate, Resting
  <2>2. nextOrder.price \in Nat /\ Candidate(against).price \in Nat
    BY <1>1, <1>3, <2>1 DEF TypeOK, Order, ClientOrder
  <2> QED BY <1>1, <1>2, <2>1, <2>2, LocalPriceType DEF BestLocal
<1>6. /\ orders' \in Seq(ClientOrder) /\ localBook' \in [Sides -> Seq(PriceLevel')]
      /\ nextOrder' \in Order /\ reports' \in Seq(Report) /\ ledger' \in Seq(LedgerEntry)
      /\ LimitsPriced' /\ NextOrderKnown' /\ LedgerKnown' /\ SharesAccounted'
  BY <1>1, <1>2, <1>4, <1>5, LocalExecutionAccounts
<1>7. updates' \in Seq(BookUpdate)
  <2>1. left.size \in Int
    BY <1>3 DEF LevelAfter
  <2> HIDE DEF left
  <2>2. Append(updates, Update("LOC", against, lv.price, left.size, Shift)) \in Seq(BookUpdate)
    BY <1>1, <1>2, <1>3, <2>1, UpdateType DEF TypeOK
  <2> QED BY <1>1, <1>4, <2>2 DEF TypeOK
<1>8. TypeOK'
  BY <1>1, <1>2, <1>4, <1>6, <1>7, SMTT(60) DEF TypeOK, LedgerEntry
<1> QED BY <1>6, <1>8 DEF AccountsInv

(***************************************************************************)
(* A quote or a trade of the feed executes against the first local order.  *)
(***************************************************************************)
LEMMA MatchFeedPlace ==
    ASSUME AccountsInv, MatchFeed
    PROVE  /\ against \in Sides /\ 1 \in 1..Len(localBook[against])
           /\ 1 \in 1..Len(localBook[against][1].ids)
           /\ \E price \in Nat : ExecuteLocalOrder(against, 1, 1, price, "2")
<1> DEFINE lv == localBook[against][1]
           o == orders[Resting(against, 1, 1)]
           price == LocalPrice(against, 1, o, nextOrder.price)
<1>1. TypeOK /\ against \in Sides
  BY DEF AccountsInv, TypeOK
<1>2. localBook[against] \in Seq(PriceLevel) /\ localBook[against] # <<>>
  BY <1>1 DEF TypeOK, MatchFeed, FeedMatches, Levels
<1>3. 1 \in 1..Len(localBook[against])
  BY <1>2, EmptySeq
<1>4. lv \in PriceLevel
  BY <1>2, <1>3, ElementOfSeq
<1>5. lv.ids \in Seq(DOMAIN orders) /\ lv.ids # <<>>
  BY <1>4 DEF PriceLevel
<1>6. 1 \in 1..Len(lv.ids)
  BY <1>5, EmptySeq
<1>7. o \in ClientOrder
  BY <1>1, <1>3, <1>6, PlaceType
<1>8. price \in Nat
  <2>1. nextOrder.price \in Nat /\ o.price \in Nat
    BY <1>1, <1>7 DEF TypeOK, Order, ClientOrder
  <2> QED BY <1>1, <1>3, <2>1, LocalPriceType
<1>9. ExecuteLocalOrder(against, 1, 1, price, "2")
  BY DEF MatchFeed, Levels, Resting
<1> QED BY <1>1, <1>3, <1>6, <1>8, <1>9

\* A trade or a quote of the feed is executed against the front of the book.
LEMMA MatchFeedAccounts == AccountsInv /\ MatchFeed => AccountsInv'
<1> SUFFICES ASSUME AccountsInv, MatchFeed PROVE AccountsInv'
  OBVIOUS
<1> DEFINE lv == localBook[against][1]
           left == LevelAfter(lv, 1, Executed(against, 1, 1))
<1>1. TypeOK /\ phase = "feed" /\ phase' = "feed"
  BY DEF AccountsInv, MatchFeed
<1>2. /\ against \in Sides /\ 1 \in 1..Len(localBook[against]) /\ 1 \in 1..Len(lv.ids)
  BY MatchFeedPlace
<1>3. PICK price \in Nat : ExecuteLocalOrder(against, 1, 1, price, "2")
  BY MatchFeedPlace
<1>4. /\ lv.price \in Nat /\ lv.size \in Int /\ Executed(against, 1, 1) \in Nat
  BY <1>1, <1>2, PlaceType
<1>5. /\ updates' \in {updates, Append(updates, Update("LOC", against, lv.price, left.size, Shift))}
      /\ UNCHANGED <<globalBook, feed, prevGlobalOrder, against, level, pos, cancels, delivered>>
  BY DEF MatchFeed, Levels, Executed, Resting, cursor, counts
<1>6. /\ orders' \in Seq(ClientOrder) /\ localBook' \in [Sides -> Seq(PriceLevel')]
       /\ nextOrder' \in Order /\ reports' \in Seq(Report) /\ ledger' \in Seq(LedgerEntry)
       /\ LimitsPriced' /\ NextOrderKnown' /\ LedgerKnown' /\ SharesAccounted'
  BY <1>1, <1>2, <1>3, LocalExecutionAccounts
<1>7. updates' \in Seq(BookUpdate)
  <2>1. left.size \in Int
    BY <1>4 DEF LevelAfter
  <2> HIDE DEF left
  <2>2. Append(updates, Update("LOC", against, lv.price, left.size, Shift)) \in Seq(BookUpdate)
    BY <1>1, <1>2, <1>4, <2>1, UpdateType DEF TypeOK
  <2> QED BY <1>1, <1>5, <2>2 DEF TypeOK
<1>8. TypeOK'
  BY <1>1, <1>2, <1>5, <1>6, <1>7 DEF TypeOK, LedgerEntry
<1> QED BY <1>6, <1>8 DEF AccountsInv

(***************************************************************************)
(* The place of the order that a cancellation looks for.                   *)
(***************************************************************************)
LEMMA PlaceOfId ==
    ASSUME NEW S, NEW ids \in Seq(S), NEW x, PlaceOf(ids, x) # 0
    PROVE  PlaceOf(ids, x) \in 1..Len(ids) /\ ids[PlaceOf(ids, x)] = x
<1> DEFINE I == {i \in 1..Len(ids) : ids[i] = x}
<1>1. I # {} => Min(I) \in I
  <2> I \in SUBSET Nat
    OBVIOUS
  <2> HIDE DEF I
  <2> QED BY MinNat
<1> QED BY <1>1 DEF PlaceOf, SelectInSeq

(***************************************************************************)
(* A cancellation takes shares from the order it names, or does nothing.   *)
(***************************************************************************)
LEMMA CancelPlace ==
    ASSUME AccountsInv, DoLocalCancel
    PROVE  \/ UNCHANGED <<orders, localBook, nextOrder, reports, updates, ledger>>
           \/ \E l \in 1..Len(localBook[against]) : \E i \in 1..Len(localBook[against][l].ids) :
                 /\ ExecuteLocalOrder(against, l, i, 0, "4")
                 /\ Resting(against, l, i) = nextOrder.id
                 /\ updates' \in {updates,
                       Append(updates, Update("LOC", against, localBook[against][l].price,
                              localBook[against][l].size - Executed(against, l, i), Shift))}
<1> DEFINE l == CancelLevel(against, Levels(against), nextOrder.price)
           i == IF l = 0 THEN 0 ELSE PlaceOf(Levels(against)[l].ids, nextOrder.id)
<1>1. TypeOK /\ against \in Sides
  BY DEF AccountsInv, TypeOK
<1>2. localBook[against] \in Seq(PriceLevel) /\ Levels(against) = localBook[against]
  BY <1>1 DEF TypeOK, Levels
<1>3. l \in 0..Len(localBook[against])
  <2>1. NotBetterThan(against, localBook[against], nextOrder.price) \in 0..Len(localBook[against])
    BY <1>2, NotBetterThanType
  <2>2. Len(localBook[against]) \in Nat
    BY <1>2, LenProperties
  <2> QED BY <1>2, <2>1, <2>2 DEF CancelLevel, Least
<1> HIDE DEF l
<1>4. l # 0 => localBook[against][l] \in PriceLevel /\ l \in 1..Len(localBook[against])
  <2>1. l # 0 => l \in 1..Len(localBook[against])
    BY <1>3
  <2> QED BY <1>2, <2>1, ElementOfSeq
<1>5. l # 0 /\ i # 0 => /\ i \in 1..Len(localBook[against][l].ids)
                        /\ Resting(against, l, i) = nextOrder.id
  <2> SUFFICES ASSUME l # 0, i # 0
               PROVE  /\ i \in 1..Len(localBook[against][l].ids)
                      /\ Resting(against, l, i) = nextOrder.id
    OBVIOUS
  <2>1. localBook[against][l].ids \in Seq(DOMAIN orders)
    BY <1>4 DEF PriceLevel
  <2>2. i = PlaceOf(localBook[against][l].ids, nextOrder.id)
    BY <1>2
  <2>3. i \in 1..Len(localBook[against][l].ids) /\ localBook[against][l].ids[i] = nextOrder.id
    BY <2>1, <2>2, PlaceOfId
  <2> QED BY <2>3 DEF Resting
<1>6. i # 0 => l # 0
  BY SMTT(60)
<1>7. IF i = 0 THEN UNCHANGED <<orders, localBook, nextOrder, reports, updates, ledger>>
      ELSE /\ ExecuteLocalOrder(against, l, i, 0, "4")
           /\ updates' \in {updates,
                 Append(updates, Update("LOC", against, localBook[against][l].price,
                        localBook[against][l].size - Executed(against, l, i), Shift))}
  BY <1>2 DEF DoLocalCancel, output, l, Executed, Resting
<1> HIDE DEF i
<1> QED BY <1>4, <1>5, <1>6, <1>7

\* What is cancelled leaves the book and is counted as cancelled.
LEMMA DoLocalCancelAccounts == AccountsInv /\ DoLocalCancel => AccountsInv'
<1> SUFFICES ASSUME AccountsInv, DoLocalCancel PROVE AccountsInv'
  OBVIOUS
<1>1. /\ TypeOK /\ phase = "cancel" /\ phase' = "send" /\ against \in Sides
      /\ UNCHANGED <<globalBook, feed, prevGlobalOrder, against, level, pos, cancels, delivered>>
  BY DEF AccountsInv, TypeOK, DoLocalCancel, cursor, counts
<1>2. CASE UNCHANGED <<orders, localBook, nextOrder, reports, updates, ledger>>
  <2>2. PriceLevel' = PriceLevel
    BY <1>2 DEF PriceLevel
  <2>3. TypeOK'
    BY <1>1, <1>2, <2>2 DEF TypeOK, Phases
  <2>4. LimitsPriced' /\ LedgerKnown' /\ NextOrderKnown'
    BY <1>1, <1>2 DEF AccountsInv, LimitsPriced, LedgerKnown, NextOrderKnown
  <2>5. ASSUME NEW id PROVE InHand(id)' = InHand(id)
    BY <1>1 DEF InHand
  <2>6. SharesAccounted'
    BY <1>2, <2>5 DEF AccountsInv, SharesAccounted
  <2> QED BY <2>3, <2>4, <2>6 DEF AccountsInv
<1>3. ASSUME NEW l \in 1..Len(localBook[against]), NEW i \in 1..Len(localBook[against][l].ids),
             ExecuteLocalOrder(against, l, i, 0, "4"), Resting(against, l, i) = nextOrder.id,
             updates' \in {updates,
                Append(updates, Update("LOC", against, localBook[against][l].price,
                       localBook[against][l].size - Executed(against, l, i), Shift))}
      PROVE  AccountsInv'
  <2>2. /\ localBook[against][l].price \in Nat /\ localBook[against][l].size \in Int
        /\ Executed(against, l, i) \in Nat
    BY <1>1, PlaceType
  <2>4. /\ orders' \in Seq(ClientOrder) /\ localBook' \in [Sides -> Seq(PriceLevel')]
        /\ nextOrder' \in Order /\ reports' \in Seq(Report) /\ ledger' \in Seq(LedgerEntry)
        /\ LimitsPriced' /\ NextOrderKnown' /\ LedgerKnown' /\ SharesAccounted'
    BY <1>1, <1>3, LocalExecutionAccounts
  <2>5. updates' \in Seq(BookUpdate)
    <3> DEFINE d == localBook[against][l].size - Executed(against, l, i)
    <3>1. d \in Int
      BY <2>2
    <3> HIDE DEF d
    <3>2. Append(updates, Update("LOC", against, localBook[against][l].price, d, Shift))
            \in Seq(BookUpdate)
      BY <1>1, <2>2, <3>1, UpdateType DEF TypeOK
    <3> QED BY <1>1, <1>3, <3>2 DEF TypeOK, d
  <2>6. TypeOK'
    BY <1>1, <2>4, <2>5 DEF TypeOK, LedgerEntry, Phases
  <2> QED BY <2>4, <2>6 DEF AccountsInv
<1> QED BY <1>2, <1>3, CancelPlace

(***************************************************************************)
(* A trade of the feed is reported, and no order of a client takes part.   *)
(***************************************************************************)
LEMMA ReportTradeAccounts == AccountsInv /\ ReportTrade => AccountsInv'
<1> SUFFICES ASSUME AccountsInv, ReportTrade PROVE AccountsInv'
  OBVIOUS
<1> DEFINE n == Len(orders)
<1>1. /\ TypeOK /\ phase = "feed" /\ phase' = "send"
      /\ UNCHANGED <<orders, localBook, globalBook, feed, nextOrder, prevGlobalOrder,
                     against, level, pos, updates, cancels, delivered>>
  BY DEF AccountsInv, ReportTrade, book, cursor, counts
<1>2. /\ nextOrder.price \in Nat /\ nextOrder.size \in Nat
      /\ reports \in Seq(Report) /\ ledger \in Seq(LedgerEntry)
      /\ n \in Nat /\ DOMAIN orders = 1..n /\ Len(ledger) = n
  BY <1>1, LenProperties DEF TypeOK, Order, LedgerEntry, AccountsInv, LedgerKnown
<1>3. /\ reports' \in Seq(Report) /\ ledger' \in Seq(LedgerEntry)
      /\ Len(ledger') = n
      /\ \A i \in 1..n : /\ ledger'[i].trader = ledger[i].trader
                         /\ ledger'[i].submitted = ledger[i].submitted
                         /\ Reduced(ledger'[i]) = Reduced(ledger[i])
  <2>1. CASE nextOrder.size > 0
    <3>1. AddExecutionReport(nextOrder.price, nextOrder.size, 0, 0, "5")
      BY <2>1 DEF ReportTrade
    <3>2. ReportEffect(nextOrder.size, 0, 0)
      BY <1>2, <3>1, ReportStep
    <3> QED BY <1>2, <3>2 DEF ReportEffect
  <2>2. CASE nextOrder.size = 0
    BY <1>2, <2>2 DEF ReportTrade
  <2>3. nextOrder.size > 0 \/ nextOrder.size = 0
    BY <1>2
  <2> QED BY <2>1, <2>2, <2>3
<1>4. TypeOK'
  <2>1. PriceLevel' = PriceLevel
    BY <1>1 DEF PriceLevel
  <2> QED BY <1>1, <1>3, <2>1 DEF TypeOK, LedgerEntry, Phases
<1>5. LimitsPriced' /\ NextOrderKnown'
  BY <1>1 DEF AccountsInv, LimitsPriced, NextOrderKnown
<1>6. LedgerKnown'
  BY <1>1, <1>2, <1>3 DEF AccountsInv, LedgerKnown
<1>7. SharesAccounted'
  <2>1. ASSUME NEW id PROVE InHand(id)' = InHand(id)
    BY <1>1 DEF InHand
  <2> QED BY <1>1, <1>2, <1>3, <2>1 DEF AccountsInv, SharesAccounted, Reduced
<1> QED BY <1>4, <1>5, <1>6, <1>7 DEF AccountsInv

(***************************************************************************)
(* A quote that enters the global book leaves it a book of quotes.         *)
(***************************************************************************)
LEMMA WithQuoteType ==
    ASSUME NEW s, NEW quotes \in Seq(GlobalQuote), NEW o,
           [price |-> o.price, size |-> o.size, dest |-> o.dest] \in GlobalQuote
    PROVE  WithQuote(s, quotes, o) \in Seq(GlobalQuote)
<1> DEFINE new == [price |-> o.price, size |-> o.size, dest |-> o.dest]
           kept == FromPrice(s, quotes, o.price)
           same == SelectInSeq(kept, LAMBDA g : g.price = o.price /\ g.dest = o.dest)
           next == SelectInSeq(kept, LAMBDA g : Better(s, o.price, g.price))
           S == {i \in 1..Len(kept) : kept[i].price = o.price /\ kept[i].dest = o.dest}
           N == {i \in 1..Len(kept) : Better(s, o.price, kept[i].price)}
<1>1. kept \in Seq(GlobalQuote)
  <2> DEFINE first == NotBetterThan(s, quotes, o.price)
  <2>1. first \in 0..Len(quotes) /\ Len(quotes) \in Nat
    BY NotBetterThanType, LenProperties
  <2> HIDE DEF first
  <2>2. first # 0 => SubSeq(quotes, first, Len(quotes)) \in Seq(GlobalQuote)
    BY <2>1, SubSeqProperties
  <2>3. <<>> \in Seq(GlobalQuote)
    BY EmptySeq
  <2> QED BY <2>2, <2>3 DEF FromPrice, first
<1> HIDE DEF kept
<1>2. same = IF S = {} THEN 0 ELSE Min(S)
  BY DEF SelectInSeq
<1>3. next = IF N = {} THEN 0 ELSE Min(N)
  BY DEF SelectInSeq
<1>4. S \in SUBSET Nat /\ N \in SUBSET Nat
  OBVIOUS
<1>5. same # 0 => same \in 1..Len(kept)
  <2> HIDE DEF S, same
  <2>1. same # 0 => same \in S
    BY <1>2, <1>4, MinNat
  <2> QED BY <2>1 DEF S
<1>6. next # 0 => next \in 1..Len(kept)
  <2> HIDE DEF N, next
  <2>1. next # 0 => next \in N
    BY <1>3, <1>4, MinNat
  <2> QED BY <2>1 DEF N
<1>7. WithQuote(s, quotes, o) = IF same # 0 THEN ReplaceAt(kept, same, new)
                                ELSE IF next # 0 THEN InsertAt(kept, next, new)
                                ELSE Append(kept, new)
  BY DEF WithQuote, kept
<1> HIDE DEF new, same, next
<1>8. new \in GlobalQuote
  BY DEF new
<1>9. same # 0 => ReplaceAt(kept, same, new) \in Seq(GlobalQuote)
  BY <1>1, <1>5, <1>8, ExceptSeq DEF ReplaceAt
<1>10. next # 0 => InsertAt(kept, next, new) \in Seq(GlobalQuote)
  BY <1>1, <1>6, <1>8, InsertAtProperties
<1>11. Append(kept, new) \in Seq(GlobalQuote)
  BY <1>1, <1>8, AppendProperties
<1> QED BY <1>7, <1>9, <1>10, <1>11

\* A quote is put into its book and touches no order.
LEMMA UpdateGlobalAccounts == AccountsInv /\ UpdateGlobal => AccountsInv'
<1> SUFFICES ASSUME AccountsInv, UpdateGlobal PROVE AccountsInv'
  OBVIOUS
<1>1. /\ TypeOK /\ phase = "feed" /\ phase' = "send" /\ nextOrder \in FeedOrder
      /\ UNCHANGED <<orders, localBook, feed, nextOrder, prevGlobalOrder, against, level, pos,
                     reports, ledger, cancels, delivered>>
  BY DEF AccountsInv, NextOrderKnown, UpdateGlobal, cursor, counts
<1>2. /\ nextOrder.side \in Sides /\ nextOrder.price \in Prices /\ nextOrder.price \in Nat
      /\ nextOrder.size \in Nat /\ nextOrder.dest \in Dests
  BY <1>1, MarketAssumption DEF FeedOrder
<1>3. globalBook' \in [Sides -> Seq(GlobalQuote)]
  <2> DEFINE new == WithQuote(nextOrder.side, globalBook[nextOrder.side], nextOrder)
  <2>1. globalBook[nextOrder.side] \in Seq(GlobalQuote)
    BY <1>1, <1>2 DEF TypeOK
  <2>2. [price |-> nextOrder.price, size |-> nextOrder.size, dest |-> nextOrder.dest] \in GlobalQuote
    BY <1>2 DEF GlobalQuote
  <2>3. new \in Seq(GlobalQuote)
    BY <2>1, <2>2, WithQuoteType
  <2>4. globalBook' \in {globalBook, [globalBook EXCEPT ![nextOrder.side] = new]}
    BY DEF UpdateGlobal
  <2> HIDE DEF new
  <2> QED BY <1>1, <2>3, <2>4 DEF TypeOK
<1>4. updates' \in Seq(BookUpdate)
  <2>1. Append(updates, Update("GLB", nextOrder.side, nextOrder.price, nextOrder.size, nextOrder.dest))
          \in Seq(BookUpdate)
    BY <1>1, <1>2, UpdateType DEF TypeOK
  <2> QED BY <1>1, <2>1 DEF TypeOK, UpdateGlobal
<1>5. TypeOK'
  <2>1. PriceLevel' = PriceLevel
    BY <1>1 DEF PriceLevel
  <2> QED BY <1>1, <1>3, <1>4, <2>1 DEF TypeOK, Phases
<1>6. LimitsPriced' /\ NextOrderKnown' /\ LedgerKnown'
  BY <1>1 DEF AccountsInv, LimitsPriced, NextOrderKnown, LedgerKnown
<1>7. SharesAccounted'
  <2>1. ASSUME NEW id PROVE InHand(id)' = InHand(id)
    BY <1>1 DEF InHand
  <2> QED BY <1>1, <2>1 DEF AccountsInv, SharesAccounted
<1> QED BY <1>5, <1>6, <1>7 DEF AccountsInv

(***************************************************************************)
(* An execution with the best quote moves shares from the order in hand to  *)
(* the ledger.                                                             *)
(***************************************************************************)
LEMMA MatchGlobalAccounts == AccountsInv /\ MatchGlobal => AccountsInv'
<1> SUFFICES ASSUME AccountsInv, MatchGlobal PROVE AccountsInv'
  OBVIOUS
<1> DEFINE n == Len(orders)
           quote == globalBook[against][1]
           q == Least(quote.size, nextOrder.size)
           left == [quote EXCEPT !.size = Left(@, nextOrder.size)]
           quotes == IF left.size = 0 THEN Tail(globalBook[against])
                     ELSE ReplaceAt(globalBook[against], 1, left)
<1>1. /\ TypeOK /\ phase = "match" /\ phase' = "match" /\ nextOrder \in ClientOrder
      /\ UNCHANGED <<orders, localBook, feed, prevGlobalOrder, against, level, pos,
                     cancels, delivered>>
  BY DEF AccountsInv, NextOrderKnown, MatchGlobal, Selected, cursor, counts
<1>2. /\ against \in Sides /\ globalBook[against] # <<>>
      /\ globalBook[against] \in Seq(GlobalQuote) /\ 1 \in 1..Len(globalBook[against])
      /\ quote \in GlobalQuote
  BY <1>1, MatchGlobalPlace, FirstQuote
<1>3. /\ quote.price \in Nat /\ quote.size \in Nat /\ quote.dest \in Dests
      /\ nextOrder.size \in Nat
  BY <1>1, <1>2, MarketAssumption DEF GlobalQuote, ClientOrder
<1>4. /\ q \in Nat /\ q <= nextOrder.size /\ nextOrder.size - q \in Nat
      /\ Left(nextOrder.size, quote.size) = nextOrder.size - q
      /\ Left(quote.size, nextOrder.size) \in Nat
  <2> DEFINE a == quote.size
             b == nextOrder.size
  <2>1. a \in Nat /\ b \in Nat
    BY <1>3
  <2> HIDE DEF a, b
  <2>2. /\ Least(a, b) \in Nat /\ Least(a, b) <= b /\ b - Least(a, b) \in Nat
        /\ Left(b, a) = b - Least(a, b) /\ Left(a, b) \in Nat
    BY <2>1, ExecutionSize
  <2> QED BY <2>2 DEF a, b
<1>5. left \in GlobalQuote
  BY <1>2, <1>4 DEF GlobalQuote
<1>6. quotes \in Seq(GlobalQuote)
  <2>1. Tail(globalBook[against]) \in Seq(GlobalQuote)
    BY <1>2, HeadTailProperties
  <2> HIDE DEF left
  <2>2. ReplaceAt(globalBook[against], 1, left) \in Seq(GlobalQuote)
    BY <1>2, <1>5, ExceptSeq DEF ReplaceAt
  <2> QED BY <2>1, <2>2
<1>7. /\ AddExecutionReport(quote.price, q, 0, nextOrder.id, "2")
      /\ nextOrder' = [nextOrder EXCEPT !.size = nextOrder.size - q]
      /\ globalBook' = [globalBook EXCEPT ![against] = quotes]
      /\ updates' = Append(updates, Update("GLB", against, quote.price, left.size, quote.dest))
  BY <1>2, <1>4 DEF MatchGlobal, ExecuteGlobalOrder, BestGlobal
<1>8. left.size \in Nat
  BY <1>5 DEF GlobalQuote
<1> HIDE DEF quote, q, left, quotes
<1>9. /\ nextOrder' \in ClientOrder /\ nextOrder' \in Order
      /\ nextOrder'.size = nextOrder.size - q
      /\ nextOrder'.id = nextOrder.id /\ nextOrder'.trader = nextOrder.trader
      /\ nextOrder'.kind = nextOrder.kind /\ nextOrder'.price = nextOrder.price
  BY <1>1, <1>4, <1>7 DEF ClientOrder, Order, TypeOK
<1>10. /\ n \in Nat /\ DOMAIN orders = 1..n /\ nextOrder.id \in 1..n
       /\ reports \in Seq(Report) /\ ledger \in Seq(LedgerEntry) /\ Len(ledger) = n
       /\ \A i \in 1..n : orders[i].size \in Nat
  <2>1. orders \in Seq(ClientOrder) /\ DOMAIN orders = 1..n /\ n \in Nat
    BY <1>1, LenProperties DEF TypeOK
  <2>2. \A i \in 1..n : orders[i] \in ClientOrder
    BY <2>1, ElementOfSeq
  <2> QED BY <1>1, <2>1, <2>2
          DEF TypeOK, LedgerEntry, AccountsInv, NextOrderKnown, LedgerKnown, ClientOrder
<1>11. /\ reports' \in Seq(Report) /\ ledger' \in Seq(LedgerEntry) /\ Len(ledger') = Len(ledger)
       /\ \A i \in 1..Len(ledger) :
             /\ ledger'[i].trader = ledger[i].trader
             /\ ledger'[i].submitted = ledger[i].submitted
             /\ Reduced(ledger'[i]) \in Nat /\ Reduced(ledger[i]) \in Nat
             /\ Reduced(ledger'[i]) = IF i \in {0, nextOrder.id} THEN Reduced(ledger[i]) + q
                                      ELSE Reduced(ledger[i])
  <2>1. nextOrder.id \in Nat /\ 0 \in Nat
    BY <1>10
  <2>2. reports \in Seq(Report) /\ ledger \in Seq(LedgerEntry)
    BY <1>10
  <2>3. quote.price \in Nat /\ q \in Nat /\ "2" \in {"2", "4", "5"}
    BY <1>3, <1>4
  <2>4. AddExecutionReport(quote.price, q, 0, nextOrder.id, "2")
    BY <1>7
  <2>5. ReportEffect(q, 0, nextOrder.id)
    BY <2>1, <2>2, <2>3, <2>4, ReportStep
  <2> QED BY <2>5 DEF ReportEffect
<1>12. TypeOK'
  <2>1. PriceLevel' = PriceLevel
    BY <1>1 DEF PriceLevel
  <2>2. updates' \in Seq(BookUpdate)
    BY <1>1, <1>2, <1>3, <1>7, <1>8, UpdateType, SMTT(60) DEF TypeOK
  <2>3. globalBook' \in [Sides -> Seq(GlobalQuote)]
    BY <1>1, <1>6, <1>7 DEF TypeOK
  <2> QED BY <1>1, <1>9, <1>11, <2>1, <2>2, <2>3 DEF TypeOK, LedgerEntry, Phases
<1>13. LimitsPriced' /\ NextOrderKnown'
  BY <1>1, <1>9 DEF AccountsInv, LimitsPriced, NextOrderKnown
<1>14. LedgerKnown'
  BY <1>1, <1>10, <1>11 DEF AccountsInv, LedgerKnown
<1>15. SharesAccounted'
  <2> SUFFICES ASSUME NEW j \in 1..n
               PROVE  (ledger[j].submitted = Reduced(ledger[j]) + orders[j].size + InHand(j))'
    BY <1>1, <1>10 DEF SharesAccounted, Reduced
  <2>1. ledger[j].submitted = Reduced(ledger[j]) + orders[j].size + InHand(j)
    BY <1>10 DEF AccountsInv, SharesAccounted, Reduced
  <2>2. /\ InHand(j) = IF nextOrder.id = j THEN nextOrder.size ELSE 0
        /\ InHand(j)' = IF nextOrder.id = j THEN nextOrder.size - q ELSE 0
    BY <1>1, <1>9 DEF InHand
  <2>3. /\ ledger'[j].submitted = ledger[j].submitted /\ Reduced(ledger[j]) \in Nat
        /\ Reduced(ledger'[j]) = IF j = nextOrder.id THEN Reduced(ledger[j]) + q
                                 ELSE Reduced(ledger[j])
    BY <1>10, <1>11
  <2>4. orders'[j].size = orders[j].size /\ orders[j].size \in Nat
    BY <1>1, <1>10
  <2> QED BY <1>3, <1>4, <2>1, <2>2, <2>3, <2>4, SMTT(60)
<1> QED BY <1>12, <1>13, <1>14, <1>15 DEF AccountsInv

(***************************************************************************)
(* The book in which an order has been queued is a book, and has a level    *)
(* at the price of the order.                                              *)
(***************************************************************************)
LEMMA InsertedType ==
    ASSUME NEW s, NEW levels \in Seq(PriceLevel), NEW id \in DOMAIN orders,
           NEW p \in Prices \cup {DblMin, DblMax}, NEW q \in Nat
    PROVE  /\ Inserted(s, levels, id, p, q) \in Seq(PriceLevel)
           /\ LevelSize(Inserted(s, levels, id, p, q), p) \in Int
<1> DEFINE i == NotBetterThan(s, levels, p)
           mine == [price |-> p, size |-> q, ids |-> <<id>>]
           more == [levels[i] EXCEPT !.size = @ + q, !.ids = Queued(@, id)]
           new == Inserted(s, levels, id, p, q)
<1>1. i \in 0..Len(levels) /\ Len(levels) \in Nat
  BY NotBetterThanType, LenProperties
<1> HIDE DEF i
<1>2. mine \in PriceLevel /\ mine.price = p
  <2>1. <<id>> \in Seq(DOMAIN orders) /\ <<id>> # <<>> /\ q \in Int
    OBVIOUS
  <2> QED BY <2>1 DEF PriceLevel
<1>3. ASSUME i # 0, levels[i].price = p
      PROVE  more \in PriceLevel /\ more.price = p
  <2>1. i \in 1..Len(levels)
    BY <1>1, <1>3
  <2>2. levels[i] \in PriceLevel
    BY <2>1, ElementOfSeq
  <2>3. levels[i].ids \in Seq(DOMAIN orders) /\ levels[i].size \in Int
    BY <2>2 DEF PriceLevel
  <2>4. Queued(levels[i].ids, id) \in Seq(DOMAIN orders) /\ Queued(levels[i].ids, id) # <<>>
    BY <2>3, AppendProperties DEF Queued
  <2>5. levels[i].size + q \in Int
    BY <2>3
  <2> QED BY <1>3, <2>2, <2>4, <2>5 DEF PriceLevel
<1>4. new = IF i = 0 THEN Append(levels, mine)
            ELSE IF levels[i].price = p THEN ReplaceAt(levels, i, more)
            ELSE InsertAt(levels, i, mine)
  BY DEF Inserted, i
<1> HIDE DEF mine, more, new
<1>5. new \in Seq(PriceLevel) /\ \E k \in 1..Len(new) : new[k].price = p
  <2>1. CASE i = 0
    <3>1. new = Append(levels, mine)
      BY <1>4, <2>1
    <3>2. new \in Seq(PriceLevel) /\ Len(new) = Len(levels) + 1 /\ new[Len(levels) + 1] = mine
      BY <1>2, <3>1, AppendProperties
    <3>3. Len(levels) + 1 \in 1..Len(new)
      BY <1>1, <3>2
    <3> QED BY <1>2, <3>2, <3>3
  <2>2. CASE i # 0 /\ levels[i].price = p
    <3>1. i \in 1..Len(levels) /\ new = [levels EXCEPT ![i] = more]
      BY <1>1, <1>4, <2>2 DEF ReplaceAt
    <3>2. new \in Seq(PriceLevel) /\ Len(new) = Len(levels) /\ new[i] = more
      BY <1>3, <2>2, <3>1, ExceptSeq
    <3> QED BY <1>3, <2>2, <3>1, <3>2
  <2>3. CASE i # 0 /\ levels[i].price # p
    <3>1. i \in 1..Len(levels) /\ new = InsertAt(levels, i, mine)
      BY <1>1, <1>4, <2>3
    <3>2. new \in Seq(PriceLevel) /\ Len(new) = Len(levels) + 1
          /\ \A j \in 1..Len(levels) + 1 : new[j] = IF j < i THEN levels[j]
                                                    ELSE IF j = i THEN mine ELSE levels[j - 1]
      BY <1>2, <3>1, InsertAtProperties
    <3>3. i \in 1..Len(new) /\ new[i] = mine
      BY <1>1, <3>1, <3>2
    <3> QED BY <1>2, <3>2, <3>3
  <2> QED BY <2>1, <2>2, <2>3
<1> DEFINE K == {k \in 1..Len(new) : new[k].price = p}
<1>6. Min(K) \in K
  <2> K \in SUBSET Nat /\ K # {}
    BY <1>5
  <2> HIDE DEF K
  <2> QED BY MinNat
<1>7. LevelSize(new, p) = new[Min(K)].size
  BY <1>6 DEF LevelSize, SelectInSeq
<1>8. new[Min(K)] \in PriceLevel
  <2> HIDE DEF K
  <2>1. Min(K) \in 1..Len(new)
    BY <1>6 DEF K
  <2> QED BY <1>5, <2>1, ElementOfSeq
<1>9. LevelSize(new, p) \in Int
  BY <1>7, <1>8 DEF PriceLevel
<1> QED BY <1>5, <1>9 DEF new

(***************************************************************************)
(* What is left of the order in hand comes to rest in the book.            *)
(***************************************************************************)
LEMMA InsertLocalAccounts == AccountsInv /\ InsertLocal => AccountsInv'
<1> SUFFICES ASSUME AccountsInv, InsertLocal PROVE AccountsInv'
  OBVIOUS
<1> DEFINE n == Len(orders)
           s == nextOrder.side
           id == nextOrder.id
           q == nextOrder.size
           p == IF nextOrder.kind = "MARKET" THEN TopPrice(s) ELSE nextOrder.price
           new == Inserted(s, localBook[s], id, p, q)
           rests == [orders[id] EXCEPT !.price = p, !.size = q]
<1>1. /\ TypeOK /\ phase = "insert" /\ phase' = "send" /\ nextOrder \in ClientOrder
      /\ UNCHANGED <<globalBook, feed, nextOrder, prevGlobalOrder, against, level, pos,
                     reports, ledger, cancels, delivered>>
  BY DEF AccountsInv, NextOrderKnown, InsertLocal, cursor, counts
<1>2. /\ n \in Nat /\ DOMAIN orders = 1..n /\ orders \in Seq(ClientOrder)
      /\ id \in 1..n /\ orders[id].kind = nextOrder.kind /\ orders[id].size = 0
  BY <1>1, LenProperties DEF TypeOK, AccountsInv, NextOrderKnown
<1>3. \A i \in 1..n : orders[i] \in ClientOrder
  BY <1>2, ElementOfSeq
<1>4. s \in Sides /\ q \in Nat
  BY <1>1 DEF ClientOrder
<1>5. /\ p \in Prices \cup {DblMin, DblMax} /\ p \in Nat
      /\ nextOrder.kind = "LIMIT" => p \in Prices
  <2>1. TopPrice(s) \in {DblMin, DblMax}
    BY DEF TopPrice
  <2>2. nextOrder.kind \in {"LIMIT", "MARKET"} /\ (nextOrder.kind = "LIMIT" => nextOrder.price \in Prices)
    BY <1>1 DEF AccountsInv, NextOrderKnown, ClientOrder
  <2> QED BY <2>1, <2>2, MarketAssumption
<1>6. /\ orders' = [orders EXCEPT ![id] = rests]
      /\ localBook' = [localBook EXCEPT ![s] = new]
      /\ updates' \in {updates,
            Append(updates, Update("LOC", s, p, LevelSize(localBook'[s], p), Shift))}
  BY DEF InsertLocal
<1>7. /\ rests \in ClientOrder /\ rests.kind = orders[id].kind /\ rests.trader = orders[id].trader
      /\ rests.price = p /\ rests.size = q
  <2>1. orders[id] \in ClientOrder
    BY <1>2, <1>3
  <2>2. p \in Nat /\ q \in Nat
    BY <1>4, <1>5
  <2> HIDE DEF p, q, id
  <2> QED BY <2>1, <2>2 DEF ClientOrder
<1>8. new \in Seq(PriceLevel) /\ LevelSize(new, p) \in Int
  <2>1. localBook[s] \in Seq(PriceLevel) /\ id \in DOMAIN orders
    BY <1>1, <1>2, <1>4 DEF TypeOK
  <2> QED BY <1>4, <1>5, <2>1, InsertedType
<1> HIDE DEF p, new, rests
<1>9. /\ orders' \in Seq(ClientOrder) /\ Len(orders') = n /\ DOMAIN orders' = 1..n
      /\ \A i \in 1..n : orders'[i] = IF i = id THEN rests ELSE orders[i]
  BY <1>2, <1>6, <1>7, ExceptSeq, LenProperties
<1>10. localBook' \in [Sides -> Seq(PriceLevel)] /\ localBook'[s] = new
  BY <1>1, <1>4, <1>6, <1>8 DEF TypeOK
<1>11. updates' \in Seq(BookUpdate)
  <2>1. LevelSize(localBook'[s], p) \in Int
    BY <1>8, <1>10
  <2>2. Append(updates, Update("LOC", s, p, LevelSize(localBook'[s], p), Shift)) \in Seq(BookUpdate)
    BY <1>1, <1>4, <1>5, <2>1, UpdateType DEF TypeOK
  <2> QED BY <1>1, <1>6, <2>2 DEF TypeOK
<1>12. TypeOK'
  <2>1. PriceLevel' = PriceLevel
    BY <1>2, <1>9 DEF PriceLevel
  <2> QED BY <1>1, <1>9, <1>10, <1>11, <2>1 DEF TypeOK, Phases
<1>13. \A i \in 1..n : /\ orders'[i].kind = orders[i].kind /\ orders'[i].trader = orders[i].trader
                       /\ orders'[i].price = IF i = id THEN p ELSE orders[i].price
                       /\ orders'[i].size = IF i = id THEN q ELSE orders[i].size
  BY <1>7, <1>9
<1>14. LimitsPriced'
  BY <1>2, <1>5, <1>9, <1>13 DEF AccountsInv, LimitsPriced
<1>15. NextOrderKnown'
  BY <1>1 DEF NextOrderKnown
<1>16. LedgerKnown'
  BY <1>1, <1>2, <1>9, <1>13 DEF AccountsInv, LedgerKnown
<1>17. SharesAccounted'
  <2> SUFFICES ASSUME NEW j \in 1..n
               PROVE  (ledger[j].submitted = ledger[j].filled + ledger[j].cancelled
                                               + orders[j].size + InHand(j))'
    BY <1>9 DEF SharesAccounted
  <2>1. ledger[j].submitted = ledger[j].filled + ledger[j].cancelled + orders[j].size + InHand(j)
    BY <1>2 DEF AccountsInv, SharesAccounted
  <2>2. InHand(j) = (IF id = j THEN q ELSE 0) /\ InHand(j)' = 0
    BY <1>1 DEF InHand
  <2>3. ledger[j].filled \in Nat /\ ledger[j].cancelled \in Nat /\ orders[j].size \in Nat
    <3>1. ledger \in Seq(LedgerEntry) /\ Len(ledger) = n
      BY <1>1, <1>2 DEF TypeOK, LedgerEntry, AccountsInv, LedgerKnown
    <3>2. ledger[j] \in LedgerEntry /\ orders[j] \in ClientOrder
      BY <1>3, <3>1, ElementOfSeq
    <3> QED BY <3>2 DEF LedgerEntry, ClientOrder
  <2>4. ledger'[j] = ledger[j] /\ orders'[j].size = IF j = id THEN q ELSE orders[j].size
    BY <1>1, <1>13
  <2>5. CASE j = id
    <3>1. orders[j].size = 0 /\ InHand(j) = q /\ orders'[j].size = q /\ q \in Nat
      BY <1>2, <1>4, <2>2, <2>4, <2>5
    <3> HIDE DEF q
    <3> QED BY <2>1, <2>2, <2>3, <2>4, <3>1
  <2>6. CASE j # id
    BY <2>1, <2>2, <2>3, <2>4, <2>6
  <2> QED BY <2>5, <2>6
<1> QED BY <1>12, <1>14, <1>15, <1>16, <1>17 DEF AccountsInv

--------------------------------------------------------------------------------
(***************************************************************************)
(* No share is lost or made up, whatever the traders submit and the feed   *)
(* delivers: ContinuousStockMarket takes from an order what it reports.     *)
(***************************************************************************)
THEOREM Accounts == Spec => []AccountsInv
<1>1. AccountsInv /\ [Next]_vars => AccountsInv'
  <2> SUFFICES ASSUME AccountsInv, [Next]_vars PROVE AccountsInv'
    OBVIOUS
  <2>1. ASSUME NEW s \in Sides, NEW t \in Traders, NEW p \in Prices, NEW q \in Sizes,
               ReceiveOrder("LIMIT", s, t, p, q)
        PROVE  AccountsInv'
    BY <2>1, ReceiveOrderAccounts, MarketAssumption
  <2>2. ASSUME NEW s \in Sides, NEW t \in Traders, NEW q \in Sizes,
               ReceiveOrder("MARKET", s, t, 0, q)
        PROVE  AccountsInv'
    BY <2>2, ReceiveOrderAccounts
  <2>3. CASE (\E id \in DOMAIN orders, q \in Sizes : ReceiveCancel(id, q)) \/ ReceiveFeed \/ Send
             \/ (\E q \in Quotes : DeliverQuote(q)) \/ (\E t \in Trades : DeliverTrade(t))
    BY <2>3, QueueAccounts
  <2>4. CASE NextPriceLevel \/ SkipOwnOrder \/ SkipHiddenLevel \/ StopMatching \/ TradeHitsBids
    BY <2>4, CursorAccounts
  <2>5. CASE MatchLocal
    BY <2>5, MatchLocalAccounts
  <2>6. CASE MatchGlobal
    BY <2>6, MatchGlobalAccounts
  <2>7. CASE InsertLocal
    BY <2>7, InsertLocalAccounts
  <2>8. CASE DoLocalCancel
    BY <2>8, DoLocalCancelAccounts
  <2>9. CASE MatchFeed
    BY <2>9, MatchFeedAccounts
  <2>10. CASE ReportTrade
    BY <2>10, ReportTradeAccounts
  <2>11. CASE UpdateGlobal
    BY <2>11, UpdateGlobalAccounts
  <2>12. CASE UNCHANGED vars
    <3>1. PriceLevel' = PriceLevel
      BY <2>12 DEF PriceLevel, vars
    <3>2. ASSUME NEW id PROVE InHand(id)' = InHand(id)
      BY <2>12 DEF InHand, vars
    <3> QED BY <2>12, <3>1, <3>2
            DEF vars, AccountsInv, TypeOK, LimitsPriced, NextOrderKnown, LedgerKnown, SharesAccounted
  <2> QED BY <2>1, <2>2, <2>3, <2>4, <2>5, <2>6, <2>7, <2>8, <2>9, <2>10, <2>11, <2>12
          DEF Next, Handle
<1> QED BY <1>1, InitAccounts, PTL DEF Spec

(***************************************************************************)
(* In particular every variable keeps its type: no execution takes more    *)
(* from an order or a quote than there is, and no level of the book is ever *)
(* left without orders.                                                     *)
(***************************************************************************)
COROLLARY Types == Spec => []TypeOK
<1>1. AccountsInv => TypeOK
  BY DEF AccountsInv
<1> QED BY <1>1, Accounts, PTL

(***************************************************************************)
(* And what was submitted of an order is what was reported of it, what      *)
(* rests of it in the book and what is being matched.                      *)
(***************************************************************************)
COROLLARY Shares == Spec => []SharesAccounted
<1>1. AccountsInv => SharesAccounted
  BY DEF AccountsInv
<1> QED BY <1>1, Accounts, PTL

--------------------------------------------------------------------------------
(* The market implements OrderLedger: a step of it is a step of the ledger, or *)
(* leaves the ledger as it is.                                                  *)

(***************************************************************************)
(* What a report does to the ledger, by the orders that it names.          *)
(***************************************************************************)
LEMMA ReportedLedger ==
    ASSUME ledger \in Seq(LedgerEntry), NEW price, NEW q \in Nat, NEW i \in Nat, NEW j \in Nat,
           NEW decision, AddExecutionReport(price, q, i, j, decision)
    PROVE  /\ q = 0 \/ (i = 0 /\ j = 0) => ledger' = ledger
           /\ i \in DOMAIN ledger /\ j \in DOMAIN ledger /\ i # j /\ decision # "4"
                 /\ ledger[i].trader # ledger[j].trader /\ q <= Ledger!Open(j)
                 => Ledger!TradePair(i, j, q)
           /\ i \in DOMAIN ledger /\ j = 0 /\ decision # "4" => Ledger!TradeExternal(i, q)
           /\ j \in DOMAIN ledger /\ i = 0 /\ decision # "4" => Ledger!TradeExternal(j, q)
           /\ i \in DOMAIN ledger /\ j = i /\ decision = "4" => Ledger!Cancel(i, q)
<1> DEFINE n == Len(ledger)
           e(k) == IF k \notin {i, j} THEN ledger[k]
                   ELSE IF decision = "4" THEN [ledger[k] EXCEPT !.cancelled = @ + q]
                   ELSE [ledger[k] EXCEPT !.filled = @ + q]
<1>1. DOMAIN ledger = 1..n /\ n \in Nat /\ ledger \in [1..n -> LedgerEntry]
  BY LenProperties
<1>2. ledger = [k \in 1..n |-> ledger[k]]
  BY <1>1
<1>3. ledger' = [k \in 1..n |-> e(k)]
  BY <1>1 DEF AddExecutionReport, Reported
<1>4. 0 \notin 1..n
  OBVIOUS
<1>5. ASSUME q = 0 \/ (i = 0 /\ j = 0)
      PROVE  ledger' = ledger
  <2>1. ASSUME NEW k \in 1..n
        PROVE  e(k) = ledger[k]
    <3>1. ledger[k] \in LedgerEntry
      BY <1>1
    <3>2. q = 0 => [ledger[k] EXCEPT !.filled = @ + q] = ledger[k]
                   /\ [ledger[k] EXCEPT !.cancelled = @ + q] = ledger[k]
      BY <3>1 DEF LedgerEntry
    <3> QED BY <1>4, <1>5, <3>2
  <2> HIDE DEF e
  <2> QED BY <1>2, <1>3, <2>1
<1>6. ASSUME i \in 1..n, j \in 1..n, i # j, decision # "4"
      PROVE  ledger' = [ledger EXCEPT ![i].filled = @ + q, ![j].filled = @ + q]
  BY <1>1, <1>2, <1>3, <1>6
<1>7. ASSUME i \in 1..n, j = 0, decision # "4"
      PROVE  ledger' = [ledger EXCEPT ![i].filled = @ + q]
  BY <1>1, <1>2, <1>3, <1>4, <1>7
<1>8. ASSUME j \in 1..n, i = 0, decision # "4"
      PROVE  ledger' = [ledger EXCEPT ![j].filled = @ + q]
  BY <1>1, <1>2, <1>3, <1>4, <1>8
<1>9. ASSUME i \in 1..n, j = i, decision = "4"
      PROVE  ledger' = [ledger EXCEPT ![i].cancelled = @ + q]
  BY <1>1, <1>2, <1>3, <1>9
<1> QED BY <1>1, <1>5, <1>6, <1>7, <1>8, <1>9
        DEF Ledger!TradePair, Ledger!TradeExternal, Ledger!Cancel

(***************************************************************************)
(* The shares of an order that are open are those in the book and in hand. *)
(***************************************************************************)
LEMMA OpenShares ==
    ASSUME AccountsInv, NEW id \in DOMAIN orders
    PROVE  /\ id \in DOMAIN ledger /\ id \in Nat
           /\ orders[id].size \in Nat /\ InHand(id) \in Nat
           /\ Ledger!Open(id) = orders[id].size + InHand(id)
<1>1. /\ orders \in Seq(ClientOrder) /\ ledger \in Seq(LedgerEntry) /\ nextOrder.size \in Nat
      /\ DOMAIN orders = 1..Len(orders) /\ DOMAIN ledger = 1..Len(orders)
  BY LenProperties DEF AccountsInv, TypeOK, LedgerEntry, LedgerKnown, Order
<1>2. orders[id] \in ClientOrder /\ ledger[id] \in LedgerEntry
  BY <1>1, ElementOfSeq
<1>3. /\ orders[id].size \in Nat /\ InHand(id) \in Nat
      /\ ledger[id].filled \in Nat /\ ledger[id].cancelled \in Nat
  BY <1>1, <1>2 DEF ClientOrder, LedgerEntry, InHand
<1>4. ledger[id].submitted = ledger[id].filled + ledger[id].cancelled + orders[id].size + InHand(id)
  BY DEF AccountsInv, SharesAccounted
<1> QED BY SMTT(60), <1>1, <1>3, <1>4 DEF Ledger!Open

(***************************************************************************)
(* An execution with a resting order is a trade between two orders, a trade *)
(* with the feed, or a cancellation of the ledger.                         *)
(***************************************************************************)
LEMMA LocalExecutionLedger ==
    ASSUME AccountsInv, NEW s \in Sides, NEW l \in 1..Len(localBook[s]),
           NEW i \in 1..Len(localBook[s][l].ids), NEW price \in Nat,
           NEW decision \in {"2", "4"},
           ExecuteLocalOrder(s, l, i, price, decision),
           \/ phase = "match" /\ decision = "2"
                 /\ orders[Resting(s, l, i)].trader # nextOrder.trader
           \/ phase = "feed" /\ decision = "2"
           \/ phase = "cancel" /\ decision = "4" /\ Resting(s, l, i) = nextOrder.id
    PROVE  Ledger!Next \/ UNCHANGED ledger
<1> DEFINE id == Resting(s, l, i)
           q == Executed(s, l, i)
           other == nextOrder.id
<1>1. /\ TypeOK /\ ledger \in Seq(LedgerEntry) /\ other \in Nat
      /\ DOMAIN orders = 1..Len(orders)
  BY LenProperties DEF AccountsInv, TypeOK, LedgerEntry, Order
<1>2. /\ id \in 1..Len(orders) /\ q \in Nat /\ q <= orders[id].size /\ q <= nextOrder.size
      /\ orders' \in Seq(ClientOrder) /\ Len(orders') = Len(orders)
      /\ \A j \in 1..Len(orders) :
            orders'[j] = IF j = id THEN [orders[id] EXCEPT !.size = orders[id].size - q]
                         ELSE orders[j]
      /\ nextOrder' \in Order /\ nextOrder' = [nextOrder EXCEPT !.size = nextOrder.size - q]
      /\ localBook' \in [Sides -> Seq(PriceLevel')]
      /\ AddExecutionReport(price, q, id, nextOrder.id, decision)
  <2>1. TypeOK
    BY <1>1
  <2> QED BY <2>1, LocalExecution
<1>3. \/ phase = "match" /\ decision = "2" /\ orders[id].trader # nextOrder.trader
      \/ phase = "feed" /\ decision = "2"
      \/ phase = "cancel" /\ decision = "4" /\ id = other
  OBVIOUS
<1> HIDE DEF id, q
<1>4. /\ id \in DOMAIN ledger /\ id \in Nat /\ orders[id].size \in Nat /\ InHand(id) \in Nat
      /\ Ledger!Open(id) = orders[id].size + InHand(id)
  BY <1>1, <1>2, OpenShares
<1>5. q # 0 => q \in 1..Ledger!Open(id)
  BY SMTT(60), <1>2, <1>4
<1>10. /\ q = 0 \/ (id = 0 /\ other = 0) => ledger' = ledger
       /\ id \in DOMAIN ledger /\ other \in DOMAIN ledger /\ id # other /\ decision # "4"
             /\ ledger[id].trader # ledger[other].trader /\ q <= Ledger!Open(other)
             => Ledger!TradePair(id, other, q)
       /\ id \in DOMAIN ledger /\ other = 0 /\ decision # "4" => Ledger!TradeExternal(id, q)
       /\ id \in DOMAIN ledger /\ other = id /\ decision = "4" => Ledger!Cancel(id, q)
  <2>1. /\ ledger \in Seq(LedgerEntry) /\ q \in Nat /\ id \in Nat /\ other \in Nat
        /\ AddExecutionReport(price, q, id, other, decision)
    BY <1>1, <1>2, <1>4
  <2> HIDE DEF other
  <2> QED BY <2>1, ReportedLedger
<1>6. q = 0 => UNCHANGED ledger
  BY <1>10
<1>7. CASE q # 0 /\ phase = "match"
  <2>1. /\ other \in DOMAIN orders /\ nextOrder.trader = orders[other].trader /\ decision = "2"
        /\ orders[id].trader # nextOrder.trader /\ other # id
    BY <1>3, <1>7 DEF AccountsInv, NextOrderKnown
  <2>2. /\ other \in DOMAIN ledger /\ orders[other].size \in Nat
        /\ Ledger!Open(other) = orders[other].size + InHand(other)
    BY <2>1, OpenShares
  <2>3. InHand(other) = nextOrder.size
    BY <1>7 DEF InHand
  <2>4. q <= Ledger!Open(other)
    <3>1. nextOrder.size \in Nat
      BY <1>1 DEF TypeOK, Order
    <3> QED BY SMTT(60), <1>2, <2>2, <2>3, <3>1
  <2>5. ledger[id].trader # ledger[other].trader
    BY <1>1, <1>2, <2>1 DEF AccountsInv, LedgerKnown
  <2>6. Ledger!TradePair(id, other, q)
    BY <1>4, <1>10, <2>1, <2>2, <2>4, <2>5
  <2> QED BY <1>4, <1>5, <1>7, <2>2, <2>6 DEF Ledger!Next
<1>8. CASE q # 0 /\ phase = "feed"
  <2>1. other = 0 /\ decision = "2"
    BY <1>3, <1>8 DEF AccountsInv, NextOrderKnown, FeedOrder
  <2>2. Ledger!TradeExternal(id, q)
    BY <1>4, <1>10, <2>1
  <2> QED BY <1>4, <1>5, <1>8, <2>2 DEF Ledger!Next
<1>9. CASE q # 0 /\ phase = "cancel"
  <2>1. other = id /\ decision = "4"
    BY <1>3, <1>9
  <2>2. Ledger!Cancel(id, q)
    BY <1>4, <1>10, <2>1
  <2> QED BY <1>4, <1>5, <1>9, <2>2 DEF Ledger!Next
<1> QED BY <1>3, <1>6, <1>7, <1>8, <1>9

(***************************************************************************)
(* An execution with a quote is a trade of the order in hand with the feed. *)
(***************************************************************************)
LEMMA MatchGlobalLedger ==
    ASSUME AccountsInv, MatchGlobal
    PROVE  Ledger!Next \/ UNCHANGED ledger
<1> DEFINE quote == globalBook[against][1]
           q == Least(quote.size, nextOrder.size)
           id == nextOrder.id
<1>1. /\ TypeOK /\ phase = "match" /\ ledger \in Seq(LedgerEntry)
      /\ id \in DOMAIN orders /\ nextOrder.size \in Nat
  BY DEF AccountsInv, TypeOK, NextOrderKnown, MatchGlobal, Selected, LedgerEntry, Order
<1>2. against \in Sides /\ quote \in GlobalQuote
  BY <1>1, MatchGlobalPlace, FirstQuote
<1>3. q \in Nat /\ q <= nextOrder.size
  <2>1. quote.size \in Nat
    BY <1>2 DEF GlobalQuote
  <2> QED BY <1>1, <2>1, ExecutionSize
<1>4. AddExecutionReport(BestGlobal, q, 0, id, "2")
  BY DEF MatchGlobal, ExecuteGlobalOrder
<1> HIDE DEF q
<1>5. /\ id \in DOMAIN ledger /\ id \in Nat /\ orders[id].size \in Nat
      /\ Ledger!Open(id) = orders[id].size + nextOrder.size
  <2>1. InHand(id) = nextOrder.size
    BY <1>1 DEF InHand
  <2> QED BY <1>1, <2>1, OpenShares
<1>6. q # 0 => q \in 1..Ledger!Open(id)
  BY <1>1, <1>3, <1>5
<1>7. (q = 0 => ledger' = ledger) /\ Ledger!TradeExternal(id, q)
  <2>1. 0 \in Nat /\ "2" # "4"
    OBVIOUS
  <2> HIDE DEF id
  <2> QED BY <1>1, <1>3, <1>4, <1>5, <2>1, ReportedLedger
<1> QED BY <1>5, <1>6, <1>7 DEF Ledger!Next

(***************************************************************************)
(* The market implements the ledger: whatever its clients and the feed do, *)
(* shares move only from open to executed or cancelled, no order gives up   *)
(* more than it has, and no two orders of one trader trade with each other. *)
(***************************************************************************)
THEOREM ImplementsLedger == Spec => LedgerSpec
<1>1. Init => Ledger!Init
  BY DEF Init, Ledger!Init
<1>2. AccountsInv /\ [Next]_vars => [Ledger!Next]_ledger
  <2> SUFFICES ASSUME AccountsInv, [Next]_vars PROVE Ledger!Next \/ UNCHANGED ledger
    OBVIOUS
  <2>1. ASSUME NEW kind, NEW s, NEW t \in Traders, NEW p, NEW q \in Sizes,
               ReceiveOrder(kind, s, t, p, q)
        PROVE  Ledger!Next
    <3>1. Ledger!Submit(t, q)
      BY <2>1 DEF ReceiveOrder, Ledger!Submit
    <3> QED BY <3>1 DEF Ledger!Next
  <2>2. CASE MatchLocal
    <3>1. ~AtEnd(against) /\ Selected
      BY <2>2, MatchLocalPlace DEF MatchLocal
    <3>2. /\ against \in Sides /\ level \in 1..Len(localBook[against])
          /\ pos \in 1..Len(localBook[against][level].ids)
          /\ orders[Resting(against, level, pos)].trader # nextOrder.trader
          /\ Candidate(against) = orders[Resting(against, level, pos)]
      BY <3>1, SelectedPlace
    <3>3. BestLocal \in Nat
      BY <3>1, BestLocalBounds
    <3>4. ExecuteLocalOrder(against, level, pos, BestLocal, "2") /\ phase = "match"
      BY <2>2 DEF MatchLocal, Selected
    <3> QED BY <3>2, <3>3, <3>4, LocalExecutionLedger
  <2>3. CASE MatchGlobal
    BY <2>3, MatchGlobalLedger
  <2>4. CASE DoLocalCancel
    <3>1. CASE UNCHANGED ledger
      BY <3>1
    <3>2. CASE ~UNCHANGED ledger
      <4>1. PICK l \in 1..Len(localBook[against]) : \E i \in 1..Len(localBook[against][l].ids) :
               ExecuteLocalOrder(against, l, i, 0, "4") /\ Resting(against, l, i) = nextOrder.id
        BY <2>4, <3>2, CancelPlace
      <4>3. PICK i \in 1..Len(localBook[against][l].ids) :
               ExecuteLocalOrder(against, l, i, 0, "4") /\ Resting(against, l, i) = nextOrder.id
        BY <4>1
      <4>2. against \in Sides /\ phase = "cancel"
        BY <2>4 DEF AccountsInv, TypeOK, DoLocalCancel
      <4> QED BY <4>2, <4>3, LocalExecutionLedger
    <3> QED BY <3>1, <3>2
  <2>5. CASE MatchFeed
    <3>1. PICK price \in Nat : ExecuteLocalOrder(against, 1, 1, price, "2")
      BY <2>5, MatchFeedPlace
    <3>2. /\ against \in Sides /\ 1 \in 1..Len(localBook[against])
          /\ 1 \in 1..Len(localBook[against][1].ids) /\ phase = "feed"
      BY <2>5, MatchFeedPlace DEF MatchFeed
    <3> QED BY <3>1, <3>2, LocalExecutionLedger
  <2>6. CASE ReportTrade
    <3>1. nextOrder.size > 0 => AddExecutionReport(nextOrder.price, nextOrder.size, 0, 0, "5")
      BY <2>6 DEF ReportTrade
    <3>2. ledger \in Seq(LedgerEntry) /\ nextOrder.size \in Nat
      BY DEF AccountsInv, TypeOK, LedgerEntry, Order
    <3>3. nextOrder.size > 0 => ledger' = ledger
      BY <3>1, <3>2, ReportedLedger
    <3> QED BY <2>6, <3>3 DEF ReportTrade
  <2>7. ASSUME NEW id \in DOMAIN orders, NEW q \in Sizes, ReceiveCancel(id, q)
        PROVE  UNCHANGED ledger
    BY <2>7 DEF ReceiveCancel, output
  <2>8. CASE (\E q \in Quotes : DeliverQuote(q)) \/ (\E t \in Trades : DeliverTrade(t))
             \/ ReceiveFeed \/ NextPriceLevel \/ SkipOwnOrder \/ SkipHiddenLevel \/ StopMatching
             \/ InsertLocal \/ TradeHitsBids \/ UpdateGlobal \/ Send \/ UNCHANGED vars
    BY <2>8 DEF DeliverQuote, DeliverTrade, ReceiveFeed, NextPriceLevel, SkipOwnOrder,
                SkipHiddenLevel, StopMatching, InsertLocal, TradeHitsBids, UpdateGlobal, Send,
                vars, output
  <2> QED BY <2>1, <2>2, <2>3, <2>4, <2>5, <2>6, <2>7, <2>8 DEF Next, Handle
<1> QED BY <1>1, <1>2, Accounts, PTL DEF Spec, LedgerSpec, Ledger!Spec

(***************************************************************************)
(* So no order is executed and cancelled for more shares than its client   *)
(* submitted, which is what the BrokerageCenter relies on when it books     *)
(* the reports.                                                            *)
(***************************************************************************)
COROLLARY NeverOverfilled == Spec => []Ledger!NoOverfill
<1>1. AccountsInv => Ledger!NoOverfill
  <2> SUFFICES ASSUME AccountsInv, NEW id \in DOMAIN ledger PROVE Ledger!Open(id) >= 0
    BY DEF Ledger!NoOverfill
  <2>1. id \in DOMAIN orders
    BY LenProperties DEF AccountsInv, TypeOK, LedgerKnown
  <2> QED BY <2>1, OpenShares
<1> QED BY <1>1, Accounts, PTL

================================================================================
