--------------------------- MODULE RiskManagementProofs ---------------------------
(***************************************************************************)
(* Proofs about RiskManagement, for any finite set of symbols, any prices, *)
(* sizes, holdings and submitted orders and any number of them: the seven  *)
(* invariants its run checks.  They are inductive only together with what  *)
(* the queues between the threads and the MatchingEngine hold of an order. *)
(***************************************************************************)
EXTENDS RiskManagement, DataLemmas

--------------------------------------------------------------------------------
(***************************************************************************)
(* The inductive invariant, beside the properties themselves.  What an     *)
(* order has been given to: an order request is unsent, then in toMarket,  *)
(* then in open, and whatever else names an order names one that was sent. *)
(***************************************************************************)
\* A place of a queue with an order, not a cancellation.
IsOrder(q, i) == i \in DOMAIN q /\ ~q[i].cancel

\* The orders the order thread has still to send.
Unsent == {i \in DOMAIN orderBuffer : ~orderBuffer[i].cancel /\ (i = 1 => step # "list")}

\* An order that was sent: it is on its way or the MatchingEngine has it.
SentFor(id, k) == IsOrder(toMarket, k) /\ toMarket[k].id = id
Sent(id) == id \in DOMAIN open \/ \E k \in DOMAIN toMarket : SentFor(id, k)

\* The messages of a queue are about submitted orders, each ordered once.
Queued(q) ==
    /\ \A i \in DOMAIN q : q[i].id \in DOMAIN orders
    /\ \A i \in DOMAIN q : ~q[i].cancel => q[i].size = orders[q[i].id].size
    /\ \A i, j \in DOMAIN q : ~q[i].cancel /\ ~q[j].cancel /\ q[i].id = q[j].id => i = j

RequestsQueued ==
    /\ Queued(orderBuffer) /\ Queued(toMarket)
    /\ \A i \in Unsent : ~Sent(orderBuffer[i].id)
    /\ step = "list" /\ ~request.cancel => Sent(request.id)

\* An order is taken once, and whatever is cancelled was taken or is taken before.
MarketOrders ==
    /\ \A k \in DOMAIN toMarket : ~toMarket[k].cancel => toMarket[k].id \notin DOMAIN open
    /\ \A k \in DOMAIN toMarket : toMarket[k].cancel =>
          \/ toMarket[k].id \in DOMAIN open
          \/ \E j \in 1..(k - 1) : SentFor(toMarket[k].id, j)
    /\ \A i \in DOMAIN confirming : confirming[i].id \in DOMAIN open
    /\ \A i \in DOMAIN cancels : cancels[i].id \in DOMAIN open

\* A report has a size when it is booked, and only then.
ReportsSound ==
    /\ \A i \in DOMAIN execRptBuffer : execRptBuffer[i].id \in DOMAIN open
    /\ \A k \in DOMAIN Unbooked :
          \/ Unbooked[k].status \in Confirmations /\ Unbooked[k].size = 0
          \/ Unbooked[k].status \in {"FILLED", "CANCELED"} /\ Unbooked[k].size # 0
    /\ booked => report.status \notin Confirmations

\* The entries of the pending orders and of the waiting list.
Bids == [price: Prices, size: Nat \ {0}]
Asks == [price: Prices, size: Nat \ {0}, reserved: Int]
Listing == [side: {"buy", "sell"}, price: Prices \cup {0}, size: Sizes, executed: Nat, status: Statuses]

EntriesOK ==
    /\ pendingBids \in [DOMAIN pendingBids -> Bids]
    /\ pendingAsks \in [DOMAIN pendingAsks -> Asks]
    /\ waitingList \in [DOMAIN waitingList -> Listing]
    /\ open \in [DOMAIN open -> Nat]
    /\ \A id \in DOMAIN pendingBids : orders[id].side = "buy"  /\ Sent(id)
    /\ \A id \in DOMAIN pendingAsks : orders[id].side = "sell" /\ Sent(id)
    /\ \A id \in DOMAIN waitingList : Sent(id) /\ waitingList[id].size = orders[id].size

\* What was counted of an order by its place on the list, by its booking alone,
\* and is still pending.
Counted(id) == IF id \in DOMAIN waitingList THEN waitingList[id].executed ELSE 0
JustBooked(id) == IF booked /\ report.id = id THEN report.size ELSE 0

ListedWithin ==
    \A id \in DOMAIN orders :
       Counted(id) + Bid(id).size + Ask(id).size + JustBooked(id) <= orders[id].size

RiskInv ==
    /\ TypeOK /\ RequestsQueued /\ MarketOrders /\ ReportsSound /\ EntriesOK /\ ListedWithin
    /\ HoldingsBacked /\ ReservationsExact /\ CashConserved /\ PositionConserved
    /\ PendingExact /\ UnfinishedListed

--------------------------------------------------------------------------------
(* The operators of the model. *)

\* The greater and the less of two numbers.
LEMMA MaxTwo ==
    ASSUME NEW a \in Int, NEW b \in Int
    PROVE  /\ Max({a, b}) = IF a >= b THEN a ELSE b
           /\ Min({a, b}) = IF a <= b THEN a ELSE b
<1>1. \E x \in {a, b} : \A y \in {a, b} : x >= y
  OBVIOUS
<1>2. \E x \in {a, b} : \A y \in {a, b} : x <= y
  OBVIOUS
<1>3. Max({a, b}) \in {a, b} /\ \A y \in {a, b} : Max({a, b}) >= y
  BY <1>1 DEF Max
<1>4. Min({a, b}) \in {a, b} /\ \A y \in {a, b} : Min({a, b}) <= y
  BY <1>2 DEF Min
<1> QED BY <1>3, <1>4

\* The reports that are still to be booked are reports.
LEMMA UnbookedType ==
    ASSUME TypeOK
    PROVE  Unbooked \in Seq(Reports)
BY DEF TypeOK, Unbooked

\* Prices and sizes are positive numbers; the price of a market order is 0.
LEMMA PriceTypes ==
    /\ \A p \in Prices : p \in Nat /\ p # 0
    /\ \A p \in Prices \cup {0} : p \in Nat
    /\ \A q \in Sizes : q \in Nat /\ q # 0
BY RiskAssumption

\* What the booking of a report brings is a number of cents and of shares.
LEMMA ReportValues ==
    ASSUME TypeOK, NEW r \in Reports, r.id \in DOMAIN orders
    PROVE  ProceedsOf(r) \in Int /\ r.size \in Nat /\ \A s : SharesIn(r, s) \in Int
<1>1. r.size \in Nat /\ r.price \in Nat
  BY PriceTypes DEF Reports
<1>2. r.size * Lot * r.price \in Int /\ r.size * Lot \in Int /\ -(r.size * Lot) * r.price \in Int
  BY <1>1 DEF Lot
<1> QED BY <1>1, <1>2 DEF ProceedsOf, SharesIn, Proceeds, SharesOf

\* What the reports on their way bring when one more is on its way, or one less.
ComingMore(r) ==
    /\ SumFunction(CashComing') = SumFunction(CashComing) + ProceedsOf(r)
    /\ \A s \in Symbols : SumFunction(SharesComing(s)') = SumFunction(SharesComing(s)) + SharesIn(r, s)
    /\ \A id : SumFunction(SizeComing(id)')
                 = SumFunction(SizeComing(id)) + (IF r.id = id THEN r.size ELSE 0)
ComingLess(r) ==
    /\ SumFunction(CashComing) = ProceedsOf(r) + SumFunction(CashComing')
    /\ \A s \in Symbols : SumFunction(SharesComing(s)) = SharesIn(r, s) + SumFunction(SharesComing(s)')
    /\ \A id : SumFunction(SizeComing(id))
                 = (IF r.id = id THEN r.size ELSE 0) + SumFunction(SizeComing(id)')
    /\ SumFunction(CashComing') \in Int
    /\ \A s \in Symbols : SumFunction(SharesComing(s)') \in Int
    /\ \A id : SumFunction(SizeComing(id)') \in Int

ReportsNamed == \A k \in DOMAIN Unbooked : Unbooked[k].id \in DOMAIN orders

\* What the reports on their way bring, report by report.
LEMMA ComingTypes ==
    ASSUME TypeOK, ReportsNamed
    PROVE  /\ CashComing \in [1..Len(Unbooked) -> Int]
           /\ \A s : SharesComing(s) \in [1..Len(Unbooked) -> Int]
           /\ \A id : SizeComing(id) \in [1..Len(Unbooked) -> Nat]
<1>1. Unbooked \in Seq(Reports)
  BY UnbookedType
<1>2. \A k \in 1..Len(Unbooked) : Unbooked[k] \in Reports /\ Unbooked[k].id \in DOMAIN orders
  BY <1>1 DEF ReportsNamed
<1>3. \A k \in 1..Len(Unbooked) : /\ ProceedsOf(Unbooked[k]) \in Int
                                  /\ \A s : SharesIn(Unbooked[k], s) \in Int
                                  /\ Unbooked[k].size \in Nat
  BY <1>2, ReportValues
<1>4. DOMAIN Unbooked = 1..Len(Unbooked)
  BY <1>1
<1>5. CashComing \in [1..Len(Unbooked) -> Int]
  BY <1>3, <1>4 DEF CashComing
<1>6. \A s : SharesComing(s) \in [1..Len(Unbooked) -> Int]
  BY <1>3, <1>4 DEF SharesComing
<1>7. \A id : SizeComing(id) \in [1..Len(Unbooked) -> Nat]
  BY <1>3, <1>4 DEF SizeComing
<1> QED BY <1>5, <1>6, <1>7

\* The reports that name an order of the user.
NamedReports == {r \in Reports : r.id \in DOMAIN orders}

\* The same as functions of the report.
LEMMA NamedValues ==
    ASSUME TypeOK, ReportsNamed
    PROVE  /\ Unbooked \in Seq(NamedReports)
           /\ [r \in NamedReports |-> ProceedsOf(r)] \in [NamedReports -> Int]
           /\ \A s : [r \in NamedReports |-> SharesIn(r, s)] \in [NamedReports -> Int]
           /\ \A id : [r \in NamedReports |-> IF r.id = id THEN r.size ELSE 0] \in [NamedReports -> Int]
<1>1. Unbooked \in Seq(Reports)
  BY UnbookedType
<1>2. \A k \in 1..Len(Unbooked) : Unbooked[k] \in NamedReports
  BY <1>1 DEF ReportsNamed, NamedReports
<1>3. Unbooked \in Seq(NamedReports)
  BY <1>1, <1>2
<1>4. ASSUME NEW r \in NamedReports
      PROVE  ProceedsOf(r) \in Int /\ r.size \in Nat /\ \A s : SharesIn(r, s) \in Int
  BY ReportValues DEF NamedReports
<1> QED BY <1>3, <1>4

\* When a report of the MatchingEngine is put on its way, the sums of what is on its
\* way grow by what it brings.
LEMMA ReportAdded ==
    ASSUME TypeOK, ReportsNamed, orders' = orders,
           NEW r \in NamedReports, Unbooked' = Append(Unbooked, r)
    PROVE  ComingMore(r)
<1> DEFINE q == Unbooked
           S == NamedReports
<1>1. q \in Seq(S)
  BY NamedValues
<1>2. /\ \A k \in DOMAIN q : q[k] \in S
      /\ \A k \in DOMAIN Append(q, r) : Append(q, r)[k] \in S
      /\ r \in S
  BY <1>1
<1>3. SumFunction(CashComing') = SumFunction(CashComing) + ProceedsOf(r)
  <2> DEFINE v == [x \in S |-> ProceedsOf(x)]
  <2>1. v \in [S -> Int] /\ v[r] = ProceedsOf(r)
    BY <1>2, NamedValues
  <2>2. CashComing = [k \in DOMAIN q |-> v[q[k]]]
    BY <1>2 DEF CashComing
  <2>3. CashComing' = [k \in DOMAIN Append(q, r) |-> v[Append(q, r)[k]]]
    BY <1>2 DEF CashComing, ProceedsOf
  <2> HIDE DEF v, S
  <2>4. SumFunction([k \in DOMAIN Append(q, r) |-> v[Append(q, r)[k]]])
          = SumFunction([k \in DOMAIN q |-> v[q[k]]]) + v[r]
    BY ZenonT(60), <1>1, <1>2, <2>1, SumOfAppended
  <2> QED BY <2>1, <2>2, <2>3, <2>4
<1>4. ASSUME NEW s
      PROVE  SumFunction(SharesComing(s)') = SumFunction(SharesComing(s)) + SharesIn(r, s)
  <2> DEFINE v == [x \in S |-> SharesIn(x, s)]
  <2>1. v \in [S -> Int] /\ v[r] = SharesIn(r, s)
    BY <1>2, NamedValues
  <2>2. SharesComing(s) = [k \in DOMAIN q |-> v[q[k]]]
    BY <1>2 DEF SharesComing
  <2>3. SharesComing(s)' = [k \in DOMAIN Append(q, r) |-> v[Append(q, r)[k]]]
    BY <1>2 DEF SharesComing, SharesIn
  <2> HIDE DEF v, S
  <2>4. SumFunction([k \in DOMAIN Append(q, r) |-> v[Append(q, r)[k]]])
          = SumFunction([k \in DOMAIN q |-> v[q[k]]]) + v[r]
    BY ZenonT(60), <1>1, <1>2, <2>1, SumOfAppended
  <2> QED BY <2>1, <2>2, <2>3, <2>4
<1>5. ASSUME NEW id
      PROVE  SumFunction(SizeComing(id)') = SumFunction(SizeComing(id)) + (IF r.id = id THEN r.size ELSE 0)
  <2> DEFINE v == [x \in S |-> IF x.id = id THEN x.size ELSE 0]
  <2>1. v \in [S -> Int] /\ v[r] = (IF r.id = id THEN r.size ELSE 0)
    BY <1>2, NamedValues
  <2>2. SizeComing(id) = [k \in DOMAIN q |-> v[q[k]]]
    BY <1>2 DEF SizeComing
  <2>3. SizeComing(id)' = [k \in DOMAIN Append(q, r) |-> v[Append(q, r)[k]]]
    BY <1>2 DEF SizeComing
  <2> HIDE DEF v, S
  <2>4. SumFunction([k \in DOMAIN Append(q, r) |-> v[Append(q, r)[k]]])
          = SumFunction([k \in DOMAIN q |-> v[q[k]]]) + v[r]
    BY ZenonT(60), <1>1, <1>2, <2>1, SumOfAppended
  <2> QED BY <2>1, <2>2, <2>3, <2>4
<1> QED BY <1>3, <1>4, <1>5 DEF ComingMore

\* A report of no money and no shares leaves both sums as they are.
LEMMA NothingComes ==
    ASSUME NEW r, ComingMore(r), ProceedsOf(r) = 0, \A s : SharesIn(r, s) = 0,
           SumFunction(CashComing) \in Int, \A s : SumFunction(SharesComing(s)) \in Int
    PROVE  /\ SumFunction(CashComing') = SumFunction(CashComing)
           /\ \A s \in Symbols : SumFunction(SharesComing(s)') = SumFunction(SharesComing(s))
<1>1. SumFunction(CashComing') = SumFunction(CashComing)
  BY DEF ComingMore
<1>2. ASSUME NEW s \in Symbols
      PROVE  SumFunction(SharesComing(s)') = SumFunction(SharesComing(s))
  <2>1. SumFunction(SharesComing(s)') = SumFunction(SharesComing(s)) + SharesIn(r, s)
    BY DEF ComingMore
  <2>2. SharesIn(r, s) = 0 /\ SumFunction(SharesComing(s)) \in Int
    OBVIOUS
  <2> QED BY <2>1, <2>2
<1> QED BY <1>1, <1>2

\* When the first report is booked, or a confirmation taken off its buffer, the sums
\* fall by what it brought.
LEMMA ReportTaken ==
    ASSUME TypeOK, ReportsNamed, orders' = orders,
           Unbooked # <<>>, Unbooked' = Tail(Unbooked)
    PROVE  ComingLess(Unbooked[1])
<1> DEFINE q == Unbooked
           S == NamedReports
<1>1. q \in Seq(S)
  BY NamedValues
<1>2. /\ \A k \in DOMAIN q : q[k] \in S
      /\ \A k \in DOMAIN Tail(q) : Tail(q)[k] \in S
      /\ q[1] \in S
  BY <1>1
<1>3. /\ SumFunction(CashComing) = ProceedsOf(q[1]) + SumFunction(CashComing')
      /\ SumFunction(CashComing') \in Int
  <2> DEFINE v == [x \in S |-> ProceedsOf(x)]
  <2>1. v \in [S -> Int] /\ v[q[1]] = ProceedsOf(q[1])
    BY <1>2, NamedValues
  <2>2. CashComing = [k \in DOMAIN q |-> v[q[k]]]
    BY <1>2 DEF CashComing
  <2>3. CashComing' = [k \in DOMAIN Tail(q) |-> v[Tail(q)[k]]]
    BY <1>2 DEF CashComing, ProceedsOf
  <2> HIDE DEF v, S
  <2>4. /\ SumFunction([k \in DOMAIN q |-> v[q[k]]])
             = v[q[1]] + SumFunction([k \in DOMAIN Tail(q) |-> v[Tail(q)[k]]])
        /\ SumFunction([k \in DOMAIN Tail(q) |-> v[Tail(q)[k]]]) \in Int
    BY <1>1, <1>2, <2>1, SumOfTail
  <2> QED BY <2>1, <2>2, <2>3, <2>4
<1>4. ASSUME NEW s
      PROVE  /\ SumFunction(SharesComing(s)) = SharesIn(q[1], s) + SumFunction(SharesComing(s)')
             /\ SumFunction(SharesComing(s)') \in Int
  <2> DEFINE v == [x \in S |-> SharesIn(x, s)]
  <2>1. v \in [S -> Int] /\ v[q[1]] = SharesIn(q[1], s)
    BY <1>2, NamedValues
  <2>2. SharesComing(s) = [k \in DOMAIN q |-> v[q[k]]]
    BY <1>2 DEF SharesComing
  <2>3. SharesComing(s)' = [k \in DOMAIN Tail(q) |-> v[Tail(q)[k]]]
    BY <1>2 DEF SharesComing, SharesIn
  <2> HIDE DEF v, S
  <2>4. /\ SumFunction([k \in DOMAIN q |-> v[q[k]]])
             = v[q[1]] + SumFunction([k \in DOMAIN Tail(q) |-> v[Tail(q)[k]]])
        /\ SumFunction([k \in DOMAIN Tail(q) |-> v[Tail(q)[k]]]) \in Int
    BY <1>1, <1>2, <2>1, SumOfTail
  <2> QED BY <2>1, <2>2, <2>3, <2>4
<1>5. ASSUME NEW id
      PROVE  /\ SumFunction(SizeComing(id)) = (IF q[1].id = id THEN q[1].size ELSE 0) + SumFunction(SizeComing(id)')
             /\ SumFunction(SizeComing(id)') \in Int
  <2> DEFINE v == [x \in S |-> IF x.id = id THEN x.size ELSE 0]
  <2>1. v \in [S -> Int] /\ v[q[1]] = (IF q[1].id = id THEN q[1].size ELSE 0)
    BY <1>2, NamedValues
  <2>2. SizeComing(id) = [k \in DOMAIN q |-> v[q[k]]]
    BY <1>2 DEF SizeComing
  <2>3. SizeComing(id)' = [k \in DOMAIN Tail(q) |-> v[Tail(q)[k]]]
    BY <1>2 DEF SizeComing
  <2> HIDE DEF v, S
  <2>4. /\ SumFunction([k \in DOMAIN q |-> v[q[k]]])
             = v[q[1]] + SumFunction([k \in DOMAIN Tail(q) |-> v[Tail(q)[k]]])
        /\ SumFunction([k \in DOMAIN Tail(q) |-> v[Tail(q)[k]]]) \in Int
    BY <1>1, <1>2, <2>1, SumOfTail
  <2> QED BY <2>1, <2>2, <2>3, <2>4
<1> QED BY <1>3, <1>4, <1>5 DEF ComingLess

\* f and g have the same elsewhere than at x.
SameBut(f, g, x) ==
    /\ DOMAIN f \ {x} = DOMAIN g \ {x}
    /\ \A y \in DOMAIN f \ {x} : f[y] = g[y]

--------------------------------------------------------------------------------
(* The pending orders and what they hold. *)

HeldOf(bid) == bid.price * bid.size * Lot
CashOf(ask) == ask.price * (ask.size * Lot - ask.reserved)
UnitsOf(id, ask, s) == IF orders[id].symbol = s THEN ask.reserved ELSE 0

\* Pending orders have prices, sizes and reserved shares, those made by operator[] too.
LEMMA PendingTypes ==
    ASSUME EntriesOK
    PROVE  /\ \A id : Bid(id) \in [price: Nat, size: Nat]
           /\ \A id : Ask(id) \in [price: Nat, size: Nat, reserved: Int]
BY PriceTypes DEF EntriesOK, Bid, Ask, Bids, Asks

\* What is held for a buy order is a number of cents.
LEMMA HeldValue ==
    ASSUME NEW bid \in [price: Nat, size: Nat] PROVE HeldOf(bid) \in Int
BY DEF HeldOf, Lot

\* The cash reserved for a sell order is a number of cents.
LEMMA CashValue ==
    ASSUME NEW ask \in [price: Nat, size: Nat, reserved: Int] PROVE CashOf(ask) \in Int
BY DEF CashOf, Lot

\* Orders that are pending name orders of the user, of which there are finitely many.
LEMMA PendingFinite ==
    ASSUME TypeOK
    PROVE  IsFiniteSet(DOMAIN pendingBids) /\ IsFiniteSet(DOMAIN pendingAsks)
<1>1. Len(orders) \in Nat
  BY DEF TypeOK
<1>2. IsFiniteSet(1..Len(orders))
  BY <1>1, FS_Interval
<1>3. DOMAIN pendingBids \subseteq 1..Len(orders) /\ DOMAIN pendingAsks \subseteq 1..Len(orders)
  BY DEF TypeOK
<1> QED BY <1>2, <1>3, FS_Subset

\* When one pending buy order changes, the money held in all changes by what is held
\* for it.
LEMMA BidsChanged ==
    ASSUME TypeOK, EntriesOK, pendingBids' \in [DOMAIN pendingBids' -> Bids],
           NEW id, SameBut(pendingBids, pendingBids', id)
    PROVE  SumFunction(HeldBids') = SumFunction(HeldBids) - HeldOf(Bid(id)) + HeldOf(Bid(id)')
<1> DEFINE D == DOMAIN pendingBids
           E == DOMAIN pendingBids'
           f == [i \in D |-> HeldOf(pendingBids[i])]
           g == [i \in E |-> HeldOf(pendingBids'[i])]
<1>1. /\ \A i \in D : pendingBids[i] \in [price: Nat, size: Nat]
      /\ \A i \in E : pendingBids'[i] \in [price: Nat, size: Nat]
  BY PriceTypes DEF EntriesOK, Bids
<1>2. f \in [D -> Int] /\ g \in [E -> Int]
  BY <1>1, HeldValue
<1>3. IsFiniteSet(D)
  BY PendingFinite
<1>4. D \ {id} = E \ {id} /\ \A i \in D \ {id} : f[i] = g[i]
  BY DEF SameBut
<1>5. HeldBids = f /\ HeldBids' = g
  BY DEF HeldBids, HeldOf
<1>6. /\ (IF id \in D THEN f[id] ELSE 0) = HeldOf(Bid(id))
      /\ (IF id \in E THEN g[id] ELSE 0) = HeldOf(Bid(id)')
  BY DEF Bid, HeldOf, Lot
<1>7. /\ SumFunction(g) - (IF id \in E THEN g[id] ELSE 0) = SumFunction(f) - (IF id \in D THEN f[id] ELSE 0)
      /\ SumFunction(g) \in Int /\ SumFunction(f) \in Int
  <2> HIDE DEF D, E, f, g
  <2> QED BY <1>2, <1>3, <1>4, SumDiffer
<1>8. HeldOf(Bid(id)) \in Int /\ HeldOf(Bid(id)') \in Int
  <2>1. Bid(id) \in [price: Nat, size: Nat] /\ Bid(id)' \in [price: Nat, size: Nat]
    BY <1>1 DEF Bid
  <2> QED BY <2>1, HeldValue
<1> HIDE DEF f, g
<1> QED BY <1>5, <1>6, <1>7, <1>8

\* When one pending sell order changes, the cash and the shares reserved in all change
\* by what is reserved for it.
LEMMA AsksChanged ==
    ASSUME TypeOK, EntriesOK, pendingAsks' \in [DOMAIN pendingAsks' -> Asks],
           NEW id, SameBut(pendingAsks, pendingAsks', id), orders' = orders
    PROVE  /\ SumFunction(CashReserved')
                = SumFunction(CashReserved) - CashOf(Ask(id)) + CashOf(Ask(id)')
           /\ \A s : SumFunction(UnitsReserved(s)')
                       = SumFunction(UnitsReserved(s)) - UnitsOf(id, Ask(id), s) + UnitsOf(id, Ask(id)', s)
<1> DEFINE D == DOMAIN pendingAsks
           E == DOMAIN pendingAsks'
           f == [i \in D |-> CashOf(pendingAsks[i])]
           g == [i \in E |-> CashOf(pendingAsks'[i])]
<1>1. /\ \A i \in D : pendingAsks[i] \in [price: Nat, size: Nat, reserved: Int]
      /\ \A i \in E : pendingAsks'[i] \in [price: Nat, size: Nat, reserved: Int]
  BY PriceTypes DEF EntriesOK, Asks
<1>2. f \in [D -> Int] /\ g \in [E -> Int]
  BY <1>1, CashValue
<1>3. IsFiniteSet(D)
  BY PendingFinite
<1>4. D \ {id} = E \ {id} /\ \A i \in D \ {id} : f[i] = g[i] /\ pendingAsks[i] = pendingAsks'[i]
  BY DEF SameBut
<1>5. CashReserved = f /\ CashReserved' = g
  BY DEF CashReserved, CashOf
<1>6. /\ (IF id \in D THEN f[id] ELSE 0) = CashOf(Ask(id))
      /\ (IF id \in E THEN g[id] ELSE 0) = CashOf(Ask(id)')
  BY DEF Ask, CashOf, Lot
<1>7. /\ SumFunction(g) - (IF id \in E THEN g[id] ELSE 0) = SumFunction(f) - (IF id \in D THEN f[id] ELSE 0)
      /\ SumFunction(g) \in Int /\ SumFunction(f) \in Int
  <2> HIDE DEF D, E, f, g
  <2> QED BY <1>2, <1>3, <1>4, SumDiffer
<1>8. Ask(id) \in [price: Nat, size: Nat, reserved: Int] /\ Ask(id)' \in [price: Nat, size: Nat, reserved: Int]
  BY <1>1 DEF Ask
<1>9. CashOf(Ask(id)) \in Int /\ CashOf(Ask(id)') \in Int
  BY <1>8, CashValue
<1>10. SumFunction(CashReserved') = SumFunction(CashReserved) - CashOf(Ask(id)) + CashOf(Ask(id)')
  <2> HIDE DEF f, g
  <2> QED BY <1>5, <1>6, <1>7, <1>9
<1>11. ASSUME NEW s
       PROVE  SumFunction(UnitsReserved(s)')
                = SumFunction(UnitsReserved(s)) - UnitsOf(id, Ask(id), s) + UnitsOf(id, Ask(id)', s)
  <2> DEFINE u == UnitsReserved(s)
             v == UnitsReserved(s)'
  <2>1. u \in [D -> Int] /\ v \in [E -> Int]
    BY <1>1 DEF UnitsReserved
  <2>2. \A i \in D \ {id} : u[i] = v[i]
    BY <1>4 DEF UnitsReserved
  <2>3. /\ (IF id \in D THEN u[id] ELSE 0) = UnitsOf(id, Ask(id), s)
        /\ (IF id \in E THEN v[id] ELSE 0) = UnitsOf(id, Ask(id)', s)
    BY DEF Ask, UnitsOf, UnitsReserved
  <2>4. UnitsOf(id, Ask(id), s) \in Int /\ UnitsOf(id, Ask(id)', s) \in Int
    BY <1>8 DEF UnitsOf
  <2> HIDE DEF u, v, D, E
  <2>5. /\ SumFunction(v) - (IF id \in E THEN v[id] ELSE 0) = SumFunction(u) - (IF id \in D THEN u[id] ELSE 0)
        /\ SumFunction(v) \in Int /\ SumFunction(u) \in Int
    BY <1>3, <1>4, <2>1, <2>2, SumDiffer
  <2>6. SumFunction(v) = SumFunction(u) - UnitsOf(id, Ask(id), s) + UnitsOf(id, Ask(id)', s)
    BY <2>3, <2>4, <2>5
  <2> QED BY <2>6 DEF u, v
<1> QED BY <1>10, <1>11

--------------------------------------------------------------------------------
(* What is sent to the market, and what is on its way back. *)

SizeFor(m, id) == IF m.id = id /\ ~m.cancel THEN m.size ELSE 0

\* What a message to the MatchingEngine adds to the size that is sent of an order.
LEMMA MessageValues ==
    \A id : [m \in Requests |-> SizeFor(m, id)] \in [Requests -> Nat]
BY PriceTypes DEF Requests, SizeFor

\* A message that is sent adds its size to what is sent of its order.
LEMMA MessageSent ==
    ASSUME TypeOK, NEW m \in Requests, toMarket' = Append(toMarket, m)
    PROVE  \A id : SumFunction(SizeSent(id)') = SumFunction(SizeSent(id)) + SizeFor(m, id)
<1> SUFFICES ASSUME NEW id
             PROVE  SumFunction(SizeSent(id)') = SumFunction(SizeSent(id)) + SizeFor(m, id)
  OBVIOUS
<1> DEFINE q == toMarket
           v == [x \in Requests |-> SizeFor(x, id)]
<1>1. q \in Seq(Requests)
  BY DEF TypeOK
<1>2. /\ \A k \in DOMAIN q : q[k] \in Requests
      /\ \A k \in DOMAIN Append(q, m) : Append(q, m)[k] \in Requests
  BY <1>1
<1>3. v \in [Requests -> Int] /\ v[m] = SizeFor(m, id)
  BY MessageValues
<1>4. SizeSent(id) = [k \in DOMAIN q |-> v[q[k]]]
  BY <1>2 DEF SizeSent, SizeFor
<1>5. SizeSent(id)' = [k \in DOMAIN Append(q, m) |-> v[Append(q, m)[k]]]
  BY <1>2 DEF SizeSent, SizeFor
<1> HIDE DEF v
<1>6. SumFunction([k \in DOMAIN Append(q, m) |-> v[Append(q, m)[k]]])
        = SumFunction([k \in DOMAIN q |-> v[q[k]]]) + v[m]
  BY <1>1, <1>3, SumOfAppended
<1> QED BY <1>3, <1>4, <1>5, <1>6

\* A message that the MatchingEngine takes leaves the size sent of its order less.
LEMMA MessageTaken ==
    ASSUME TypeOK, toMarket # <<>>, toMarket' = Tail(toMarket)
    PROVE  \A id : /\ SumFunction(SizeSent(id)) = SizeFor(toMarket[1], id) + SumFunction(SizeSent(id)')
                   /\ SumFunction(SizeSent(id)') \in Int
<1> SUFFICES ASSUME NEW id
             PROVE  /\ SumFunction(SizeSent(id)) = SizeFor(toMarket[1], id) + SumFunction(SizeSent(id)')
                    /\ SumFunction(SizeSent(id)') \in Int
  OBVIOUS
<1> DEFINE q == toMarket
           v == [x \in Requests |-> SizeFor(x, id)]
<1>1. q \in Seq(Requests)
  BY DEF TypeOK
<1>2. /\ \A k \in DOMAIN q : q[k] \in Requests
      /\ \A k \in DOMAIN Tail(q) : Tail(q)[k] \in Requests
      /\ q[1] \in Requests
  BY <1>1
<1>3. v \in [Requests -> Int] /\ v[q[1]] = SizeFor(q[1], id)
  BY <1>2, MessageValues
<1>4. SizeSent(id) = [k \in DOMAIN q |-> v[q[k]]]
  BY <1>2 DEF SizeSent, SizeFor
<1>5. SizeSent(id)' = [k \in DOMAIN Tail(q) |-> v[Tail(q)[k]]]
  BY <1>2 DEF SizeSent, SizeFor
<1> HIDE DEF v
<1>6. /\ SumFunction([k \in DOMAIN q |-> v[q[k]]])
           = v[q[1]] + SumFunction([k \in DOMAIN Tail(q) |-> v[Tail(q)[k]]])
      /\ SumFunction([k \in DOMAIN Tail(q) |-> v[Tail(q)[k]]]) \in Int
  BY <1>1, <1>3, SumOfTail
<1> QED BY <1>3, <1>4, <1>5, <1>6

\* The sums are numbers; nothing is sent or on its way for an order nothing names.
LEMMA SumValues ==
    ASSUME TypeOK, ReportsNamed
    PROVE  /\ SumFunction(CashComing) \in Int
           /\ \A s : SumFunction(SharesComing(s)) \in Int
           /\ \A id : SumFunction(SizeComing(id)) \in Nat /\ SumFunction(SizeSent(id)) \in Nat
           /\ \A id : (\A k \in DOMAIN Unbooked : Unbooked[k].id # id) => SumFunction(SizeComing(id)) = 0
           /\ \A id : (\A k \in DOMAIN toMarket : ~SentFor(id, k)) => SumFunction(SizeSent(id)) = 0
           /\ \A k \in DOMAIN Unbooked : Unbooked[k].size <= SumFunction(SizeComing(Unbooked[k].id))
<1> DEFINE n == Len(Unbooked)
           m == Len(toMarket)
<1>1. /\ CashComing \in [1..n -> Int] /\ \A s : SharesComing(s) \in [1..n -> Int]
      /\ \A id : SizeComing(id) \in [1..n -> Nat]
  BY ComingTypes
<1>2. n \in Nat /\ DOMAIN Unbooked = 1..n /\ m \in Nat /\ DOMAIN toMarket = 1..m
  BY UnbookedType DEF TypeOK
<1>3. \A id : SizeSent(id) \in [1..m -> Nat]
  <2>1. toMarket \in Seq(Requests) /\ \A x \in Requests : x.size \in Nat
    BY PriceTypes DEF TypeOK, Requests
  <2>2. \A k \in 1..m : toMarket[k].size \in Nat
    BY <2>1
  <2> QED BY <1>2, <2>2 DEF SizeSent
<1> HIDE DEF n, m
<1>4. IsFiniteSet(1..n) /\ IsFiniteSet(1..m)
  BY <1>2, FS_Interval
<1>5. SumFunction(CashComing) \in Int /\ \A s : SumFunction(SharesComing(s)) \in Int
  BY <1>1, <1>4, SumType
<1>6. ASSUME NEW id PROVE /\ SumFunction(SizeComing(id)) \in Nat
                          /\ \A k \in 1..n : SizeComing(id)[k] <= SumFunction(SizeComing(id))
  <2>1. SizeComing(id) \in [1..n -> Nat]
    BY <1>1, Zenon
  <2>2. SizeComing(id) \in [1..n -> Int] /\ \A k \in 1..n : SizeComing(id)[k] >= 0
    BY <2>1
  <2> QED BY <1>4, <2>2, SumNat
<1>7. ASSUME NEW id PROVE SumFunction(SizeSent(id)) \in Nat
  <2>1. SizeSent(id) \in [1..m -> Nat]
    BY <1>3, Zenon
  <2>2. SizeSent(id) \in [1..m -> Int] /\ \A k \in 1..m : SizeSent(id)[k] >= 0
    BY <2>1
  <2> QED BY <1>4, <2>2, SumNat
<1>8. ASSUME NEW id, \A k \in DOMAIN Unbooked : Unbooked[k].id # id
      PROVE  SumFunction(SizeComing(id)) = 0
  <2>1. SizeComing(id) \in [1..n -> Int]
    BY <1>1
  <2>2. \A k \in 1..n : SizeComing(id)[k] = 0
    BY <1>2, <1>8 DEF SizeComing
  <2> QED BY <1>4, <2>1, <2>2, SumZero
<1>9. ASSUME NEW id, \A k \in DOMAIN toMarket : ~SentFor(id, k)
      PROVE  SumFunction(SizeSent(id)) = 0
  <2>1. SizeSent(id) \in [1..m -> Int]
    BY <1>3
  <2>2. \A k \in 1..m : SizeSent(id)[k] = 0
    BY <1>2, <1>9 DEF SizeSent, SentFor, IsOrder
  <2> QED BY <1>4, <2>1, <2>2, SumZero
<1>10. ASSUME NEW k \in DOMAIN Unbooked
       PROVE  Unbooked[k].size <= SumFunction(SizeComing(Unbooked[k].id))
  <2>1. SizeComing(Unbooked[k].id)[k] = Unbooked[k].size
    BY DEF SizeComing
  <2> QED BY <1>2, <1>6, <2>1
<1> QED BY <1>5, <1>6, <1>7, <1>8, <1>9, <1>10

--------------------------------------------------------------------------------
(* The first state, and the steps of the user. *)

\* The orders of the user, as they were submitted.
LEMMA OrderTypes ==
    ASSUME TypeOK
    PROVE  /\ Len(orders) \in Nat /\ DOMAIN orders = 1..Len(orders)
           /\ \A id \in DOMAIN orders :
                 /\ id \in 1..MaxOrders
                 /\ orders[id].side \in {"buy", "sell"} /\ orders[id].symbol \in Symbols
                 /\ orders[id].price \in Prices \cup {0} /\ orders[id].size \in Sizes
                 /\ orders[id].size \in Nat /\ orders[id].size # 0
<1>1. orders \in Seq(Orders) /\ Len(orders) <= MaxOrders /\ MaxOrders \in Nat
  BY RiskAssumption DEF TypeOK
<1>2. \A o \in Orders : /\ o.side \in {"buy", "sell"} /\ o.symbol \in Symbols
                        /\ o.price \in Prices \cup {0} /\ o.size \in Sizes
                        /\ o.size \in Nat /\ o.size # 0
  BY PriceTypes DEF Orders
<1> QED BY <1>1, <1>2

\* An order the MatchingEngine has or will get is one the user submitted.
LEMMA SentNamed ==
    ASSUME TypeOK, RequestsQueued
    PROVE  \A id : Sent(id) => id \in DOMAIN orders
BY OrderTypes DEF TypeOK, RequestsQueued, Queued, Sent, SentFor, IsOrder

\* The reports are of orders the user submitted.
LEMMA ReportsOfOrders ==
    ASSUME TypeOK, ReportsSound
    PROVE  ReportsNamed
<1>1. execRptBuffer \in Seq(Reports) /\ \A i \in DOMAIN execRptBuffer : execRptBuffer[i].id \in DOMAIN orders
  BY OrderTypes DEF TypeOK, ReportsSound
<1>2. booked => execRptBuffer # <<>>
  BY DEF TypeOK
<1> QED BY <1>1, <1>2 DEF ReportsNamed, Unbooked

\* The report the report thread is at.
LEMMA FirstReport ==
    ASSUME TypeOK, ReportsSound, execRptBuffer # <<>>
    PROVE  /\ report = execRptBuffer[1] /\ report \in Reports /\ report.size \in Nat
           /\ report.id \in DOMAIN open /\ report.id \in DOMAIN orders
           /\ report.price \in Nat
<1>1. execRptBuffer \in Seq(Reports) /\ DOMAIN open \subseteq 1..Len(orders)
  BY DEF TypeOK
<1>2. report = execRptBuffer[1] /\ report \in Reports /\ report.id \in DOMAIN open
  BY <1>1 DEF report, ReportsSound
<1>3. report.id \in DOMAIN orders
  BY <1>1, <1>2, OrderTypes
<1> QED BY <1>2, <1>3, PriceTypes DEF Reports

\* The user submits an order.
LEMMA SubmitOrderStep ==
    ASSUME RiskInv, NEW o \in Inputs, SubmitOrder(o)
    PROVE  RiskInv'
<1> DEFINE n == Len(orders)
           m == Len(orderBuffer)
           new == [id |-> n + 1, cancel |-> FALSE, size |-> o.size]
<1>0. /\ TypeOK /\ RequestsQueued /\ MarketOrders /\ ReportsSound /\ EntriesOK /\ ListedWithin
      /\ HoldingsBacked /\ ReservationsExact /\ CashConserved /\ PositionConserved
      /\ PendingExact /\ UnfinishedListed
  BY DEF RiskInv
<1>1. /\ orders' = Append(orders, o)
      /\ orderBuffer' = Append(orderBuffer, new)
      /\ UNCHANGED <<cancelled, step, usable, execRptBuffer, booked>>
      /\ UNCHANGED <<summary, items, pendingBids, pendingAsks, shortCash, shortUnits, waitingList>>
      /\ UNCHANGED <<toMarket, confirming, cancels, open, traded>>
  <2>1. orders \in Seq(Orders) /\ orders' = Append(orders, o) /\ o \in Orders
    BY <1>0, RiskAssumption DEF SubmitOrder, TypeOK
  <2>2. Len(orders') = n + 1
    BY <2>1
  <2> QED BY <2>1, <2>2 DEF SubmitOrder, book, account, pending, market
<1>2. /\ n \in Nat /\ DOMAIN orders = 1..n /\ DOMAIN orders' = 1..(n + 1) /\ n + 1 \notin 1..n
      /\ n + 1 \in 1..MaxOrders /\ orders'[n + 1] = o
      /\ \A id \in 1..n : id \in 1..(n + 1) /\ orders'[id] = orders[id]
      /\ orders' \in Seq(Orders) /\ Len(orders') <= MaxOrders /\ Len(orders') = n + 1
      /\ o.size \in Sizes /\ o.size \in Nat
  <2>1. orders \in Seq(Orders) /\ o \in Orders /\ n < MaxOrders /\ MaxOrders \in Nat
    BY <1>0, RiskAssumption DEF SubmitOrder, TypeOK
  <2>2. o.size \in Sizes /\ o.size \in Nat
    BY <2>1, PriceTypes DEF Orders
  <2> QED BY <1>1, <2>1, <2>2
<1>3. /\ m \in Nat /\ DOMAIN orderBuffer = 1..m /\ DOMAIN orderBuffer' = 1..(m + 1)
      /\ orderBuffer'[m + 1] = new /\ \A i \in 1..m : orderBuffer'[i] = orderBuffer[i]
      /\ new \in Requests /\ orderBuffer' \in Seq(Requests)
      /\ orderBuffer # <<>> => Head(orderBuffer') = Head(orderBuffer)
  <2>1. orderBuffer \in Seq(Requests) /\ new \in Requests
    BY <1>0, <1>2 DEF TypeOK, Requests
  <2> HIDE DEF new
  <2> QED BY <1>1, <2>1
<1>4. /\ \A id : Sent(id)' <=> Sent(id)
      /\ ~Sent(n + 1)
  BY <1>0, <1>1, <1>2, SentNamed DEF Sent, SentFor, IsOrder
<1>5. step = "list" => orderBuffer # <<>> /\ request' = request
  BY <1>0, <1>3 DEF TypeOK, request
<1>6. /\ \A id : Bid(id)' = Bid(id) /\ Ask(id)' = Ask(id)
      /\ Unbooked' = Unbooked /\ ReportsNamed
      /\ \A k \in DOMAIN Unbooked : Unbooked[k].id \in 1..n
  <2>1. /\ \A id : Bid(id)' = Bid(id) /\ Ask(id)' = Ask(id)
        /\ Unbooked' = Unbooked
    BY <1>1 DEF Bid, Ask, Unbooked
  <2>2. ReportsNamed
    BY <1>0, ReportsOfOrders
  <2> QED BY <1>2, <2>1, <2>2 DEF ReportsNamed
<1>7. /\ Bid(n + 1).size = 0 /\ Ask(n + 1).size = 0
      /\ n + 1 \notin DOMAIN waitingList /\ n + 1 \notin DOMAIN open
  BY <1>0, <1>4 DEF Bid, Ask, EntriesOK, Sent
<1> HIDE DEF m, new
<1>8. TypeOK'
  <2>1. /\ DOMAIN pendingBids \cup DOMAIN pendingAsks \subseteq 1..n
        /\ DOMAIN waitingList \subseteq 1..n /\ DOMAIN open \subseteq 1..n
    BY <1>0 DEF TypeOK
  <2>2. 1..n \subseteq 1..Len(orders')
    BY <1>2
  <2>3. orderBuffer' # <<>>
    BY <1>3
  <2> HIDE DEF n
  <2> QED BY <1>0, <1>1, <1>2, <1>3, <2>1, <2>2, <2>3 DEF TypeOK
<1> HIDE DEF n
<1>9. RequestsQueued'
  <2>1. \A i \in 1..m : orderBuffer[i].id \in 1..n
    BY <1>0, <1>2, <1>3 DEF RequestsQueued, Queued
  <2>2. \A i \in DOMAIN orderBuffer' : i \in 1..m \/ i = m + 1
    BY <1>3
  <2>3. new.id = n + 1 /\ new.size = o.size
    BY DEF new
  <2>4. Queued(orderBuffer)'
    <3>1. \A i \in DOMAIN orderBuffer' : orderBuffer'[i].id \in DOMAIN orders'
      BY <1>2, <1>3, <2>1, <2>2, <2>3
    <3>2. \A i \in DOMAIN orderBuffer' : ~orderBuffer'[i].cancel => orderBuffer'[i].size = orders'[orderBuffer'[i].id].size
      BY <1>0, <1>2, <1>3, <2>1, <2>2, <2>3 DEF RequestsQueued, Queued
    <3>3. \A i, j \in DOMAIN orderBuffer' :
             ~orderBuffer'[i].cancel /\ ~orderBuffer'[j].cancel /\ orderBuffer'[i].id = orderBuffer'[j].id => i = j
      BY <1>0, <1>2, <1>3, <2>1, <2>2, <2>3 DEF RequestsQueued, Queued
    <3> QED BY <3>1, <3>2, <3>3 DEF Queued
  <2>5. Queued(toMarket)'
    BY <1>0, <1>1, <1>2 DEF RequestsQueued, Queued
  <2>6. \A i \in Unsent' : ~Sent(orderBuffer'[i].id)
    BY <1>0, <1>1, <1>3, <1>4, <2>2, <2>3 DEF RequestsQueued, Unsent
  <2>7. step' = "list" /\ ~request'.cancel => Sent(request'.id)
    BY <1>0, <1>1, <1>5 DEF RequestsQueued
  <2> QED BY <1>4, <2>4, <2>5, <2>6, <2>7 DEF RequestsQueued
<1>10. MarketOrders' /\ ReportsSound'
  BY <1>0, <1>1 DEF MarketOrders, ReportsSound, SentFor, IsOrder, Unbooked, report
<1>11. EntriesOK'
  <2>1. \A id \in DOMAIN pendingBids \cup DOMAIN pendingAsks \cup DOMAIN waitingList : orders'[id] = orders[id]
    BY <1>0, <1>2, SentNamed DEF EntriesOK
  <2> QED BY <1>0, <1>1, <1>4, <2>1 DEF EntriesOK
<1>12. ListedWithin'
  <2>1. \A id : Counted(id)' = Counted(id) /\ JustBooked(id)' = JustBooked(id)
    BY <1>1 DEF Counted, JustBooked, report
  <2>2. Counted(n + 1) = 0 /\ JustBooked(n + 1) = 0
    <3>1. booked => report.id \in 1..n
      BY <1>0, <1>2, FirstReport DEF TypeOK
    <3> QED BY <1>2, <1>7, <3>1 DEF Counted, JustBooked
  <2>3. \A id \in DOMAIN orders' : id \in 1..n \/ id = n + 1
    BY <1>2
  <2> QED BY <1>0, <1>2, <1>6, <1>7, <2>1, <2>2, <2>3 DEF ListedWithin
<1>13. HoldingsBacked' /\ UnfinishedListed'
  <2>1. \A id \in DOMAIN pendingBids \cup DOMAIN pendingAsks : step = "list" => request' = request
    BY <1>5
  <2> QED BY <1>0, <1>1, <2>1 DEF HoldingsBacked, UnfinishedListed, HeldBids
<1>14. ReservationsExact'
  <2>1. DOMAIN pendingAsks \subseteq 1..n
    BY <1>0, <1>2 DEF TypeOK
  <2>2. \A s : UnitsReserved(s)' = UnitsReserved(s)
    BY <1>1, <1>2, <2>1 DEF UnitsReserved
  <2>3. CashReserved' = CashReserved
    BY <1>1 DEF CashReserved
  <2> QED BY <1>0, <1>1, <2>2, <2>3 DEF ReservationsExact
<1>15. CashConserved' /\ PositionConserved'
  <2>1. CashComing' = CashComing
    BY <1>2, <1>6 DEF CashComing, ProceedsOf
  <2>2. \A s : SharesComing(s)' = SharesComing(s)
    BY <1>2, <1>6 DEF SharesComing, SharesIn
  <2> QED BY <1>0, <1>1, <2>1, <2>2 DEF CashConserved, PositionConserved
<1>16. PendingExact'
  <2>1. \A id : SizeComing(id)' = SizeComing(id) /\ SizeSent(id)' = SizeSent(id)
    BY <1>1, <1>6 DEF SizeComing, SizeSent
  <2>2. \A id : AtMarket(id)' = AtMarket(id)
    BY <1>1, <2>1 DEF AtMarket
  <2>3. AtMarket(n + 1) = 0 /\ SumFunction(SizeComing(n + 1)) = 0
    <3>1. \A k \in DOMAIN Unbooked : Unbooked[k].id # n + 1
      BY <1>2, <1>6
    <3>2. \A k \in DOMAIN toMarket : ~SentFor(n + 1, k)
      BY <1>4 DEF Sent
    <3> QED BY <1>0, <1>6, <1>7, <3>1, <3>2, SumValues DEF AtMarket
  <2>4. \A id \in DOMAIN orders' : id \in 1..n \/ id = n + 1
    BY <1>2
  <2> QED BY <1>0, <1>2, <1>6, <1>7, <2>1, <2>2, <2>3, <2>4 DEF PendingExact
<1> QED BY <1>8, <1>9, <1>10, <1>11, <1>12, <1>13, <1>14, <1>15, <1>16 DEF RiskInv

\* What no step of the order thread changes, but for what it sends.
\* What the steps of the user and of the order thread leave alone.
Untouched == UNCHANGED <<orders, execRptBuffer, booked, toMarket, confirming, cancels, open, traded>>
SameAccount == UNCHANGED <<summary, items, pendingBids, pendingAsks, shortCash, shortUnits>>

\* What only the order thread and the user change leaves the rest of the invariant.
LEMMA SameOrders ==
    ASSUME RiskInv, Untouched, SameAccount
    PROVE  /\ MarketOrders' /\ ReportsSound' /\ PendingExact'
           /\ HoldingsBacked' /\ ReservationsExact' /\ CashConserved' /\ PositionConserved'
           /\ Queued(toMarket)' /\ \A id : Sent(id)' <=> Sent(id)
           /\ \A id : Bid(id)' = Bid(id) /\ Ask(id)' = Ask(id) /\ JustBooked(id)' = JustBooked(id)
           /\ waitingList' = waitingList => EntriesOK' /\ ListedWithin'
<1>1. /\ RequestsQueued /\ MarketOrders /\ ReportsSound /\ EntriesOK /\ ListedWithin /\ PendingExact
      /\ HoldingsBacked /\ ReservationsExact /\ CashConserved /\ PositionConserved
  BY DEF RiskInv
<1>2. /\ \A id : Sent(id)' <=> Sent(id)
      /\ \A id : Bid(id)' = Bid(id) /\ Ask(id)' = Ask(id) /\ JustBooked(id)' = JustBooked(id)
      /\ Unbooked' = Unbooked
  BY DEF Untouched, SameAccount, Sent, SentFor, IsOrder, Bid, Ask, JustBooked, Unbooked, report
<1>3. MarketOrders' /\ ReportsSound' /\ Queued(toMarket)'
  BY <1>1 DEF Untouched, MarketOrders, ReportsSound, SentFor, IsOrder, Unbooked, report, RequestsQueued, Queued
<1>4. /\ HeldBids' = HeldBids /\ CashReserved' = CashReserved /\ CashComing' = CashComing
      /\ \A s : UnitsReserved(s)' = UnitsReserved(s) /\ SharesComing(s)' = SharesComing(s)
      /\ \A id : SizeComing(id)' = SizeComing(id) /\ SizeSent(id)' = SizeSent(id)
  BY <1>2 DEF Untouched, SameAccount, HeldBids, CashReserved, CashComing, UnitsReserved, SharesComing,
              SizeComing, SizeSent, ProceedsOf, SharesIn
<1>5. PendingExact'
  BY <1>1, <1>2, <1>4 DEF Untouched, PendingExact, AtMarket
<1>6. HoldingsBacked' /\ ReservationsExact' /\ CashConserved' /\ PositionConserved'
  BY <1>1, <1>4 DEF Untouched, SameAccount, HoldingsBacked, ReservationsExact, CashConserved, PositionConserved
<1>7. waitingList' = waitingList => EntriesOK' /\ ListedWithin'
  BY <1>1, <1>2 DEF Untouched, SameAccount, EntriesOK, ListedWithin, Counted
<1> QED BY <1>2, <1>3, <1>5, <1>6, <1>7

\* The user submits a cancellation.
LEMMA SubmitCancelStep ==
    ASSUME RiskInv, NEW id \in 1..Len(orders), NEW q \in Sizes, SubmitCancel(id, q)
    PROVE  RiskInv'
<1> DEFINE m == Len(orderBuffer)
           new == [id |-> id, cancel |-> TRUE, size |-> q]
<1>0. /\ TypeOK /\ RequestsQueued /\ MarketOrders /\ ReportsSound /\ EntriesOK /\ ListedWithin
      /\ PendingExact /\ UnfinishedListed
  BY DEF RiskInv
<1>1. /\ orderBuffer' = Append(orderBuffer, new)
      /\ cancelled < MaxCancels /\ cancelled' = cancelled + 1
      /\ UNCHANGED <<step, usable, waitingList>>
      /\ Untouched /\ SameAccount
  BY DEF SubmitCancel, book, account, pending, market, Untouched, SameAccount
<1>2. /\ m \in Nat /\ DOMAIN orderBuffer = 1..m /\ DOMAIN orderBuffer' = 1..(m + 1)
      /\ orderBuffer'[m + 1] = new /\ \A i \in 1..m : orderBuffer'[i] = orderBuffer[i]
      /\ new \in Requests /\ orderBuffer' \in Seq(Requests) /\ orderBuffer' # <<>>
      /\ orderBuffer # <<>> => Head(orderBuffer') = Head(orderBuffer)
  <2>1. orderBuffer \in Seq(Requests) /\ new \in Requests
    BY <1>0, OrderTypes DEF TypeOK, Requests
  <2> HIDE DEF new
  <2> QED BY <1>1, <2>1
<1>3. new.id \in DOMAIN orders /\ new.cancel
  BY <1>0, OrderTypes
<1> HIDE DEF m, new
<1>4. TypeOK'
  <2>1. cancelled' \in 0..MaxCancels
    BY <1>0, <1>1, RiskAssumption DEF TypeOK
  <2> QED BY <1>0, <1>1, <1>2, <2>1 DEF TypeOK, Untouched, SameAccount
<1>5. \A i \in DOMAIN orderBuffer' : i \in 1..m \/ i = m + 1
  BY <1>2
<1>6. RequestsQueued'
  <2>1. Queued(orderBuffer)'
    BY <1>0, <1>1, <1>2, <1>3, <1>5 DEF RequestsQueued, Queued, Untouched
  <2>2. \A i \in Unsent' : ~Sent(orderBuffer'[i].id)
    BY <1>0, <1>1, <1>2, <1>3, <1>5 DEF RequestsQueued, Unsent
  <2>3. step' = "list" /\ ~request'.cancel => Sent(request'.id)
    BY <1>0, <1>1, <1>2 DEF RequestsQueued, request, TypeOK
  <2> QED BY <1>1, <2>1, <2>2, <2>3, SameOrders DEF RequestsQueued
<1>7. UnfinishedListed'
  <2>1. step = "list" => request' = request
    BY <1>0, <1>2 DEF TypeOK, request
  <2> QED BY <1>0, <1>1, <2>1 DEF UnfinishedListed, SameAccount
<1> QED BY <1>1, <1>4, <1>6, <1>7, SameOrders DEF RiskInv

--------------------------------------------------------------------------------
(* The order thread. *)

\* The order thread reads the usable buying power.
LEMMA ReadUsableStep ==
    ASSUME RiskInv, ReadUsable
    PROVE  RiskInv'
<1>0. TypeOK /\ RequestsQueued /\ UnfinishedListed
  BY DEF RiskInv
<1>1. /\ step = "read" /\ orderBuffer # <<>> /\ step' = "verify" /\ usable' = summary.buyingPower - shortCash
      /\ UNCHANGED <<cancelled, orderBuffer, waitingList>>
      /\ Untouched /\ SameAccount
  BY DEF ReadUsable, order, book, account, pending, market, Untouched, SameAccount
<1>2. TypeOK'
  BY SMTT(60), <1>0, <1>1 DEF TypeOK, Untouched, SameAccount
<1>3. RequestsQueued'
  BY <1>0, <1>1, SameOrders DEF RequestsQueued, Unsent, Untouched, Queued
<1>4. UnfinishedListed'
  BY <1>0, <1>1 DEF UnfinishedListed, SameAccount
<1> QED BY <1>1, <1>2, <1>3, <1>4, SameOrders DEF RiskInv

\* The order thread pops its request: what is queued behind it keeps its order.
LEMMA RequestDone ==
    ASSUME RiskInv, step # "read", Untouched, SameAccount, orderBuffer' = Tail(orderBuffer), step' = "read"
    PROVE  RequestsQueued' /\ orderBuffer' \in Seq(Requests)
<1> DEFINE m == Len(orderBuffer)
<1>0. TypeOK /\ RequestsQueued
  BY DEF RiskInv
<1>1. /\ m \in Nat /\ DOMAIN orderBuffer = 1..m /\ DOMAIN orderBuffer' = 1..(m - 1)
      /\ \A i \in 1..(m - 1) : orderBuffer'[i] = orderBuffer[i + 1] /\ i + 1 \in 1..m /\ i + 1 # 1
      /\ orderBuffer' \in Seq(Requests)
  BY <1>0 DEF TypeOK
<1> HIDE DEF m
<1>2. Queued(orderBuffer)'
  <2>1. orders' = orders
    BY DEF Untouched
  <2>2. \A i, j \in 1..(m - 1) : i + 1 = j + 1 => i = j
    BY <1>1
  <2> QED BY <1>0, <1>1, <2>1, <2>2 DEF RequestsQueued, Queued
<1>3. \A i \in Unsent' : i + 1 \in Unsent /\ orderBuffer'[i] = orderBuffer[i + 1]
  BY <1>1 DEF Unsent
<1>4. \A i \in Unsent' : ~Sent(orderBuffer'[i].id)
  BY <1>0, <1>3 DEF RequestsQueued
<1> QED BY <1>1, <1>2, <1>4, SameOrders DEF RequestsQueued

\* The order thread rejects its request.
LEMMA RejectOrderStep ==
    ASSUME RiskInv, step = "verify", NEW price, RejectOrder(price)
    PROVE  RiskInv'
<1>0. TypeOK /\ UnfinishedListed
  BY DEF RiskInv
<1>1. /\ orderBuffer' = Tail(orderBuffer) /\ step' = "read" /\ usable' = 0
      /\ UNCHANGED <<cancelled, waitingList>>
      /\ Untouched /\ SameAccount
  BY DEF RejectOrder, order, book, account, pending, market, Untouched, SameAccount
<1>2. RequestsQueued' /\ orderBuffer' \in Seq(Requests)
  BY <1>1, RequestDone
<1>3. TypeOK'
  BY <1>0, <1>1, <1>2 DEF TypeOK, Untouched, SameAccount
<1>4. UnfinishedListed'
  BY <1>0, <1>1 DEF UnfinishedListed, SameAccount
<1> QED BY <1>1, <1>2, <1>3, <1>4, SameOrders DEF RiskInv

\* The request the order thread is at.
LEMMA FirstRequest ==
    ASSUME RiskInv, step # "read"
    PROVE  /\ orderBuffer # <<>> /\ 1 \in DOMAIN orderBuffer /\ request = orderBuffer[1]
           /\ request \in Requests /\ request.id \in DOMAIN orders
           /\ request.id \in 1..MaxOrders /\ request.cancel \in BOOLEAN
           /\ ~request.cancel => request.size = ordered.size
           /\ step = "verify" /\ ~request.cancel => ~Sent(request.id)
<1>1. orderBuffer \in Seq(Requests) /\ orderBuffer # <<>>
  BY DEF RiskInv, TypeOK
<1>2. 1 \in DOMAIN orderBuffer /\ request = orderBuffer[1] /\ request \in Requests
  BY <1>1 DEF request
<1>3. request.id \in DOMAIN orders /\ (~request.cancel => request.size = ordered.size)
  BY <1>2 DEF RiskInv, RequestsQueued, Queued, ordered
<1>4. step = "verify" /\ ~request.cancel => ~Sent(request.id)
  BY <1>2 DEF RiskInv, RequestsQueued, Unsent
<1>5. request.id \in 1..MaxOrders /\ request.cancel \in BOOLEAN
  BY <1>2 DEF Requests
<1> QED BY <1>1, <1>2, <1>3, <1>4, <1>5

\* The order thread puts the order it has sent on the waiting list and pops it.
LEMMA ListOrderStep ==
    ASSUME RiskInv, ListOrder
    PROVE  RiskInv'
<1> DEFINE id == request.id
           entry == [side |-> ordered.side, price |-> ordered.price, size |-> ordered.size,
                     executed |-> 0, status |-> "PENDING_NEW"]
<1>0. TypeOK /\ RequestsQueued /\ EntriesOK /\ ListedWithin /\ UnfinishedListed
  BY DEF RiskInv
<1>1. /\ waitingList' = IF request.cancel THEN waitingList ELSE With(waitingList, id, entry)
      /\ orderBuffer' = Tail(orderBuffer) /\ step = "list" /\ step' = "read"
      /\ UNCHANGED <<cancelled, usable>>
      /\ Untouched /\ SameAccount
  BY DEF ListOrder, order, account, pending, market, Untouched, SameAccount
<1>2. RequestsQueued' /\ orderBuffer' \in Seq(Requests)
  BY <1>1, RequestDone
<1>3. /\ id \in DOMAIN orders /\ entry \in Listing /\ entry.size = orders[id].size
      /\ entry.executed = 0 /\ entry.status \in Statuses
  BY <1>0, <1>1, FirstRequest, OrderTypes DEF Listing, Statuses, ordered
<1>4. ~request.cancel => Sent(id)
  BY <1>0, <1>1 DEF RequestsQueued
<1>5. CASE request.cancel
  <2>1. waitingList' = waitingList
    BY <1>1, <1>5
  <2>2. TypeOK'
    BY <1>0, <1>1, <1>2, <2>1 DEF TypeOK, Untouched, SameAccount
  <2>3. UnfinishedListed'
    BY <1>0, <1>1, <1>5, <2>1 DEF UnfinishedListed, SameAccount
  <2> QED BY <1>1, <1>2, <2>1, <2>2, <2>3, SameOrders DEF RiskInv
<1>6. CASE ~request.cancel
  <2> DEFINE D == DOMAIN waitingList
  <2> HIDE DEF entry, id
  <2>1. /\ waitingList' \in [D \cup {id} -> Listing] /\ waitingList'[id] = entry
        /\ \A x \in D \ {id} : waitingList'[x] = waitingList[x]
    BY <1>0, <1>1, <1>3, <1>6 DEF With, EntriesOK
  <2>2. DOMAIN waitingList' = D \cup {id} /\ \A x \in D \cup {id} : x = id \/ x \in D \ {id}
    BY <2>1
  <2>3. TypeOK'
    <3>1. DOMAIN waitingList' \subseteq 1..Len(orders)
      BY <1>0, <1>3, <2>2, OrderTypes DEF TypeOK
    <3>2. \A x \in DOMAIN waitingList' : waitingList'[x].status \in Statuses
      BY <2>1, <2>2 DEF Listing
    <3> QED BY <1>0, <1>1, <1>2, <3>1, <3>2 DEF TypeOK, Untouched, SameAccount
  <2>4. EntriesOK'
    BY <1>0, <1>1, <1>3, <1>4, <1>6, <2>1, <2>2, SameOrders DEF EntriesOK, Untouched, SameAccount
  <2>5. ListedWithin'
    <3>1. \A x \in DOMAIN orders : Counted(x)' <= Counted(x) /\ Counted(x)' \in Nat /\ Counted(x) \in Nat
      <4>1. \A x \in D : waitingList[x].executed \in Nat
        BY <1>0 DEF EntriesOK, Listing
      <4> QED BY <1>3, <2>1, <2>2, <4>1 DEF Counted
    <3>2. \A x \in DOMAIN orders :
             /\ Bid(x).size \in Nat /\ Ask(x).size \in Nat /\ JustBooked(x) \in Nat /\ orders[x].size \in Nat
      BY <1>0, PendingTypes, OrderTypes, FirstReport DEF JustBooked, TypeOK, RiskInv
    <3> QED BY SMTT(60), <1>0, <1>1, <3>1, <3>2, SameOrders DEF ListedWithin, Untouched
  <2>6. UnfinishedListed'
    BY <1>0, <1>1, <2>2 DEF UnfinishedListed, SameAccount, id
  <2> QED BY <1>1, <1>2, <2>3, <2>4, <2>5, <2>6, SameOrders DEF RiskInv
<1> QED BY <1>5, <1>6

--------------------------------------------------------------------------------
(* The order thread sends an order or a cancellation. *)

\* What a sent request does to the queues, and what the step that sends it changes.
SendEffect ==
    /\ RequestsQueued' /\ MarketOrders' /\ ReportsSound'
    /\ toMarket' \in Seq(Requests)
    /\ \A id : Sent(id)' <=> (Sent(id) \/ (~request.cancel /\ id = request.id))
    /\ \A id : SumFunction(SizeSent(id)') = SumFunction(SizeSent(id)) + SizeFor(request, id)
    /\ \A id : JustBooked(id)' = JustBooked(id)
    /\ CashComing' = CashComing
    /\ \A s : SharesComing(s)' = SharesComing(s)
    /\ \A id : SizeComing(id)' = SizeComing(id)

SendChanges ==
    /\ step = "verify"
    /\ toMarket' = Append(toMarket, request) /\ step' = "list" /\ usable' = 0
    /\ UNCHANGED <<orders, cancelled, orderBuffer, execRptBuffer, booked, items, waitingList>>
    /\ UNCHANGED <<confirming, cancels, open, traded>>

\* A request is sent: the queues and what is on its way afterwards.
LEMMA SendStep ==
    ASSUME RiskInv, SendChanges, request.cancel => Sent(request.id)
    PROVE  SendEffect
<1> DEFINE n == Len(toMarket)
           id == request.id
<1>0. TypeOK /\ RequestsQueued /\ MarketOrders /\ ReportsSound /\ toMarket \in Seq(Requests)
  BY DEF RiskInv, TypeOK
<1>1. /\ orderBuffer # <<>> /\ 1 \in DOMAIN orderBuffer /\ request = orderBuffer[1]
      /\ request \in Requests /\ id \in DOMAIN orders /\ request.cancel \in BOOLEAN
      /\ ~request.cancel => request.size = orders[id].size /\ ~Sent(id)
  BY FirstRequest DEF SendChanges, ordered
<1>2. /\ n \in Nat /\ DOMAIN toMarket = 1..n /\ DOMAIN toMarket' = 1..(n + 1) /\ n + 1 \notin 1..n
      /\ toMarket'[n + 1] = request /\ \A k \in 1..n : toMarket'[k] = toMarket[k] /\ k \in 1..(n + 1)
      /\ toMarket' \in Seq(Requests)
      /\ \A k \in DOMAIN toMarket' : k \in 1..n \/ k = n + 1
  BY <1>0, <1>1 DEF SendChanges
<1> HIDE DEF n
<1>3. request' = request /\ Unbooked' = Unbooked
  BY DEF SendChanges, request, Unbooked
<1>4. \A x : Sent(x)' <=> (Sent(x) \/ (~request.cancel /\ x = id))
  BY <1>2 DEF Sent, SentFor, IsOrder, SendChanges
<1>5. RequestsQueued'
  <2>1. Queued(orderBuffer)'
    BY <1>0 DEF RequestsQueued, Queued, SendChanges
  <2>2. Queued(toMarket)'
    <3>1. \A k \in 1..n : ~toMarket[k].cancel /\ ~request.cancel => toMarket[k].id # id
      BY <1>1, <1>2 DEF Sent, SentFor, IsOrder
    <3> QED BY <1>0, <1>1, <1>2, <3>1 DEF RequestsQueued, Queued, SendChanges
  <2>3. \A i \in Unsent' : \A x : x = orderBuffer[i].id => ~Sent(x)'
    <3> SUFFICES ASSUME NEW i \in Unsent', NEW x, x = orderBuffer[i].id PROVE ~Sent(x)'
      OBVIOUS
    <3>1. i \in DOMAIN orderBuffer /\ i # 1 /\ ~orderBuffer[i].cancel /\ i \in Unsent
      BY DEF Unsent, SendChanges
    <3>2. ~Sent(x)
      BY <1>0, <3>1 DEF RequestsQueued
    <3>3. ~request.cancel => x # id
      BY <1>0, <1>1, <3>1 DEF RequestsQueued, Queued
    <3> QED BY <1>4, <3>2, <3>3
  <2>4. ~request.cancel => \A x : x = id => Sent(x)'
    BY <1>4
  <2>5. orderBuffer' = orderBuffer
    BY DEF SendChanges
  <2> QED BY <1>3, <2>1, <2>2, <2>3, <2>4, <2>5 DEF RequestsQueued
<1>6. MarketOrders'
  <2>1. ~request.cancel => id \notin DOMAIN open
    BY <1>1 DEF Sent
  <2>2. request.cancel => id \in DOMAIN open \/ \E j \in 1..n : SentFor(id, j)
    BY <1>2 DEF Sent
  <2>3. \A x, k : k \in 1..n => (SentFor(x, k)' <=> SentFor(x, k))
    BY <1>2 DEF SentFor, IsOrder
  <2>4. \A k \in DOMAIN toMarket' : ~toMarket'[k].cancel => toMarket'[k].id \notin DOMAIN open'
    BY <1>0, <1>2, <2>1 DEF MarketOrders, SendChanges
  <2>5. ASSUME NEW k \in DOMAIN toMarket', toMarket'[k].cancel, NEW x, x = toMarket'[k].id,
               x \notin DOMAIN open
        PROVE  \E j \in 1..(k - 1) : SentFor(x, j)'
    <3>1. CASE k = n + 1
      <4>1. PICK j \in 1..n : SentFor(x, j)
        BY <1>2, <2>2, <2>5, <3>1
      <4>2. j \in 1..(k - 1)
        BY <1>2, <3>1
      <4> QED BY <2>3, <4>1, <4>2
    <3>2. CASE k \in 1..n
      <4>1. PICK j \in 1..(k - 1) : SentFor(x, j)
        BY <1>0, <1>2, <2>5, <3>2 DEF MarketOrders
      <4>2. j \in 1..n
        BY <1>2, <3>2
      <4> QED BY <2>3, <4>1, <4>2
    <3> QED BY <1>2, <3>1, <3>2
  <2>6. \A k \in DOMAIN toMarket' : toMarket'[k].cancel =>
           \A x : x = toMarket'[k].id => x \in DOMAIN open' \/ \E j \in 1..(k - 1) : SentFor(x, j)'
    BY <2>5 DEF SendChanges
  <2>7. confirming' = confirming /\ cancels' = cancels /\ open' = open
    BY DEF SendChanges
  <2> QED BY <1>0, <2>4, <2>6, <2>7 DEF MarketOrders
<1>7. ReportsSound'
  BY <1>0, <1>3 DEF ReportsSound, SendChanges, report
<1>8. \A x : SumFunction(SizeSent(x)') = SumFunction(SizeSent(x)) + SizeFor(request, x)
  BY <1>0, <1>1, MessageSent DEF SendChanges
<1>9. /\ \A x : JustBooked(x)' = JustBooked(x)
      /\ CashComing' = CashComing
      /\ \A s : SharesComing(s)' = SharesComing(s)
      /\ \A x : SizeComing(x)' = SizeComing(x)
  BY <1>3 DEF JustBooked, CashComing, SharesComing, SizeComing, ProceedsOf, SharesIn, SendChanges, report
<1> QED BY <1>2, <1>4, <1>5, <1>6, <1>7, <1>8, <1>9 DEF SendEffect
\* The order thread sends a cancellation.
LEMMA SendCancelStep ==
    ASSUME RiskInv, step = "verify", SendCancel
    PROVE  RiskInv'
<1>0. /\ TypeOK /\ EntriesOK /\ ListedWithin /\ UnfinishedListed /\ PendingExact /\ ReportsSound
      /\ HoldingsBacked /\ ReservationsExact /\ CashConserved /\ PositionConserved
  BY DEF RiskInv
<1>1. request.cancel /\ request.id \in DOMAIN waitingList
  BY DEF SendCancel, Cancellable
<1>2. SendChanges /\ SameAccount
  BY DEF SendCancel, Send, SendChanges, SameAccount, order, pending
<1>3. SendEffect
  BY <1>0, <1>1, <1>2, SendStep DEF EntriesOK
<1>4. TypeOK'
  BY SMTT(60), <1>0, <1>2, <1>3, FirstRequest DEF TypeOK, SendChanges, SameAccount, SendEffect
<1>5. /\ \A id : Sent(id)' <=> Sent(id)
      /\ \A id : Bid(id)' = Bid(id) /\ Ask(id)' = Ask(id)
      /\ \A id : SumFunction(SizeSent(id)') = SumFunction(SizeSent(id))
  <2>1. \A id : SizeFor(request, id) = 0 /\ SumFunction(SizeSent(id)) \in Int
    BY <1>0, <1>1, SumValues, ReportsOfOrders DEF SizeFor
  <2> QED BY <1>1, <1>2, <1>3, <2>1 DEF SendEffect, SameAccount, Bid, Ask
<1>6. EntriesOK'
  BY <1>0, <1>2, <1>5 DEF EntriesOK, SendChanges, SameAccount
<1>7. ListedWithin'
  BY <1>0, <1>2, <1>3, <1>5 DEF ListedWithin, SendChanges, SendEffect, Counted
<1>8. UnfinishedListed'
  BY <1>0, <1>2 DEF UnfinishedListed, SendChanges, SameAccount
<1>9. /\ HeldBids' = HeldBids /\ CashReserved' = CashReserved
      /\ \A s : UnitsReserved(s)' = UnitsReserved(s)
  BY <1>2 DEF HeldBids, CashReserved, UnitsReserved, SendChanges, SameAccount
<1>10. HoldingsBacked' /\ ReservationsExact' /\ CashConserved' /\ PositionConserved'
  BY <1>0, <1>2, <1>3, <1>9 DEF HoldingsBacked, ReservationsExact, CashConserved, PositionConserved,
       SendChanges, SendEffect, SameAccount
<1>11. PendingExact'
  BY <1>0, <1>2, <1>3, <1>5 DEF PendingExact, AtMarket, SendChanges, SendEffect
<1> QED BY <1>3, <1>4, <1>6, <1>7, <1>8, <1>10, <1>11 DEF RiskInv, SendEffect

\* What is the same of SendBid and SendAsk: an order that nothing named becomes pending.
LEMMA SendOrderStep ==
    ASSUME RiskInv, SendChanges, SendEffect, ~request.cancel, NEW id, id = request.id,
           EntriesOK',
           Bid(id)'.size + Ask(id)'.size = orders[id].size,
           \A x : x # id => Bid(x)' = Bid(x) /\ Ask(x)' = Ask(x),
           DOMAIN pendingBids' \cup DOMAIN pendingAsks'
             = DOMAIN pendingBids \cup DOMAIN pendingAsks \cup {id}
    PROVE  /\ ListedWithin' /\ UnfinishedListed' /\ PendingExact'
           /\ id \in DOMAIN orders /\ id \notin DOMAIN pendingBids /\ id \notin DOMAIN pendingAsks
<1>0. /\ TypeOK /\ EntriesOK /\ ListedWithin /\ UnfinishedListed /\ PendingExact /\ ReportsSound
  BY DEF RiskInv
<1>1. id \in DOMAIN orders /\ ~Sent(id) /\ request.size = orders[id].size
  BY FirstRequest DEF SendChanges, ordered
<1>2. /\ id \notin DOMAIN pendingBids /\ id \notin DOMAIN pendingAsks
      /\ id \notin DOMAIN waitingList /\ id \notin DOMAIN open
      /\ Bid(id).size = 0 /\ Ask(id).size = 0
  BY <1>0, <1>1 DEF EntriesOK, Sent, Bid, Ask
<1>3. ListedWithin'
  <2>1. Counted(id)' = 0 /\ JustBooked(id)' = 0 /\ \A x : Counted(x)' = Counted(x)
    <3>1. JustBooked(id) = 0
      BY <1>0, <1>2, FirstReport DEF JustBooked, TypeOK
    <3> QED BY <1>2, <3>1 DEF Counted, SendChanges, SendEffect
  <2>2. orders[id].size \in Nat
    BY <1>0, <1>1, OrderTypes
  <2>3. orders' = orders /\ \A x : JustBooked(x)' = JustBooked(x)
    BY DEF SendChanges, SendEffect
  <2>4. ASSUME NEW x \in DOMAIN orders
        PROVE  (Counted(x) + Bid(x).size + Ask(x).size + JustBooked(x) <= orders[x].size)'
    <3>1. CASE x = id
      <4>1. Bid(id)'.size \in Int /\ Ask(id)'.size \in Int
        BY PriceTypes DEF EntriesOK, Bid, Ask, Bids, Asks
      <4> QED BY <2>1, <2>2, <2>3, <3>1, <4>1
    <3>2. CASE x # id
      <4>1. Counted(x) + Bid(x).size + Ask(x).size + JustBooked(x) <= orders[x].size
        BY <1>0 DEF ListedWithin
      <4> QED BY <2>1, <2>3, <3>2, <4>1
    <3> QED BY <3>1, <3>2
  <2> QED BY <2>3, <2>4 DEF ListedWithin
<1>4. UnfinishedListed'
  BY <1>0 DEF UnfinishedListed, SendChanges, request
<1>5. PendingExact'
  <2>1. \A x : /\ SumFunction(SizeComing(x)') = SumFunction(SizeComing(x))
               /\ SumFunction(SizeSent(x)') = SumFunction(SizeSent(x)) + SizeFor(request, x)
               /\ SumFunction(SizeComing(x)) \in Int /\ SumFunction(SizeSent(x)) \in Int
    BY <1>0, SumValues, ReportsOfOrders DEF SendEffect
  <2>2. \A x : x # id => SizeFor(request, x) = 0
    BY DEF SizeFor
  <2>3. SizeFor(request, id) = orders[id].size /\ orders[id].size \in Int
    BY <1>0, <1>1, OrderTypes DEF SizeFor
  <2>4. open' = open /\ orders' = orders
    BY DEF SendChanges
  <2>5. ASSUME NEW x \in DOMAIN orders PROVE (Bid(x).size + Ask(x).size = AtMarket(x) + SumFunction(SizeComing(x)))'
    <3>1. CASE x = id
      <4>1. SumFunction(SizeSent(id)) + SumFunction(SizeComing(id)) = 0
        BY <1>0, <1>1, <1>2 DEF PendingExact, AtMarket
      <4> QED BY <1>2, <2>1, <2>3, <2>4, <3>1, <4>1 DEF AtMarket
    <3>2. CASE x # id
      BY <1>0, <2>1, <2>2, <2>4, <3>2 DEF PendingExact, AtMarket
    <3> QED BY <3>1, <3>2
  <2> QED BY <2>4, <2>5 DEF PendingExact
<1> QED BY <1>1, <1>2, <1>3, <1>4, <1>5

\* The order thread holds the price of a buy order and sends it.
LEMMA SendBidStep ==
    ASSUME RiskInv, step = "verify", NEW price \in Valuations(ordered), SendBid(price)
    PROVE  RiskInv'
<1> SUFFICES ASSUME NEW id, id = request.id,
                    NEW bid, bid = [price |-> price, size |-> ordered.size],
                    NEW held, held = price * ordered.size * Lot
             PROVE  RiskInv'
  OBVIOUS
<1>0. /\ TypeOK /\ EntriesOK /\ ReportsSound /\ RequestsQueued
      /\ HoldingsBacked /\ ReservationsExact /\ CashConserved /\ PositionConserved
  BY DEF RiskInv
<1>1. /\ SendChanges /\ ~request.cancel /\ ordered.side = "buy" /\ price # 0
      /\ summary' = HoldBalance(summary, held)
      /\ pendingBids' = With(pendingBids, id, bid)
      /\ UNCHANGED <<pendingAsks, shortCash, shortUnits>>
  BY DEF SendBid, Send, SendChanges, order
<1>2. SendEffect
  BY <1>1, SendStep
<1>3. /\ id \in DOMAIN orders /\ ordered = orders[id] /\ ~Sent(id)
      /\ ordered.size \in Nat /\ ordered.size # 0
      /\ ordered.price \in Prices \cup {0}
  BY <1>0, <1>1, FirstRequest, OrderTypes DEF ordered
<1>4. price \in Prices /\ price \in Nat
  BY <1>1, <1>3, PriceTypes DEF Valuations
<1>5. bid \in Bids /\ bid.price = price /\ bid.size = ordered.size
  BY <1>3, <1>4 DEF Bids
<1>6. held \in Int
  BY <1>3, <1>4 DEF Lot
<1> DEFINE D == DOMAIN pendingBids
<1>7. /\ pendingBids' \in [D \cup {id} -> Bids] /\ SameBut(pendingBids, pendingBids', id)
      /\ pendingBids'[id] = bid /\ id \notin D
  <2>1. pendingBids \in [D -> Bids] /\ id \notin D
    BY <1>0, <1>3 DEF EntriesOK
  <2> QED BY <1>1, <1>5, <2>1 DEF With, SameBut
<1>8. DOMAIN pendingBids' = D \cup {id} /\ pendingBids' \in [DOMAIN pendingBids' -> Bids]
  BY <1>7
<1>9. EntriesOK'
  <2>1. \A x \in D \cup {id} : orders[x].side = "buy" /\ Sent(x)'
    BY <1>0, <1>1, <1>2, <1>3 DEF EntriesOK, SendEffect
  <2>2. \A x \in DOMAIN pendingAsks \cup DOMAIN waitingList : Sent(x)'
    BY <1>0, <1>2 DEF EntriesOK, SendEffect
  <2> QED BY <1>0, <1>1, <1>8, <2>1, <2>2 DEF EntriesOK, SendChanges
<1>10. /\ Bid(id)' = bid /\ Ask(id)' = Ask(id) /\ Ask(id).size = 0 /\ HeldOf(Bid(id)) = 0
       /\ \A x : x # id => Bid(x)' = Bid(x) /\ Ask(x)' = Ask(x)
  <2>1. id \notin DOMAIN pendingAsks
    BY <1>0, <1>3 DEF EntriesOK
  <2> QED BY <1>1, <1>7, <1>8, <2>1 DEF Bid, Ask, SameBut, HeldOf, Lot
<1>11. ListedWithin' /\ UnfinishedListed' /\ PendingExact'
  <2>1. Bid(id)'.size + Ask(id)'.size = orders[id].size
    BY <1>3, <1>5, <1>10
  <2>2. DOMAIN pendingBids' \cup DOMAIN pendingAsks' = DOMAIN pendingBids \cup DOMAIN pendingAsks \cup {id}
    BY <1>1, <1>8
  <2> QED BY <1>1, <1>2, <1>9, <1>10, <2>1, <2>2, SendOrderStep
<1>12. summary' = [buyingPower |-> summary.buyingPower - held, holding |-> summary.holding + held,
                   borrowed |-> summary.borrowed]
  BY <1>0, <1>1 DEF HoldBalance, TypeOK
<1>13. TypeOK'
  <2>1. summary' \in [buyingPower: Int, holding: Int, borrowed: Int]
    BY SMTT(60), <1>0, <1>6, <1>12 DEF TypeOK
  <2>2. DOMAIN pendingBids' \cup DOMAIN pendingAsks' \subseteq 1..Len(orders)
    BY <1>0, <1>1, <1>3, <1>8, OrderTypes DEF TypeOK
  <2>3. step' # "read" => orderBuffer' # <<>>
    BY <1>1, FirstRequest DEF SendChanges
  <2>4. toMarket' \in Seq(Requests) /\ usable' \in Int /\ step' \in {"read", "verify", "list"}
    BY <1>1, <1>2 DEF SendChanges, SendEffect
  <2>5. /\ UNCHANGED <<orders, cancelled, orderBuffer, execRptBuffer, booked, items, waitingList>>
        /\ UNCHANGED <<confirming, cancels, open, traded, shortCash, shortUnits>>
    BY <1>1 DEF SendChanges
  <2> QED BY <1>0, <2>1, <2>2, <2>3, <2>4, <2>5 DEF TypeOK
<1>14. HoldingsBacked'
  <2>1. SumFunction(HeldBids') = SumFunction(HeldBids) - HeldOf(Bid(id)) + HeldOf(Bid(id)')
    BY <1>0, <1>7, <1>8, BidsChanged
  <2>2. HeldOf(Bid(id)') = held
    BY <1>5, <1>10 DEF HeldOf
  <2>3. SumFunction(HeldBids) = summary.holding /\ summary.holding \in Int
    BY <1>0 DEF HoldingsBacked, TypeOK
  <2> QED BY <1>6, <1>10, <1>12, <2>1, <2>2, <2>3 DEF HoldingsBacked
<1>15. ReservationsExact'
  <2>1. CashReserved' = CashReserved /\ \A s : UnitsReserved(s)' = UnitsReserved(s)
    BY <1>1 DEF CashReserved, UnitsReserved, SendChanges
  <2> QED BY <1>0, <1>1, <2>1 DEF ReservationsExact, SendChanges
<1>16. CashConserved' /\ PositionConserved'
  <2>1. /\ summary.buyingPower \in Int /\ summary.holding \in Int /\ summary.borrowed \in Int
        /\ SumFunction(CashComing) \in Int
    BY <1>0, SumValues, ReportsOfOrders DEF TypeOK
  <2>2. /\ CashComing' = CashComing /\ \A s : SharesComing(s)' = SharesComing(s)
        /\ UNCHANGED <<items, traded>>
    BY <1>1, <1>2 DEF SendEffect, SendChanges
  <2>3. /\ summary'.borrowed = summary.borrowed
        /\ summary'.buyingPower + summary'.holding = summary.buyingPower + summary.holding
    BY <1>6, <1>12, <2>1
  <2>4. summary'.buyingPower + summary'.holding + 2 * summary'.borrowed + SumFunction(CashComing')
          = summary.buyingPower + summary.holding + 2 * summary.borrowed + SumFunction(CashComing)
    BY <2>2, <2>3
  <2> QED BY <1>0, <2>2, <2>3, <2>4 DEF CashConserved, PositionConserved
<1> QED BY <1>2, <1>9, <1>11, <1>13, <1>14, <1>15, <1>16 DEF RiskInv, SendEffect

\* The order thread reserves the shares and the cash for a sell order and sends it.
LEMMA SendAskStep ==
    ASSUME RiskInv, step = "verify", NEW price \in Valuations(ordered), SendAsk(price)
    PROVE  RiskInv'
<1> SUFFICES ASSUME NEW id, id = request.id,
                    NEW symbol, symbol = ordered.symbol,
                    NEW size, size = ordered.size,
                    NEW short, short = Max({ShortShares(ordered), 0}),
                    NEW reserved, reserved = size * Lot - short,
                    NEW ask, ask = [price |-> price, size |-> size, reserved |-> reserved]
             PROVE  RiskInv'
  OBVIOUS
<1> DEFINE D == DOMAIN pendingAsks
<1>0. /\ TypeOK /\ EntriesOK /\ ReportsSound /\ RequestsQueued
      /\ HoldingsBacked /\ ReservationsExact /\ CashConserved /\ PositionConserved
  BY DEF RiskInv
<1>1. /\ SendChanges /\ ~request.cancel /\ ordered.side = "sell" /\ price # 0
      /\ UNCHANGED <<summary, pendingBids>>
  BY DEF SendAsk, Send, SendChanges, order
<1>2. /\ shortCash' = shortCash + price * short
      /\ shortUnits' = [shortUnits EXCEPT ![symbol] = @ + reserved]
      /\ pendingAsks' = With(pendingAsks, id, ask)
  BY DEF SendAsk
<1>3. SendEffect
  BY <1>1, SendStep
<1>4. /\ UNCHANGED <<orders, cancelled, orderBuffer, execRptBuffer, booked, items, waitingList>>
      /\ UNCHANGED <<confirming, cancels, open, traded, summary, pendingBids>>
  BY <1>1 DEF SendChanges
<1>5. /\ id \in DOMAIN orders /\ ordered = orders[id] /\ ~Sent(id)
      /\ size \in Nat /\ size # 0 /\ symbol \in Symbols
      /\ ordered.price \in Prices \cup {0}
  BY <1>0, <1>1, FirstRequest, OrderTypes DEF ordered
<1>6. price \in Prices /\ price \in Nat
  BY <1>1, <1>5, PriceTypes DEF Valuations
<1>7. /\ short \in Nat /\ reserved \in 0..size * Lot /\ size * Lot \in Nat
      /\ shortUnits[symbol] + reserved <= items[symbol].long
      /\ shortUnits[symbol] \in Int /\ items[symbol].long \in Int
  <2> DEFINE available == AvailableShares(symbol)
  <2>1. shortUnits[symbol] \in Int /\ items[symbol].long \in Int
    BY <1>0, <1>5 DEF TypeOK
  <2>2. shortUnits[symbol] <= items[symbol].long
    BY <1>0, <1>5 DEF ReservationsExact
  <2>3. available \in Nat /\ available = items[symbol].long - shortUnits[symbol]
    BY <2>1, <2>2 DEF AvailableShares
  <2>4. size * Lot \in Nat
    BY <1>5 DEF Lot
  <2>5. ShortShares(ordered) = size * Lot - available
    BY DEF ShortShares
  <2> HIDE DEF available
  <2>6. short = IF size * Lot - available >= 0 THEN size * Lot - available ELSE 0
    BY <2>3, <2>4, <2>5, MaxTwo
  <2> QED BY <2>1, <2>3, <2>4, <2>6
<1>8. /\ ask \in Asks /\ ask.price = price /\ ask.size = size /\ ask.reserved = reserved
      /\ reserved \in Int
  BY <1>5, <1>6, <1>7 DEF Asks
<1>9. /\ pendingAsks' \in [D \cup {id} -> Asks] /\ SameBut(pendingAsks, pendingAsks', id)
      /\ pendingAsks'[id] = ask /\ id \notin D
  <2>1. pendingAsks \in [D -> Asks] /\ id \notin D
    BY <1>0, <1>5 DEF EntriesOK
  <2> QED BY <1>2, <1>8, <2>1 DEF With, SameBut
<1>10. DOMAIN pendingAsks' = D \cup {id} /\ pendingAsks' \in [DOMAIN pendingAsks' -> Asks]
  BY <1>9
<1>11. EntriesOK'
  <2>1. \A x \in D \cup {id} : orders[x].side = "sell" /\ Sent(x)'
    BY <1>0, <1>1, <1>3, <1>5 DEF EntriesOK, SendEffect
  <2>2. \A x \in DOMAIN pendingBids \cup DOMAIN waitingList : Sent(x)'
    BY <1>0, <1>3 DEF EntriesOK, SendEffect
  <2> QED BY <1>0, <1>4, <1>10, <2>1, <2>2 DEF EntriesOK
<1>12. /\ Ask(id)' = ask /\ Bid(id)' = Bid(id) /\ Bid(id).size = 0
       /\ CashOf(Ask(id)) = 0 /\ \A s : UnitsOf(id, Ask(id), s) = 0
       /\ \A x : x # id => Bid(x)' = Bid(x) /\ Ask(x)' = Ask(x)
  <2>1. id \notin DOMAIN pendingBids
    BY <1>0, <1>5 DEF EntriesOK
  <2> QED BY <1>4, <1>9, <1>10, <2>1 DEF Bid, Ask, SameBut, CashOf, UnitsOf, Lot
<1>13. ListedWithin' /\ UnfinishedListed' /\ PendingExact'
  <2>1. Bid(id)'.size + Ask(id)'.size = orders[id].size
    BY <1>5, <1>8, <1>12
  <2>2. DOMAIN pendingBids' \cup DOMAIN pendingAsks' = DOMAIN pendingBids \cup DOMAIN pendingAsks \cup {id}
    BY <1>4, <1>10
  <2> QED BY <1>1, <1>3, <1>11, <1>12, <2>1, <2>2, SendOrderStep
<1>14. /\ shortCash' \in Int /\ price * short \in Int /\ shortCash \in Int
       /\ shortUnits' \in [Symbols -> Int]
       /\ shortUnits'[symbol] = shortUnits[symbol] + reserved
       /\ \A s \in Symbols : s # symbol => shortUnits'[s] = shortUnits[s]
  <2>1. shortCash \in Int /\ shortUnits \in [Symbols -> Int]
    BY <1>0 DEF TypeOK
  <2>2. price * short \in Int
    BY <1>6, <1>7
  <2>3. shortUnits[symbol] + reserved \in Int
    BY <1>7, <1>8
  <2> QED BY <1>2, <1>5, <2>1, <2>2, <2>3
<1>15. TypeOK'
  <2>1. DOMAIN pendingBids' \cup DOMAIN pendingAsks' \subseteq 1..Len(orders)
    BY <1>0, <1>4, <1>5, <1>10, OrderTypes DEF TypeOK
  <2>2. step' # "read" => orderBuffer' # <<>>
    BY <1>1, FirstRequest DEF SendChanges
  <2>3. toMarket' \in Seq(Requests) /\ usable' \in Int /\ step' \in {"read", "verify", "list"}
    BY <1>1, <1>3 DEF SendChanges, SendEffect
  <2> QED BY <1>0, <1>4, <1>14, <2>1, <2>2, <2>3 DEF TypeOK
<1>16. HoldingsBacked'
  <2>1. HeldBids' = HeldBids
    BY <1>4 DEF HeldBids
  <2> QED BY <1>0, <1>4, <2>1 DEF HoldingsBacked
<1>17. ReservationsExact'
  <2>1. /\ SumFunction(CashReserved') = SumFunction(CashReserved) - CashOf(Ask(id)) + CashOf(Ask(id)')
        /\ \A s : SumFunction(UnitsReserved(s)')
                    = SumFunction(UnitsReserved(s)) - UnitsOf(id, Ask(id), s) + UnitsOf(id, Ask(id)', s)
    BY <1>0, <1>4, <1>9, <1>10, AsksChanged
  <2>2. CashOf(Ask(id)') = price * short
    <3>1. size * Lot - reserved = short
      BY <1>7
    <3> QED BY <1>8, <1>12, <3>1 DEF CashOf
  <2>3. shortCash = SumFunction(CashReserved)
    BY <1>0 DEF ReservationsExact
  <2>4. shortCash' = SumFunction(CashReserved')
    BY <1>2, <1>12, <1>14, <2>1, <2>2, <2>3
  <2>5. ASSUME NEW s \in Symbols
        PROVE  shortUnits'[s] = SumFunction(UnitsReserved(s)') /\ shortUnits'[s] <= items'[s].long
    <3>1. /\ shortUnits[s] = SumFunction(UnitsReserved(s)) /\ shortUnits[s] <= items[s].long
          /\ shortUnits[s] \in Int
      BY <1>0 DEF ReservationsExact, TypeOK
    <3>2. UnitsOf(id, Ask(id)', s) = IF s = symbol THEN reserved ELSE 0
      BY <1>5, <1>8, <1>12 DEF UnitsOf
    <3>3. SumFunction(UnitsReserved(s)') = shortUnits[s] + (IF s = symbol THEN reserved ELSE 0)
      BY <1>8, <1>12, <2>1, <3>1, <3>2
    <3> QED BY <1>4, <1>7, <1>8, <1>14, <3>1, <3>3
  <2>6. ASSUME NEW x \in DOMAIN pendingAsks'
        PROVE  pendingAsks'[x].reserved \in 0..pendingAsks'[x].size * Lot
    <3>1. CASE x = id
      BY <1>7, <1>8, <1>9, <3>1
    <3>2. CASE x # id
      BY <1>0, <1>9, <1>10, <3>2 DEF ReservationsExact, SameBut
    <3> QED BY <3>1, <3>2
  <2> QED BY <2>4, <2>5, <2>6 DEF ReservationsExact
<1>18. CashConserved' /\ PositionConserved'
  <2>1. CashComing' = CashComing /\ \A s : SharesComing(s)' = SharesComing(s)
    BY <1>3 DEF SendEffect
  <2> QED BY <1>0, <1>4, <2>1 DEF CashConserved, PositionConserved
<1> QED BY <1>3, <1>11, <1>13, <1>15, <1>16, <1>17, <1>18 DEF RiskInv, SendEffect

\* The order thread verifies its request.
LEMMA VerifyStep ==
    ASSUME RiskInv, Verify
    PROVE  RiskInv'
<1>1. step = "verify"
  BY DEF Verify
<1>2. CASE SendCancel
  BY <1>1, <1>2, SendCancelStep
<1>3. ASSUME NEW price \in Valuations(ordered), SendBid(price) \/ SendAsk(price) \/ RejectOrder(price)
      PROVE  RiskInv'
  BY <1>1, <1>3, SendBidStep, SendAskStep, RejectOrderStep
<1> QED BY <1>2, <1>3 DEF Verify

--------------------------------------------------------------------------------
(* The market. *)

\* What no step of the market changes.
\* What the steps of the MatchingEngine leave alone.
Away ==
    /\ UNCHANGED <<orders, cancelled, orderBuffer, step, usable, booked>>
    /\ UNCHANGED <<summary, items, pendingBids, pendingAsks, shortCash, shortUnits, waitingList>>

\* What the MatchingEngine does leaves the portfolio and the lists alone.
LEMMA AwayStep ==
    ASSUME RiskInv, Away
    PROVE  /\ HoldingsBacked' /\ ReservationsExact' /\ UnfinishedListed'
           /\ \A id : Bid(id)' = Bid(id) /\ Ask(id)' = Ask(id) /\ Counted(id)' = Counted(id)
<1>1. /\ HeldBids' = HeldBids /\ CashReserved' = CashReserved
      /\ \A s : UnitsReserved(s)' = UnitsReserved(s)
  BY DEF Away, HeldBids, CashReserved, UnitsReserved
<1>2. HoldingsBacked' /\ ReservationsExact'
  BY <1>1 DEF Away, RiskInv, HoldingsBacked, ReservationsExact
<1>3. UnfinishedListed'
  BY DEF Away, RiskInv, UnfinishedListed, request
<1> QED BY <1>2, <1>3 DEF Away, Bid, Ask, Counted

\* The MatchingEngine takes a message off its session: an order is open from now on.
LEMMA BufferMessageStep ==
    ASSUME RiskInv, BufferMessage
    PROVE  RiskInv'
<1> SUFFICES ASSUME NEW m, m = Head(toMarket),
                    NEW n, n = Len(toMarket) - 1
             PROVE  RiskInv'
  OBVIOUS
<1>0. /\ TypeOK /\ RequestsQueued /\ MarketOrders /\ ReportsSound /\ EntriesOK /\ ListedWithin
      /\ CashConserved /\ PositionConserved /\ PendingExact
  BY DEF RiskInv
<1>1. /\ toMarket # <<>> /\ confirming' = <<m>> /\ toMarket' = Tail(toMarket)
      /\ open' = IF m.cancel THEN open ELSE With(open, m.id, m.size)
      /\ cancels' = IF m.cancel THEN Append(cancels, m) ELSE cancels
      /\ Away /\ UNCHANGED <<execRptBuffer, traded>>
  BY DEF BufferMessage, order, thread, book, account, pending, Away
<1>2. /\ n \in Nat /\ DOMAIN toMarket = 1..(n + 1) /\ DOMAIN toMarket' = 1..n
      /\ m = toMarket[1] /\ m \in Requests /\ toMarket' \in Seq(Requests)
      /\ \A k \in 1..n : toMarket'[k] = toMarket[k + 1] /\ k + 1 \in 1..(n + 1) /\ k + 1 # 1
      /\ 1 \in DOMAIN toMarket
  <2>1. toMarket \in Seq(Requests) /\ toMarket # <<>>
    BY <1>0, <1>1 DEF TypeOK
  <2> QED BY <1>1, <2>1
<1>3. /\ m.id \in DOMAIN orders /\ m.cancel \in BOOLEAN /\ m.size \in Nat
      /\ m.id \in 1..Len(orders)
  <2>1. m.id \in DOMAIN orders
    BY <1>0, <1>2 DEF RequestsQueued, Queued
  <2> QED BY <1>0, <1>2, <2>1, OrderTypes, PriceTypes DEF Requests
<1>4. DOMAIN open' = IF m.cancel THEN DOMAIN open ELSE DOMAIN open \cup {m.id}
  BY <1>1 DEF With
<1>5. m.id \in DOMAIN open'
  <2>1. m.cancel => m.id \in DOMAIN open
    BY <1>0, <1>2 DEF MarketOrders
  <2> QED BY <1>4, <2>1
<1>6. /\ \A x \in DOMAIN open : x \in DOMAIN open' /\ (x # m.id \/ m.cancel => open'[x] = open[x])
      /\ ~m.cancel => m.id \notin DOMAIN open /\ open'[m.id] = m.size
      /\ open' \in [DOMAIN open' -> Nat]
  <2>1. open \in [DOMAIN open -> Nat]
    BY <1>0 DEF EntriesOK
  <2>2. ~m.cancel => m.id \notin DOMAIN open
    BY <1>0, <1>2 DEF MarketOrders
  <2> QED BY <1>1, <1>3, <2>1, <2>2 DEF With
<1>7. \A id : Sent(id)' <=> Sent(id)
  <2> SUFFICES ASSUME NEW id PROVE Sent(id)' <=> Sent(id)
    OBVIOUS
  <2>1. ASSUME Sent(id) PROVE Sent(id)'
    <3>1. CASE id \in DOMAIN open
      BY <1>6, <3>1 DEF Sent
    <3>2. ASSUME NEW k \in 1..(n + 1), SentFor(id, k) PROVE Sent(id)'
      <4>1. CASE k = 1
        BY <1>2, <1>5, <3>2, <4>1 DEF Sent, SentFor
      <4>2. CASE k # 1
        <5>1. k - 1 \in 1..n /\ (k - 1) + 1 = k
          BY <1>2, <4>2
        <5>2. toMarket'[k - 1] = toMarket[k]
          BY <1>2, <5>1
        <5> QED BY <1>2, <3>2, <5>1, <5>2 DEF Sent, SentFor, IsOrder
      <4> QED BY <4>1, <4>2
    <3> QED BY <1>2, <2>1, <3>1, <3>2 DEF Sent
  <2>2. ASSUME Sent(id)' PROVE Sent(id)
    <3>1. CASE id \in DOMAIN open'
      BY <1>2, <1>4, <3>1 DEF Sent, SentFor, IsOrder
    <3>2. ASSUME NEW k \in 1..n, SentFor(id, k)' PROVE Sent(id)
      BY <1>2, <3>2 DEF Sent, SentFor, IsOrder
    <3> QED BY <1>2, <2>2, <3>1, <3>2 DEF Sent
  <2> QED BY <2>1, <2>2
<1>8. Queued(toMarket)'
  <2>1. orders' = orders
    BY <1>1 DEF Away
  <2>2. \A k \in 1..n : toMarket'[k].id \in DOMAIN orders
    BY <1>0, <1>2 DEF RequestsQueued, Queued
  <2>3. \A k \in 1..n : ~toMarket'[k].cancel => toMarket'[k].size = orders[toMarket'[k].id].size
    BY <1>0, <1>2 DEF RequestsQueued, Queued
  <2>4. ASSUME NEW i \in 1..n, NEW j \in 1..n, ~toMarket'[i].cancel, ~toMarket'[j].cancel,
               toMarket'[i].id = toMarket'[j].id
        PROVE  i = j
    <3>1. i + 1 = j + 1
      BY <1>0, <1>2, <2>4 DEF RequestsQueued, Queued
    <3> QED BY <3>1
  <2> QED BY <1>2, <2>1, <2>2, <2>3, <2>4 DEF Queued
<1>9. RequestsQueued'
  BY <1>0, <1>1, <1>7, <1>8 DEF RequestsQueued, Away, Unsent, Queued, request
<1>10. \A k \in 1..n : toMarket'[k].id = m.id /\ ~m.cancel => toMarket'[k].cancel
  <2>1. \A i, j \in 1..(n + 1) :
           ~toMarket[i].cancel /\ ~toMarket[j].cancel /\ toMarket[i].id = toMarket[j].id => i = j
    BY <1>0, <1>2 DEF RequestsQueued, Queued
  <2>2. 1 \in 1..(n + 1)
    BY <1>2
  <2> QED BY <1>2, <2>1, <2>2
<1>11. MarketOrders'
  <2>1. \A k \in DOMAIN toMarket' : ~toMarket'[k].cancel => toMarket'[k].id \notin DOMAIN open'
    BY <1>0, <1>2, <1>4, <1>10 DEF MarketOrders
  <2>2. ASSUME NEW k \in DOMAIN toMarket', toMarket'[k].cancel
        PROVE  \/ toMarket'[k].id \in DOMAIN open'
               \/ \E j \in 1..(k - 1) : IsOrder(toMarket', j) /\ toMarket'[j].id = toMarket'[k].id
    <3>1. /\ toMarket'[k] = toMarket[k + 1] /\ k + 1 \in 1..(n + 1) /\ k \in Nat
          /\ k \in 1..n
      BY <1>2
    <3>2. \/ toMarket[k + 1].id \in DOMAIN open
          \/ \E j \in 1..k : SentFor(toMarket[k + 1].id, j)
      <4>1. (k + 1) - 1 = k
        BY <3>1
      <4> QED BY <1>0, <1>2, <2>2, <3>1, <4>1 DEF MarketOrders
    <3>3. ASSUME NEW j \in 1..k, SentFor(toMarket[k + 1].id, j), j # 1
          PROVE  \E i \in 1..(k - 1) : IsOrder(toMarket', i) /\ toMarket'[i].id = toMarket'[k].id
      <4>1. j - 1 \in 1..(k - 1) /\ j - 1 \in 1..n /\ (j - 1) + 1 = j
        BY <1>2, <3>1, <3>3
      <4>2. toMarket'[j - 1] = toMarket[j]
        BY <1>2, <4>1
      <4>3. IsOrder(toMarket', j - 1) /\ toMarket'[j - 1].id = toMarket'[k].id
        BY <1>2, <3>1, <3>3, <4>1, <4>2 DEF SentFor, IsOrder
      <4> QED BY <4>1, <4>3
    <3>4. ASSUME SentFor(toMarket[k + 1].id, 1) PROVE toMarket'[k].id \in DOMAIN open'
      BY <1>2, <1>5, <3>1, <3>4 DEF SentFor
    <3> QED BY <1>6, <3>1, <3>2, <3>3, <3>4
  <2>3. \A i \in DOMAIN confirming' : confirming'[i].id \in DOMAIN open'
    BY <1>1, <1>5
  <2>4. \A i \in DOMAIN cancels' : cancels'[i].id \in DOMAIN open'
    <3>1. \A i \in DOMAIN cancels : cancels[i].id \in DOMAIN open'
      BY <1>0, <1>6 DEF MarketOrders
    <3>2. cancels \in Seq(Requests)
      BY <1>0 DEF TypeOK
    <3> QED BY <1>1, <1>2, <1>5, <3>1, <3>2
  <2> QED BY <2>1, <2>2, <2>3, <2>4 DEF MarketOrders, SentFor, IsOrder

<1>12. /\ Unbooked' = Unbooked /\ report' = report
       /\ \A id : JustBooked(id)' = JustBooked(id)
       /\ CashComing' = CashComing
       /\ \A s : SharesComing(s)' = SharesComing(s)
       /\ \A id : SizeComing(id)' = SizeComing(id)
  <2>1. UNCHANGED <<orders, booked, execRptBuffer>>
    BY <1>1 DEF Away
  <2>2. Unbooked' = Unbooked /\ report' = report
    BY <2>1 DEF Unbooked, report
  <2> QED BY <2>1, <2>2 DEF JustBooked, CashComing, SharesComing, SizeComing, ProceedsOf, SharesIn
<1>13. TypeOK'
  <2>1. DOMAIN open' \subseteq 1..Len(orders) /\ \A x \in DOMAIN open' : open'[x] \in Nat
    <3>1. DOMAIN open \subseteq 1..Len(orders)
      BY <1>0 DEF TypeOK
    <3> QED BY <1>3, <1>4, <1>6, <3>1
  <2>2. confirming' \in Seq(Requests) /\ Len(confirming') <= 1 /\ cancels' \in Seq(Requests)
    <3>1. cancels \in Seq(Requests)
      BY <1>0 DEF TypeOK
    <3> QED BY <1>1, <1>2, <3>1
  <2>3. Away /\ UNCHANGED <<execRptBuffer, traded>>
    BY <1>1
  <2> QED BY <1>0, <1>2, <2>1, <2>2, <2>3 DEF TypeOK, Away
<1>14. ReportsSound'
  <2>1. UNCHANGED <<booked, execRptBuffer>>
    BY <1>1 DEF Away
  <2> QED BY <1>0, <1>6, <1>12, <2>1 DEF ReportsSound
<1>15. EntriesOK'
  <2>1. Away
    BY <1>1
  <2> QED BY <1>0, <1>6, <1>7, <2>1 DEF EntriesOK, Away
<1>16. ListedWithin'
  <2>1. orders' = orders
    BY <1>1 DEF Away
  <2> QED BY <1>0, <1>1, <1>12, <2>1, AwayStep DEF ListedWithin
<1>17. CashConserved' /\ PositionConserved'
  <2>1. UNCHANGED <<summary, items, traded>>
    BY <1>1 DEF Away
  <2> QED BY <1>0, <1>12, <2>1 DEF CashConserved, PositionConserved
<1>18. PendingExact'
  <2>1. \A id : SumFunction(SizeSent(id)) = SizeFor(m, id) + SumFunction(SizeSent(id)')
    BY <1>0, <1>1, <1>2, MessageTaken
  <2>2. ~m.cancel => SumFunction(SizeSent(m.id)') = 0
    <3>1. SUFFICES ASSUME ~m.cancel PROVE SumFunction(SizeSent(m.id)') = 0
      OBVIOUS
    <3>2. SizeSent(m.id)' = [k \in 1..n |-> 0]
      BY <1>2, <1>10, <3>1 DEF SizeSent
    <3>3. [k \in 1..n |-> 0] \in [1..n -> Int] /\ \A k \in 1..n : [i \in 1..n |-> 0][k] = 0
      OBVIOUS
    <3>4. IsFiniteSet(1..n)
      BY <1>2, FS_Interval
    <3> QED BY <3>2, <3>3, <3>4, SumZero
  <2>3. \A id : SumFunction(SizeSent(id)) \in Nat /\ SumFunction(SizeSent(id)') \in Int
    BY <1>0, <1>1, SumValues, ReportsOfOrders, MessageTaken
  <2>4. ASSUME NEW id \in DOMAIN orders PROVE AtMarket(id)' = AtMarket(id)
    <3>1. CASE id \in DOMAIN open
      BY <1>6, <3>1 DEF AtMarket
    <3>2. CASE id \notin DOMAIN open /\ id \in DOMAIN open'
      <4>1. id = m.id /\ ~m.cancel
        BY <1>4, <3>2
      <4>2. SizeFor(m, id) = m.size
        BY <4>1 DEF SizeFor
      <4>3. SumFunction(SizeSent(id)) = m.size
        BY <1>3, <2>1, <2>2, <4>1, <4>2
      <4> QED BY <1>6, <3>2, <4>1, <4>3 DEF AtMarket
    <3>3. CASE id \notin DOMAIN open'
      <4>1. id \notin DOMAIN open /\ id # m.id
        BY <1>5, <1>6, <3>3
      <4>2. SizeFor(m, id) = 0
        BY <4>1 DEF SizeFor
      <4>3. SumFunction(SizeSent(id)) = SumFunction(SizeSent(id)')
        BY <2>1, <2>3, <4>2
      <4> QED BY <3>3, <4>1, <4>3 DEF AtMarket
    <3> QED BY <3>1, <3>2, <3>3
  <2>5. orders' = orders
    BY <1>1 DEF Away
  <2> QED BY <1>0, <1>1, <1>12, <2>4, <2>5, AwayStep DEF PendingExact
<1> QED BY <1>1, <1>9, <1>11, <1>13, <1>14, <1>15, <1>16, <1>17, <1>18, AwayStep DEF RiskInv

\* What a message about an open order is: a confirmation, or the end of some of it.
Shaped(r) ==
    \/ r.status \in Confirmations /\ r.size = 0
    \/ r.status \in {"FILLED", "CANCELED"} /\ r.size # 0

\* The MatchingEngine reports: what leaves the open size of the order is on its way.
LEMMA ReportSentStep ==
    ASSUME RiskInv, Away, toMarket' = toMarket,
           NEW r \in Reports, r.id \in DOMAIN open, Shaped(r),
           execRptBuffer' = Append(execRptBuffer, r),
           open' \in [DOMAIN open -> Nat],
           \A x \in DOMAIN open : open'[x] = open[x] - (IF x = r.id THEN r.size ELSE 0),
           \A i \in DOMAIN confirming' : confirming'[i].id \in DOMAIN open,
           \A i \in DOMAIN cancels' : cancels'[i].id \in DOMAIN open
    PROVE  /\ RequestsQueued' /\ MarketOrders' /\ ReportsSound' /\ EntriesOK' /\ ListedWithin'
           /\ HoldingsBacked' /\ ReservationsExact' /\ PendingExact' /\ UnfinishedListed'
           /\ ComingMore(r)
           /\ execRptBuffer' \in Seq(Reports) /\ execRptBuffer' # <<>>
<1> DEFINE n == Len(execRptBuffer)
<1>0. /\ TypeOK /\ RequestsQueued /\ MarketOrders /\ ReportsSound /\ EntriesOK /\ ListedWithin
      /\ PendingExact
  BY DEF RiskInv
<1>1. /\ HoldingsBacked' /\ ReservationsExact' /\ UnfinishedListed'
      /\ \A id : Bid(id)' = Bid(id) /\ Ask(id)' = Ask(id) /\ Counted(id)' = Counted(id)
      /\ orders' = orders /\ booked' = booked
  BY AwayStep DEF Away
<1>2. /\ n \in Nat /\ DOMAIN execRptBuffer = 1..n /\ DOMAIN execRptBuffer' = 1..(n + 1)
      /\ execRptBuffer'[n + 1] = r
      /\ \A i \in 1..n : execRptBuffer'[i] = execRptBuffer[i]
      /\ execRptBuffer' \in Seq(Reports) /\ execRptBuffer' # <<>>
      /\ \A i \in DOMAIN execRptBuffer' : i \in 1..n \/ i = n + 1
      /\ execRptBuffer # <<>> => Head(execRptBuffer') = Head(execRptBuffer)
                                 /\ Tail(execRptBuffer') = Append(Tail(execRptBuffer), r)
  <2>1. execRptBuffer \in Seq(Reports)
    BY <1>0 DEF TypeOK
  <2>2. execRptBuffer # <<>> => /\ Head(execRptBuffer') = Head(execRptBuffer)
                                /\ Tail(execRptBuffer') = Append(Tail(execRptBuffer), r)
    BY <2>1
  <2> QED BY <2>1, <2>2
<1> HIDE DEF n
<1>3. Unbooked' = Append(Unbooked, r)
  BY <1>0, <1>1, <1>2 DEF Unbooked, TypeOK
<1>4. booked => report' = report
  BY <1>0, <1>2 DEF report, TypeOK
<1>5. r \in NamedReports /\ r.size \in Nat
  BY <1>0, OrderTypes, PriceTypes DEF TypeOK, NamedReports, Reports
<1>6. ReportsNamed
  BY <1>0, ReportsOfOrders
<1>7. ComingMore(r)
  BY <1>0, <1>1, <1>3, <1>5, <1>6, ReportAdded
<1>8. DOMAIN open' = DOMAIN open
  OBVIOUS
<1>9. \A id : Sent(id)' <=> Sent(id)
  BY <1>8 DEF Sent, SentFor, IsOrder
<1>10. RequestsQueued'
  BY <1>0, <1>1, <1>9 DEF RequestsQueued, Away, Unsent, Queued, request
<1>11. MarketOrders'
  BY <1>0, <1>8 DEF MarketOrders, SentFor, IsOrder
<1>12. ReportsSound'
  <2>1. \A i \in DOMAIN execRptBuffer' : execRptBuffer'[i].id \in DOMAIN open'
    BY <1>0, <1>2, <1>8 DEF ReportsSound
  <2>2. \A k \in DOMAIN Unbooked' :
          \/ Unbooked'[k].status \in Confirmations /\ Unbooked'[k].size = 0
          \/ Unbooked'[k].status \in {"FILLED", "CANCELED"} /\ Unbooked'[k].size # 0
    <3>1. Unbooked \in Seq(Reports)
      BY <1>0, UnbookedType
    <3>2. ASSUME NEW k \in DOMAIN Unbooked'
          PROVE  (k \in DOMAIN Unbooked /\ Unbooked'[k] = Unbooked[k]) \/ Unbooked'[k] = r
      BY <1>3, <3>1
    <3> QED BY <1>0, <3>2 DEF ReportsSound, Shaped
  <2>3. booked' => report'.status \notin Confirmations
    BY <1>0, <1>1, <1>4 DEF ReportsSound
  <2> QED BY <2>1, <2>2, <2>3 DEF ReportsSound
<1>13. EntriesOK'
  BY <1>0, <1>8, <1>9 DEF EntriesOK, Away
<1>14. ListedWithin'
  <2>1. \A id : JustBooked(id)' = JustBooked(id)
    BY <1>1, <1>4 DEF JustBooked
  <2> QED BY <1>0, <1>1, <2>1 DEF ListedWithin
<1>15. PendingExact'
  <2>1. ASSUME NEW id PROVE SumFunction(SizeSent(id)') = SumFunction(SizeSent(id))
    BY DEF SizeSent
  <2>2. ASSUME NEW id PROVE AtMarket(id)' = AtMarket(id) - (IF r.id = id THEN r.size ELSE 0)
                            /\ AtMarket(id) \in Int
    <3>1. CASE id \in DOMAIN open
      <4>1. open[id] \in Nat
        BY <1>0, <3>1 DEF TypeOK
      <4> QED BY <1>8, <3>1, <4>1 DEF AtMarket
    <3>2. CASE id \notin DOMAIN open
      <4>1. SumFunction(SizeSent(id)) \in Nat
        BY <1>0, <1>6, SumValues
      <4> QED BY <1>8, <2>1, <3>2, <4>1 DEF AtMarket
    <3> QED BY <3>1, <3>2
  <2>3. ASSUME NEW id PROVE /\ SumFunction(SizeComing(id)') = SumFunction(SizeComing(id)) + (IF r.id = id THEN r.size ELSE 0)
                            /\ SumFunction(SizeComing(id)) \in Nat
    BY <1>0, <1>6, <1>7, SumValues DEF ComingMore
  <2>4. ASSUME NEW id PROVE AtMarket(id)' + SumFunction(SizeComing(id)') = AtMarket(id) + SumFunction(SizeComing(id))
    BY <1>5, <2>2, <2>3
  <2> QED BY <1>0, <1>1, <2>4 DEF PendingExact
<1> QED BY <1>1, <1>2, <1>7, <1>10, <1>11, <1>12, <1>13, <1>14, <1>15

\* The MatchingEngine confirms the message it has taken.
LEMMA ConfirmMessageStep ==
    ASSUME RiskInv, ConfirmMessage
    PROVE  RiskInv'
<1> SUFFICES ASSUME NEW m, m = confirming[1],
                    NEW r, r = Report(m.id, IF m.cancel THEN "PENDING_CANCEL" ELSE "NEW", 0, orders[m.id].price)
             PROVE  RiskInv'
  OBVIOUS
<1>0. /\ TypeOK /\ MarketOrders /\ EntriesOK /\ CashConserved /\ PositionConserved /\ ReportsSound
  BY DEF RiskInv
<1>1. /\ confirming # <<>> /\ execRptBuffer' = Append(execRptBuffer, r) /\ confirming' = <<>>
      /\ Away /\ UNCHANGED <<toMarket, cancels, open, traded>>
  BY DEF ConfirmMessage, order, thread, book, account, pending, Away
<1>2. m \in Requests /\ m.id \in DOMAIN open /\ m.id \in DOMAIN orders
  <2>1. confirming \in Seq(Requests) /\ DOMAIN open \subseteq 1..Len(orders)
    BY <1>0 DEF TypeOK
  <2>2. m \in Requests /\ m.id \in DOMAIN open
    BY <1>0, <1>1, <2>1 DEF MarketOrders
  <2> QED BY <1>0, <2>1, <2>2, OrderTypes
<1>3. r \in Reports /\ r.id = m.id /\ r.size = 0 /\ r.status \in Confirmations
  BY SMTT(60), <1>0, <1>2, OrderTypes DEF Report, Reports, Statuses, Confirmations
<1>4. /\ RequestsQueued' /\ MarketOrders' /\ ReportsSound' /\ EntriesOK' /\ ListedWithin'
      /\ HoldingsBacked' /\ ReservationsExact' /\ PendingExact' /\ UnfinishedListed'
      /\ ComingMore(r)
      /\ execRptBuffer' \in Seq(Reports) /\ execRptBuffer' # <<>>
  <2>1. open' \in [DOMAIN open -> Nat]
    BY <1>0, <1>1 DEF EntriesOK
  <2>2. \A x \in DOMAIN open : open'[x] = open[x] - (IF x = r.id THEN r.size ELSE 0)
    BY <1>0, <1>1, <1>3 DEF TypeOK
  <2>3. \A i \in DOMAIN confirming' : confirming'[i].id \in DOMAIN open
    BY <1>1
  <2>4. \A i \in DOMAIN cancels' : cancels'[i].id \in DOMAIN open
    BY <1>0, <1>1 DEF MarketOrders
  <2>5. Shaped(r) /\ r.id \in DOMAIN open
    BY <1>2, <1>3 DEF Shaped
  <2> QED BY <1>1, <1>3, <2>1, <2>2, <2>3, <2>4, <2>5, ReportSentStep
<1>5. TypeOK'
  <2>1. confirming' \in Seq(Requests) /\ Len(confirming') <= 1
    BY <1>1
  <2> QED BY <1>0, <1>1, <1>4, <2>1 DEF TypeOK, Away
<1>6. CashConserved' /\ PositionConserved'
  <2>1. ProceedsOf(r) = 0 /\ \A s : SharesIn(r, s) = 0
    BY Zenon, <1>3 DEF ProceedsOf, SharesIn, Confirmations
  <2>2. SumFunction(CashComing) \in Int /\ \A s : SumFunction(SharesComing(s)) \in Int
    BY <1>0, SumValues, ReportsOfOrders
  <2>3. /\ SumFunction(CashComing') = SumFunction(CashComing)
        /\ \A s \in Symbols : SumFunction(SharesComing(s)') = SumFunction(SharesComing(s))
    BY <1>4, <2>1, <2>2, NothingComes
  <2> QED BY <1>0, <1>1, <2>3 DEF CashConserved, PositionConserved, Away
<1> QED BY <1>4, <1>5, <1>6 DEF RiskInv

\* The market executes an order.
LEMMA ExecuteStep ==
    ASSUME RiskInv, NEW id \in DOMAIN open, NEW q \in 1..open[id], NEW price \in Prices,
           Execute(id, q, price)
    PROVE  RiskInv'
<1> SUFFICES ASSUME NEW o, o = orders[id],
                    NEW r, r = Report(id, "FILLED", q, price)
             PROVE  RiskInv'
  OBVIOUS
<1>0. /\ TypeOK /\ MarketOrders /\ EntriesOK /\ CashConserved /\ PositionConserved /\ ReportsSound
  BY DEF RiskInv
<1>1. /\ open' = [open EXCEPT ![id] = @ - q]
      /\ traded' = [traded EXCEPT !.cash = @ + Proceeds(o.side, q * Lot, price),
                                  !.shares[o.symbol] = @ + SharesOf(o.side, q * Lot)]
      /\ execRptBuffer' = Append(execRptBuffer, r)
      /\ Away /\ UNCHANGED <<toMarket, confirming, cancels>>
  BY DEF Execute, order, thread, book, account, pending, Away
<1>2. /\ id \in DOMAIN orders /\ o.symbol \in Symbols /\ o.side \in {"buy", "sell"}
      /\ open[id] \in Nat /\ q \in Nat /\ q # 0 /\ q <= open[id] /\ price \in Nat
      /\ id \in 1..MaxOrders /\ open \in [DOMAIN open -> Nat]
  <2>1. id \in DOMAIN orders /\ open[id] \in Nat /\ open \in [DOMAIN open -> Nat]
    BY <1>0, OrderTypes DEF TypeOK, EntriesOK
  <2> QED BY <1>0, <2>1, OrderTypes, PriceTypes
<1>3. r \in Reports /\ r.id = id /\ r.size = q /\ r.status = "FILLED" /\ r.price = price
  BY <1>2 DEF Report, Reports, Statuses
<1>9. open' = [open EXCEPT ![id] = @ - q]
  BY <1>1
<1>4. /\ RequestsQueued' /\ MarketOrders' /\ ReportsSound' /\ EntriesOK' /\ ListedWithin'
      /\ HoldingsBacked' /\ ReservationsExact' /\ PendingExact' /\ UnfinishedListed'
      /\ ComingMore(r)
      /\ execRptBuffer' \in Seq(Reports) /\ execRptBuffer' # <<>>
  <2>1. open' \in [DOMAIN open -> Nat]
    BY <1>1, <1>2
  <2>2. \A x \in DOMAIN open : open'[x] = open[x] - (IF x = r.id THEN r.size ELSE 0)
    BY <1>1, <1>2, <1>3
  <2>3. \A i \in DOMAIN confirming' : confirming'[i].id \in DOMAIN open
    BY <1>0, <1>1 DEF MarketOrders
  <2>4. \A i \in DOMAIN cancels' : cancels'[i].id \in DOMAIN open
    BY <1>0, <1>1 DEF MarketOrders
  <2>5. Shaped(r) /\ r.id \in DOMAIN open
    BY <1>2, <1>3 DEF Shaped
  <2> QED BY <1>1, <1>3, <2>1, <2>2, <2>3, <2>4, <2>5, ReportSentStep
<1>5. /\ ProceedsOf(r) = Proceeds(o.side, q * Lot, price) /\ ProceedsOf(r) \in Int
      /\ \A s : SharesIn(r, s) = IF o.symbol = s THEN SharesOf(o.side, q * Lot) ELSE 0
      /\ SharesOf(o.side, q * Lot) \in Int
  <2>1. q * Lot \in Int
    BY <1>2 DEF Lot
  <2>2. SharesOf(o.side, q * Lot) \in Int
    BY <2>1 DEF SharesOf
  <2>3. ProceedsOf(r) \in Int
    BY <1>0, <1>2, <1>3, ReportValues
  <2> QED BY <1>3, <2>2, <2>3 DEF ProceedsOf, SharesIn
<1>6. /\ traded'.cash = traded.cash + ProceedsOf(r)
      /\ \A s \in Symbols : traded'.shares[s] = traded.shares[s] + SharesIn(r, s)
      /\ traded' \in [cash: Int, shares: [Symbols -> Int]]
  <2>1. traded \in [cash: Int, shares: [Symbols -> Int]]
    BY <1>0 DEF TypeOK
  <2> DEFINE p == Proceeds(o.side, q * Lot, price)
             n == SharesOf(o.side, q * Lot)
  <2>2. p \in Int /\ n \in Int /\ ProceedsOf(r) = p
    BY <1>5
  <2>3. traded' = [traded EXCEPT !.cash = @ + p, !.shares[o.symbol] = @ + n]
    BY <1>1
  <2>4. \A s : SharesIn(r, s) = IF o.symbol = s THEN n ELSE 0
    BY <1>5
  <2> HIDE DEF p, n
  <2>5. traded' = [cash |-> traded.cash + p, shares |-> [traded.shares EXCEPT ![o.symbol] = @ + n]]
    BY <2>1, <2>3
  <2> QED BY <1>2, <2>1, <2>2, <2>4, <2>5
<1>7. TypeOK'
  <2>1. DOMAIN open' \subseteq 1..Len(orders) /\ \A x \in DOMAIN open' : open'[x] \in Nat
    <3>1. open' \in [DOMAIN open -> Nat]
      BY <1>2, <1>9
    <3>2. DOMAIN open \subseteq 1..Len(orders)
      BY <1>0 DEF TypeOK
    <3> QED BY <3>1, <3>2
  <2>2. Away /\ UNCHANGED <<toMarket, confirming, cancels>>
    BY <1>1
  <2> QED BY <1>0, <1>4, <1>6, <2>1, <2>2 DEF TypeOK, Away
<1>8. CashConserved' /\ PositionConserved'
  <2>1. SumFunction(CashComing) \in Int /\ \A s : SumFunction(SharesComing(s)) \in Int
    BY <1>0, SumValues, ReportsOfOrders
  <2>2. UNCHANGED <<summary, items>>
    BY <1>1 DEF Away
  <2> DEFINE c == ProceedsOf(r)
  <2>0. c \in Int /\ traded'.cash = traded.cash + c
    BY <1>5, <1>6
  <2>3. CashConserved'
    <3> DEFINE total == summary.buyingPower + summary.holding + 2 * summary.borrowed
    <3>1. traded.cash \in Int /\ BuyingPower \in Int
      BY <1>0, RiskAssumption DEF TypeOK
    <3>2. SumFunction(CashComing') = SumFunction(CashComing) + c
      BY <1>4 DEF ComingMore
    <3>3. total \in Int
      BY SMTT(60), <1>0 DEF TypeOK
    <3>4. total + SumFunction(CashComing) = BuyingPower + traded.cash
      BY <1>0 DEF CashConserved
    <3>6. SumFunction(CashComing) \in Int
      BY <2>1
    <3> HIDE DEF c, total
    <3>5. total + SumFunction(CashComing') = BuyingPower + traded'.cash
      BY <2>0, <3>1, <3>2, <3>3, <3>4, <3>6
    <3> USE DEF total
    <3> QED BY <2>2, <3>5 DEF CashConserved
  <2>4. ASSUME NEW s \in Symbols
        PROVE  items'[s].long - items'[s].short + SumFunction(SharesComing(s)') = LongShares[s] + traded'.shares[s]
    <3>1. SumFunction(SharesComing(s)') = SumFunction(SharesComing(s)) + SharesIn(r, s)
      BY <1>4 DEF ComingMore
    <3>2. items[s].long \in Int /\ items[s].short \in Int /\ traded.shares[s] \in Int
      BY <1>0 DEF TypeOK
    <3>4. LongShares[s] \in Int
      BY RiskAssumption
    <3>5. SharesIn(r, s) \in Int
      BY <1>5
    <3>3. items[s].long - items[s].short + SumFunction(SharesComing(s)) = LongShares[s] + traded.shares[s]
      BY <1>0 DEF PositionConserved
    <3>6. traded'.shares[s] = traded.shares[s] + SharesIn(r, s)
      BY <1>6
    <3>7. items[s].long - items[s].short + SumFunction(SharesComing(s)') = LongShares[s] + traded'.shares[s]
      BY <2>1, <3>1, <3>2, <3>3, <3>4, <3>5, <3>6
    <3> QED BY <2>2, <3>7
  <2> QED BY <1>0, <2>2, <2>3, <2>4 DEF PositionConserved
<1> QED BY <1>4, <1>7, <1>8 DEF RiskInv

\* The market cancels what is left of an order.
LEMMA CarryOutCancelStep ==
    ASSUME RiskInv, CarryOutCancel
    PROVE  RiskInv'
<1> SUFFICES ASSUME NEW m, m = Head(cancels)
             PROVE  RiskInv'
  OBVIOUS
<1>0. /\ TypeOK /\ MarketOrders /\ EntriesOK /\ CashConserved /\ PositionConserved /\ ReportsSound
      /\ RequestsQueued /\ ListedWithin /\ PendingExact
  BY DEF RiskInv
<1>1. /\ cancels # <<>> /\ cancels' = Tail(cancels)
      /\ Away /\ UNCHANGED <<toMarket, confirming, traded>>
  BY DEF CarryOutCancel, order, thread, book, account, pending, Away
<1>2. /\ m.id \in DOMAIN open /\ m.size \in Nat /\ cancels' \in Seq(Requests)
      /\ \A i \in DOMAIN cancels' : cancels'[i].id \in DOMAIN open
  <2>1. cancels \in Seq(Requests)
    BY <1>0 DEF TypeOK
  <2>2. m \in Requests /\ m = cancels[1] /\ 1 \in DOMAIN cancels
    BY <1>1, <2>1
  <2>3. \A i \in DOMAIN cancels' : i + 1 \in DOMAIN cancels /\ cancels'[i] = cancels[i + 1]
    BY <1>1, <2>1
  <2> QED BY <1>0, <1>1, <2>1, <2>2, <2>3, PriceTypes DEF MarketOrders, Requests
<1>3. /\ m.id \in DOMAIN orders /\ m.id \in 1..MaxOrders /\ open[m.id] \in Nat
      /\ orders[m.id].price \in Prices \cup {0} /\ open \in [DOMAIN open -> Nat]
  <2>1. m.id \in DOMAIN orders /\ open \in [DOMAIN open -> Nat]
    BY <1>0, <1>2, OrderTypes DEF TypeOK, EntriesOK
  <2> QED BY <1>0, <1>2, <2>1, OrderTypes
<1>4. PICK q \in {Min({m.size, open[m.id]})} \cup (IF orders[m.id].price = 0 THEN {0} ELSE {}) :
         /\ open' = [open EXCEPT ![m.id] = @ - q]
         /\ execRptBuffer' = IF q = 0 THEN execRptBuffer
               ELSE Append(execRptBuffer, Report(m.id, "CANCELED", q, orders[m.id].price))
  BY DEF CarryOutCancel
<1>5. q \in Nat /\ q <= open[m.id]
  <2>0. m.size \in Int /\ open[m.id] \in Int
    BY <1>2, <1>3
  <2>1. Min({m.size, open[m.id]}) = IF m.size <= open[m.id] THEN m.size ELSE open[m.id]
    BY <2>0, MaxTwo
  <2>2. q = Min({m.size, open[m.id]}) \/ q = 0
    BY <1>4
  <2>3. m.size \in Nat /\ open[m.id] \in Nat
    BY <1>2, <1>3
  <2> QED BY <2>1, <2>2, <2>3
<1>8. open' = [open EXCEPT ![m.id] = @ - q]
  BY <1>4
<1>9. open' \in [DOMAIN open -> Nat]
  <2>1. open \in [DOMAIN open -> Nat] /\ open[m.id] - q \in Nat
    BY <1>3, <1>5
  <2> QED BY <1>2, <1>8, <2>1
<1>6. CASE q = 0
  <2>1. open' = open /\ execRptBuffer' = execRptBuffer
    BY <1>3, <1>4, <1>6
  <2>2. TypeOK'
    BY <1>0, <1>1, <1>2, <2>1 DEF TypeOK, Away
  <2>3. \A id : Sent(id)' <=> Sent(id)
    BY <1>1, <2>1 DEF Sent, SentFor, IsOrder
  <2>4. RequestsQueued'
    BY <1>0, <1>1, <2>3 DEF RequestsQueued, Away, Unsent, Queued, request
  <2>5. MarketOrders'
    BY <1>0, <1>1, <1>2, <2>1 DEF MarketOrders, SentFor, IsOrder
  <2>6. /\ Unbooked' = Unbooked /\ report' = report
        /\ \A id : JustBooked(id)' = JustBooked(id) /\ AtMarket(id)' = AtMarket(id)
        /\ UNCHANGED <<orders, booked>>
    BY <1>1, <2>1 DEF Unbooked, report, JustBooked, Away, AtMarket, SizeSent
  <2>7. /\ CashComing' = CashComing
        /\ \A s : SharesComing(s)' = SharesComing(s)
        /\ \A id : SizeComing(id)' = SizeComing(id)
    BY <2>6 DEF CashComing, SharesComing, SizeComing, ProceedsOf, SharesIn
  <2>8. ReportsSound'
    BY <1>0, <2>1, <2>6 DEF ReportsSound
  <2>9. EntriesOK'
    BY <1>0, <1>1, <2>1, <2>3 DEF EntriesOK, Away
  <2>10. ListedWithin' /\ PendingExact'
    BY <1>0, <1>1, <2>6, <2>7, AwayStep DEF ListedWithin, PendingExact
  <2>11. CashConserved' /\ PositionConserved'
    BY <1>0, <1>1, <2>7 DEF CashConserved, PositionConserved, Away
  <2> QED BY <1>1, <2>2, <2>4, <2>5, <2>8, <2>9, <2>10, <2>11, AwayStep DEF RiskInv
<1>7. CASE q # 0
  <2> SUFFICES ASSUME NEW r, r = Report(m.id, "CANCELED", q, orders[m.id].price)
               PROVE  RiskInv'
    OBVIOUS
  <2>1. execRptBuffer' = Append(execRptBuffer, r)
    BY <1>4, <1>7
  <2>2. r \in Reports /\ r.id = m.id /\ r.size = q /\ r.status = "CANCELED"
    BY SMTT(60), <1>3, <1>5 DEF Report, Reports, Statuses
  <2>3. /\ RequestsQueued' /\ MarketOrders' /\ ReportsSound' /\ EntriesOK' /\ ListedWithin'
        /\ HoldingsBacked' /\ ReservationsExact' /\ PendingExact' /\ UnfinishedListed'
        /\ ComingMore(r)
        /\ execRptBuffer' \in Seq(Reports) /\ execRptBuffer' # <<>>
    <3>1. open' \in [DOMAIN open -> Nat]
      BY <1>3, <1>5, <1>9
    <3>2. \A x \in DOMAIN open : open'[x] = open[x] - (IF x = r.id THEN r.size ELSE 0)
      <4>1. \A x \in DOMAIN open : open[x] \in Nat
        BY <1>3
      <4> QED BY <1>4, <2>2, <4>1
    <3>3. \A i \in DOMAIN confirming' : confirming'[i].id \in DOMAIN open
      BY <1>0, <1>1 DEF MarketOrders
    <3>4. Shaped(r) /\ r.id \in DOMAIN open
      BY <1>2, <1>7, <2>2 DEF Shaped
    <3> QED BY <1>1, <1>2, <2>1, <2>2, <3>1, <3>2, <3>3, <3>4, ReportSentStep
  <2>4. TypeOK'
    <3>1. DOMAIN open' \subseteq 1..Len(orders) /\ \A x \in DOMAIN open' : open'[x] \in Nat
      <4>1. open' \in [DOMAIN open -> Nat]
        BY <1>3, <1>5, <1>9
      <4>2. DOMAIN open \subseteq 1..Len(orders)
        BY <1>0 DEF TypeOK
      <4> QED BY <4>1, <4>2
    <3> QED BY <1>0, <1>1, <1>2, <2>3, <3>1 DEF TypeOK, Away
  <2>5. CashConserved' /\ PositionConserved'
    <3>1. ProceedsOf(r) = 0 /\ \A s : SharesIn(r, s) = 0
      BY Zenon, <2>2 DEF ProceedsOf, SharesIn
    <3>2. SumFunction(CashComing) \in Int /\ \A s : SumFunction(SharesComing(s)) \in Int
      BY <1>0, SumValues, ReportsOfOrders
    <3>3. /\ SumFunction(CashComing') = SumFunction(CashComing)
          /\ \A s \in Symbols : SumFunction(SharesComing(s)') = SumFunction(SharesComing(s))
      BY <2>3, <3>1, <3>2, NothingComes
    <3> QED BY SMTT(60), <1>0, <1>1, <3>3 DEF CashConserved, PositionConserved, Away
  <2> QED BY <2>3, <2>4, <2>5 DEF RiskInv
<1> QED BY <1>6, <1>7

--------------------------------------------------------------------------------
(* The report thread books a report. *)

\* Sequences that differ only at their head have the same tail.
LEMMA TailsSame ==
    ASSUME NEW S, NEW a \in Seq(S), NEW b \in Seq(S), a # <<>>, Len(b) = Len(a),
           \A i \in 1..Len(a) : i # 1 => b[i] = a[i]
    PROVE  Tail(b) = Tail(a)
<1> DEFINE n == Len(a) - 1
           c == Tail(a)
           d == Tail(b)
<1>0. n \in Nat /\ Len(a) = n + 1 /\ b # <<>>
  OBVIOUS
<1>1. c \in Seq(S) /\ d \in Seq(S) /\ Len(c) = n /\ Len(d) = n
  BY <1>0
<1>2. \A i \in 1..n : c[i] = a[i + 1] /\ d[i] = b[i + 1]
  BY <1>0
<1>3. \A i \in 1..n : i + 1 \in 1..Len(a) /\ i + 1 # 1
  BY <1>0
<1>4. \A i \in 1..n : c[i] = d[i]
  BY <1>2, <1>3
<1> HIDE DEF c, d, n
<1>5. c = [i \in 1..n |-> c[i]] /\ d = [i \in 1..n |-> d[i]]
  BY <1>1
<1> QED BY <1>4, <1>5 DEF c, d

\* What a booking does to the report itself, to the queues and to what is on its way.
Marked ==
    \/ execRptBuffer' = execRptBuffer
    \/ execRptBuffer' = [execRptBuffer EXCEPT ![1].status = "PARTIALLY_FILLED"]

BookedEffect ==
    /\ RequestsQueued' /\ MarketOrders' /\ ReportsSound'
    /\ execRptBuffer' \in Seq(Reports) /\ execRptBuffer' # <<>> /\ booked'
    /\ \A id : /\ JustBooked(id) = 0
               /\ JustBooked(id)' = (IF report.id = id THEN report.size ELSE 0)
    /\ \A id : AtMarket(id)' = AtMarket(id) /\ (Sent(id)' <=> Sent(id))
    /\ ComingLess(report)

\* A report is booked: it is no longer among those on their way.
LEMMA BookedStep ==
    ASSUME RiskInv, NEW status \in {"FILLED", "CANCELED"}, Booking(status), Marked
    PROVE  BookedEffect
<1> DEFINE n == Len(execRptBuffer)
<1>0. /\ TypeOK /\ RequestsQueued /\ MarketOrders /\ ReportsSound
  BY DEF RiskInv
<1>1. /\ execRptBuffer # <<>> /\ ~booked /\ booked' /\ report.status = status
      /\ UNCHANGED <<orders, cancelled, orderBuffer, step, usable, waitingList>>
      /\ UNCHANGED <<toMarket, confirming, cancels, open, traded>>
  BY DEF Booking, order, thread, market
<1>2. /\ n \in Nat /\ DOMAIN execRptBuffer = 1..n /\ 1 \in 1..n
      /\ execRptBuffer \in Seq(Reports) /\ \A i \in 1..n : execRptBuffer[i] \in Reports
      /\ report = execRptBuffer[1] /\ Head(execRptBuffer) = execRptBuffer[1]
  <2>1. execRptBuffer \in Seq(Reports) /\ execRptBuffer # <<>>
    BY <1>0, <1>1 DEF TypeOK
  <2> QED BY <2>1 DEF report
<1> HIDE DEF n
<1>3. /\ execRptBuffer' \in [1..n -> Reports]
      /\ \A i \in 1..n : i # 1 => execRptBuffer'[i] = execRptBuffer[i]
      /\ execRptBuffer'[1].id = report.id /\ execRptBuffer'[1].size = report.size
      /\ execRptBuffer'[1].status \notin Confirmations
  <2>1. execRptBuffer \in [1..n -> Reports]
    BY <1>2
  <2>2. CASE execRptBuffer' = execRptBuffer
    <3>1. execRptBuffer'[1] = report
      BY <1>2, <2>2
    <3>2. status \notin Confirmations
      BY DEF Confirmations
    <3> QED BY <1>1, <2>1, <2>2, <3>1, <3>2
  <2>3. CASE execRptBuffer' = [execRptBuffer EXCEPT ![1].status = "PARTIALLY_FILLED"]
    <3> DEFINE marked == [report EXCEPT !.status = "PARTIALLY_FILLED"]
    <3>1. report \in Reports
      BY <1>2
    <3>2. /\ marked \in Reports /\ marked.id = report.id /\ marked.size = report.size
          /\ marked.status \notin Confirmations
      BY <3>1 DEF Reports, Statuses, Confirmations
    <3>3. execRptBuffer' = [execRptBuffer EXCEPT ![1] = marked]
      BY <1>2, <2>3
    <3> HIDE DEF marked
    <3> QED BY <1>2, <2>1, <3>2, <3>3
  <2> QED BY <2>2, <2>3 DEF Marked
<1>4. /\ execRptBuffer' \in Seq(Reports) /\ execRptBuffer' # <<>> /\ Len(execRptBuffer') = n
      /\ DOMAIN execRptBuffer' = 1..n
      /\ report'.id = report.id /\ report'.size = report.size /\ report'.status \notin Confirmations
  <2>1. /\ execRptBuffer' \in Seq(Reports) /\ Len(execRptBuffer') = n /\ execRptBuffer' # <<>>
        /\ DOMAIN execRptBuffer' = 1..n
    BY <1>2, <1>3
  <2>2. Head(execRptBuffer') = execRptBuffer'[1]
    BY <2>1
  <2> QED BY <1>3, <2>1, <2>2 DEF report
<1>5. Unbooked = execRptBuffer /\ Unbooked' = Tail(execRptBuffer)
  <2>1. Tail(execRptBuffer') = Tail(execRptBuffer)
    <3>1. Len(execRptBuffer') = Len(execRptBuffer)
      BY <1>4 DEF n
    <3>2. \A i \in 1..Len(execRptBuffer) : i # 1 => execRptBuffer'[i] = execRptBuffer[i]
      BY <1>3 DEF n
    <3> QED BY <1>1, <1>2, <1>4, <3>1, <3>2, TailsSame
  <2> QED BY <1>1, <2>1 DEF Unbooked
<1>6. ComingLess(report)
  <2>1. ReportsNamed
    BY <1>0, ReportsOfOrders
  <2>2. Unbooked # <<>> /\ Unbooked' = Tail(Unbooked) /\ Unbooked[1] = report /\ orders' = orders
    BY <1>1, <1>2, <1>5
  <2>3. ComingLess(Unbooked[1])
    BY <1>0, <2>1, <2>2, ReportTaken
  <2> QED BY <2>2, <2>3
<1>7. /\ \A id : JustBooked(id) = 0
      /\ \A id : JustBooked(id)' = (IF report.id = id THEN report.size ELSE 0)
  BY <1>1, <1>4 DEF JustBooked
<1>8. \A id : (Sent(id)' <=> Sent(id)) /\ AtMarket(id)' = AtMarket(id)
  BY <1>1 DEF Sent, SentFor, IsOrder, AtMarket, SizeSent
<1>9. RequestsQueued'
  BY <1>0, <1>1, <1>8 DEF RequestsQueued, Unsent, Queued, request
<1>10. MarketOrders'
  BY <1>0, <1>1 DEF MarketOrders, SentFor, IsOrder
<1>11. ReportsSound'
  <2>1. \A i \in DOMAIN execRptBuffer' : execRptBuffer'[i].id \in DOMAIN open'
    <3>1. \A i \in 1..n : execRptBuffer'[i].id = execRptBuffer[i].id
      BY <1>2, <1>3
    <3> QED BY <1>0, <1>1, <1>2, <1>4, <3>1 DEF ReportsSound
  <2>2. ASSUME NEW k \in DOMAIN Unbooked'
        PROVE  k + 1 \in DOMAIN Unbooked /\ Unbooked'[k] = Unbooked[k + 1]
    BY <1>2, <1>5
  <2>3. \A k \in DOMAIN Unbooked' :
          \/ Unbooked'[k].status \in Confirmations /\ Unbooked'[k].size = 0
          \/ Unbooked'[k].status \in {"FILLED", "CANCELED"} /\ Unbooked'[k].size # 0
    BY <1>0, <2>2 DEF ReportsSound
  <2> QED BY <1>4, <2>1, <2>3 DEF ReportsSound
<1> QED BY <1>1, <1>4, <1>6, <1>7, <1>8, <1>9, <1>10, <1>11 DEF BookedEffect

\* A report meets an order that is pending for at least its size.
LEMMA ReportedPending ==
    ASSUME RiskInv, NEW status \in {"FILLED", "CANCELED"}, Booking(status)
    PROVE  /\ report.id \in DOMAIN orders /\ report.size \in Nat /\ report.size # 0
           /\ report.price \in Nat /\ reported = orders[report.id] /\ reported.symbol \in Symbols
           /\ reported.side = "buy" =>
                 /\ report.id \in DOMAIN pendingBids /\ Bid(report.id) = pendingBids[report.id]
                 /\ report.size <= Bid(report.id).size
           /\ reported.side = "sell" =>
                 /\ report.id \in DOMAIN pendingAsks /\ Ask(report.id) = pendingAsks[report.id]
                 /\ report.size <= Ask(report.id).size
<1> SUFFICES ASSUME NEW r, r = report PROVE
           /\ r.id \in DOMAIN orders /\ r.size \in Nat /\ r.size # 0
           /\ r.price \in Nat /\ reported = orders[r.id] /\ reported.symbol \in Symbols
           /\ reported.side = "buy" =>
                 /\ r.id \in DOMAIN pendingBids /\ Bid(r.id) = pendingBids[r.id]
                 /\ r.size <= Bid(r.id).size
           /\ reported.side = "sell" =>
                 /\ r.id \in DOMAIN pendingAsks /\ Ask(r.id) = pendingAsks[r.id]
                 /\ r.size <= Ask(r.id).size
  OBVIOUS
<1>0. TypeOK /\ ReportsSound /\ EntriesOK /\ PendingExact /\ ReportsNamed
  BY ReportsOfOrders DEF RiskInv
<1>1. /\ execRptBuffer # <<>> /\ ~booked /\ r.status = status
      /\ Unbooked = execRptBuffer
  BY DEF Booking, Unbooked
<1>2. /\ r = execRptBuffer[1] /\ r.size \in Nat /\ r.id \in DOMAIN orders /\ r.price \in Nat
      /\ 1 \in DOMAIN execRptBuffer
  <2>1. execRptBuffer \in Seq(Reports)
    BY <1>0 DEF TypeOK
  <2> QED BY <1>0, <1>1, <2>1, FirstReport
<1>3. r.size # 0
  BY <1>0, <1>1, <1>2 DEF ReportsSound, Confirmations
<1>4. reported = orders[r.id] /\ reported.symbol \in Symbols
  BY <1>0, <1>2, OrderTypes DEF reported
<1>5. r.size <= Bid(r.id).size + Ask(r.id).size
  <2>1. r.size <= SumFunction(SizeComing(r.id)) /\ SumFunction(SizeComing(r.id)) \in Nat
    BY <1>0, <1>1, <1>2, SumValues
  <2>2. AtMarket(r.id) \in Nat
    BY <1>0, SumValues DEF AtMarket, TypeOK
  <2>3. Bid(r.id).size + Ask(r.id).size = AtMarket(r.id) + SumFunction(SizeComing(r.id))
    BY <1>0, <1>2 DEF PendingExact
  <2> QED BY <1>2, <2>1, <2>2, <2>3
<1>6. Bid(r.id).size \in Nat /\ Ask(r.id).size \in Nat
  BY <1>0, PendingTypes
<1>7. /\ reported.side = "buy" => Ask(r.id).size = 0
      /\ reported.side = "sell" => Bid(r.id).size = 0
  BY <1>0, <1>4 DEF EntriesOK, Bid, Ask
<1>8. reported.side = "buy" => r.id \in DOMAIN pendingBids /\ Bid(r.id) = pendingBids[r.id]
  <2>1. reported.side = "buy" => Bid(r.id).size # 0
    BY <1>2, <1>3, <1>5, <1>6, <1>7
  <2> QED BY <2>1 DEF Bid
<1>9. reported.side = "sell" => r.id \in DOMAIN pendingAsks /\ Ask(r.id) = pendingAsks[r.id]
  <2>1. reported.side = "sell" => Ask(r.id).size # 0
    BY <1>2, <1>3, <1>5, <1>6, <1>7
  <2> QED BY <2>1 DEF Ask
<1> QED BY <1>2, <1>3, <1>4, <1>5, <1>6, <1>7, <1>8, <1>9

\* A booking that takes the size of the report off its pending order keeps the types,
\* the lists and the sizes.
LEMMA BookingStep ==
    ASSUME RiskInv, NEW status \in {"FILLED", "CANCELED"}, Booking(status), BookedEffect,
           pendingBids' \in [DOMAIN pendingBids' -> Bids], DOMAIN pendingBids' \subseteq DOMAIN pendingBids,
           pendingAsks' \in [DOMAIN pendingAsks' -> Asks], DOMAIN pendingAsks' \subseteq DOMAIN pendingAsks,
           \A x : Bid(x)'.size + Ask(x)'.size
                    = Bid(x).size + Ask(x).size - (IF report.id = x THEN report.size ELSE 0),
           summary' \in [buyingPower: Int, holding: Int, borrowed: Int],
           items' \in [Symbols -> [long: Int, short: Int, borrowed: Int]],
           shortCash' \in Int, shortUnits' \in [Symbols -> Int]
    PROVE  TypeOK' /\ EntriesOK' /\ ListedWithin' /\ UnfinishedListed' /\ PendingExact'
<1>0. /\ TypeOK /\ EntriesOK /\ ListedWithin /\ UnfinishedListed /\ PendingExact /\ ReportsNamed
      /\ report.size \in Nat
  BY ReportsOfOrders, ReportedPending DEF RiskInv
<1>1. /\ UNCHANGED <<orders, cancelled, orderBuffer, step, usable, waitingList>>
      /\ UNCHANGED <<toMarket, confirming, cancels, open, traded>>
  BY DEF Booking, order, thread, market
<1>2. /\ \A x : Bid(x).size \in Nat /\ Ask(x).size \in Nat
      /\ \A x : Bid(x)'.size \in Nat /\ Ask(x)'.size \in Nat
  <2>1. \A x : Bid(x).size \in Nat /\ Ask(x).size \in Nat
    BY <1>0, PendingTypes
  <2>2. \A x : Bid(x)'.size \in Nat /\ Ask(x)'.size \in Nat
    BY PriceTypes DEF Bid, Ask, Bids, Asks
  <2> QED BY <2>1, <2>2
<1>3. EntriesOK'
  <2>1. \A x \in DOMAIN pendingBids' : orders[x].side = "buy" /\ Sent(x)'
    BY <1>0 DEF EntriesOK, BookedEffect
  <2>2. \A x \in DOMAIN pendingAsks' : orders[x].side = "sell" /\ Sent(x)'
    BY <1>0 DEF EntriesOK, BookedEffect
  <2>3. \A x \in DOMAIN waitingList : Sent(x)'
    BY <1>0 DEF EntriesOK, BookedEffect
  <2> QED BY <1>0, <1>1, <2>1, <2>2, <2>3 DEF EntriesOK
<1>4. ListedWithin'
  <2>1. ASSUME NEW x \in DOMAIN orders
        PROVE  Counted(x)' + Bid(x)'.size + Ask(x)'.size + JustBooked(x)' <= orders[x].size
    <3> DEFINE b == IF report.id = x THEN report.size ELSE 0
    <3>1. Counted(x) + Bid(x).size + Ask(x).size + JustBooked(x) <= orders[x].size
      BY <1>0 DEF ListedWithin
    <3>2. Counted(x)' = Counted(x) /\ Counted(x) \in Nat
      BY <1>0, <1>1 DEF Counted, EntriesOK, Listing
    <3>3. JustBooked(x) = 0 /\ JustBooked(x)' = b
      BY DEF BookedEffect
    <3>4. b \in Nat /\ orders[x].size \in Nat
      BY <1>0, OrderTypes
    <3>5. Bid(x)'.size + Ask(x)'.size = Bid(x).size + Ask(x).size - b
      OBVIOUS
    <3> HIDE DEF b
    <3> QED BY <1>2, <3>1, <3>2, <3>3, <3>4, <3>5
  <2> QED BY <1>1, <2>1 DEF ListedWithin
<1>5. UnfinishedListed'
  BY <1>0, <1>1 DEF UnfinishedListed, request
<1>6. PendingExact'
  <2>1. ASSUME NEW x \in DOMAIN orders
        PROVE  Bid(x)'.size + Ask(x)'.size = AtMarket(x)' + SumFunction(SizeComing(x)')
    <3> DEFINE b == IF report.id = x THEN report.size ELSE 0
    <3>1. Bid(x).size + Ask(x).size = AtMarket(x) + SumFunction(SizeComing(x))
      BY <1>0 DEF PendingExact
    <3>2. SumFunction(SizeComing(x)) = b + SumFunction(SizeComing(x)') /\ AtMarket(x)' = AtMarket(x)
      BY DEF BookedEffect, ComingLess
    <3>3. b \in Nat /\ SumFunction(SizeComing(x)) \in Nat /\ AtMarket(x) \in Int
      <4>1. SumFunction(SizeComing(x)) \in Nat /\ SumFunction(SizeSent(x)) \in Nat
        BY <1>0, SumValues
      <4>2. AtMarket(x) \in Int
        BY <1>0, <4>1 DEF AtMarket, TypeOK
      <4> QED BY <1>0, <4>1, <4>2
    <3>4. Bid(x)'.size + Ask(x)'.size = Bid(x).size + Ask(x).size - b
      OBVIOUS
    <3>5. SumFunction(SizeComing(x)') \in Int
      BY DEF BookedEffect, ComingLess
    <3> HIDE DEF b
    <3> QED BY <1>2, <3>1, <3>2, <3>3, <3>4, <3>5
  <2> QED BY <1>1, <2>1 DEF PendingExact
<1>7. TypeOK'
  <2>1. DOMAIN pendingBids' \cup DOMAIN pendingAsks' \subseteq 1..Len(orders)
    BY <1>0 DEF TypeOK
  <2>2. execRptBuffer' \in Seq(Reports) /\ execRptBuffer' # <<>> /\ booked' \in BOOLEAN
    BY DEF BookedEffect, Booking
  <2> QED BY <1>0, <1>1, <2>1, <2>2 DEF TypeOK
<1> QED BY <1>3, <1>4, <1>5, <1>6, <1>7

\* Products of integers distribute.
LEMMA Distribute ==
    ASSUME NEW p \in Int, NEW a \in Int, NEW b \in Int
    PROVE  /\ p * (a - b) = p * a - p * b
           /\ p * (a + b) = p * a + p * b
           /\ p * a \in Int /\ p * b \in Int
OBVIOUS

\* The price of some lots less others.
LEMMA DistributeLot ==
    ASSUME NEW p \in Int, NEW a \in Int, NEW b \in Int
    PROVE  /\ p * (a - b) * Lot = p * a * Lot - p * b * Lot
           /\ p * a * Lot \in Int /\ p * b * Lot \in Int
BY Distribute DEF Lot

\* A report of a buy order releases what was held for its shares.
LEMMA BidReduced ==
    ASSUME RiskInv, NEW status \in {"FILLED", "CANCELED"}, Booking(status), reported.side = "buy",
           pendingAsks' = pendingAsks,
           NEW bid, bid = Bid(report.id),
           pendingBids' = Kept(pendingBids, report.id, [bid EXCEPT !.size = bid.size - report.size])
    PROVE  /\ pendingBids' \in [DOMAIN pendingBids' -> Bids] /\ DOMAIN pendingBids' \subseteq DOMAIN pendingBids
           /\ \A x : Bid(x)'.size + Ask(x)'.size
                       = Bid(x).size + Ask(x).size - (IF report.id = x THEN report.size ELSE 0)
           /\ HeldFor(bid, report) \in Int
           /\ SumFunction(HeldBids') = SumFunction(HeldBids) - HeldFor(bid, report)
           /\ SumFunction(HeldBids) \in Int
<1> SUFFICES ASSUME NEW id, id = report.id,
                    NEW q, q = report.size,
                    NEW new, new = [bid EXCEPT !.size = bid.size - q]
             PROVE
           /\ pendingBids' \in [DOMAIN pendingBids' -> Bids] /\ DOMAIN pendingBids' \subseteq DOMAIN pendingBids
           /\ \A x : Bid(x)'.size + Ask(x)'.size = Bid(x).size + Ask(x).size - (IF id = x THEN q ELSE 0)
           /\ HeldFor(bid, report) \in Int
           /\ SumFunction(HeldBids') = SumFunction(HeldBids) - HeldFor(bid, report)
           /\ SumFunction(HeldBids) \in Int
  OBVIOUS
<1>0. TypeOK /\ EntriesOK /\ HoldingsBacked
  BY DEF RiskInv
<1>1. /\ id \in DOMAIN pendingBids /\ bid = pendingBids[id] /\ q \in Nat /\ q # 0 /\ q <= bid.size
      /\ bid = Bid(id)
  BY ReportedPending
<1>2. /\ bid \in Bids /\ bid.price \in Nat /\ bid.size \in Nat
      /\ pendingBids \in [DOMAIN pendingBids -> Bids]
  <2>1. pendingBids \in [DOMAIN pendingBids -> Bids]
    BY <1>0 DEF EntriesOK
  <2> QED BY <1>1, <2>1, PriceTypes DEF Bids
<1>3. new.size = bid.size - q /\ new.price = bid.price /\ (new.size # 0 => new \in Bids)
  BY <1>1, <1>2 DEF Bids
<1>4. /\ pendingBids' \in [DOMAIN pendingBids' -> Bids]
      /\ DOMAIN pendingBids' \subseteq DOMAIN pendingBids
      /\ SameBut(pendingBids, pendingBids', id)
      /\ new.size = 0 => id \notin DOMAIN pendingBids'
      /\ new.size # 0 => id \in DOMAIN pendingBids' /\ pendingBids'[id] = new
  <2>1. pendingBids' = Kept(pendingBids, id, new)
    OBVIOUS
  <2>2. pendingBids \in [DOMAIN pendingBids -> Bids] /\ id \in DOMAIN pendingBids
    BY <1>1, <1>2
  <2>3. CASE new.size = 0
    <3>1. pendingBids' = [x \in DOMAIN pendingBids \ {id} |-> pendingBids[x]]
      BY <2>1, <2>3 DEF Kept, Without, Restrict
    <3> QED BY <2>2, <2>3, <3>1 DEF SameBut
  <2>4. CASE new.size # 0
    <3>1. pendingBids' = [x \in DOMAIN pendingBids \cup {id} |-> IF x = id THEN new ELSE pendingBids[x]]
      BY <2>1, <2>4 DEF Kept, With
    <3>2. new \in Bids
      BY <1>3, <2>4
    <3> QED BY <2>2, <2>4, <3>1, <3>2 DEF SameBut
  <2> QED BY <2>3, <2>4
<1>5. /\ Bid(id)'.size = bid.size - q
      /\ Bid(id)' = (IF new.size = 0 THEN [price |-> 0, size |-> 0] ELSE new)
      /\ \A x : x # id => Bid(x)' = Bid(x)
      /\ \A x : Ask(x)' = Ask(x)
  <2>1. Bid(id)' = (IF new.size = 0 THEN [price |-> 0, size |-> 0] ELSE new)
    BY <1>4 DEF Bid
  <2>2. \A x : x # id => Bid(x)' = Bid(x)
    BY <1>4 DEF Bid, SameBut
  <2> QED BY <1>3, <2>1, <2>2 DEF Ask
<1>6. ASSUME NEW x
      PROVE  Bid(x)'.size + Ask(x)'.size = Bid(x).size + Ask(x).size - (IF id = x THEN q ELSE 0)
  <2>1. Ask(x).size \in Nat /\ Bid(x).size \in Nat
    BY <1>0, PendingTypes
  <2>2. CASE x = id
    <3>1. Bid(id)'.size = Bid(id).size - q /\ Ask(id)' = Ask(id) /\ q \in Nat
      BY <1>1, <1>5
    <3> QED BY <2>1, <2>2, <3>1
  <2>3. CASE x # id
    <3>1. Bid(x)' = Bid(x) /\ Ask(x)' = Ask(x)
      BY <1>5, <2>3
    <3> QED BY <2>1, <2>3, <3>1
  <2> QED BY <2>2, <2>3
<1>7. /\ HeldOf(bid) = bid.price * bid.size * Lot
      /\ HeldFor(bid, report) = bid.price * q * Lot
      /\ HeldOf(Bid(id)') = bid.price * (bid.size - q) * Lot
  <2>1. CASE new.size = 0
    <3>1. bid.size - q = 0 /\ HeldOf(Bid(id)') = 0
      BY <1>3, <1>5, <2>1 DEF HeldOf, Lot
    <3> QED BY <1>2, <3>1 DEF HeldOf, HeldFor, Lot
  <2>2. CASE new.size # 0
    BY <1>3, <1>5, <2>2 DEF HeldOf, HeldFor
  <2> QED BY <2>1, <2>2
<1>8. /\ bid.price * (bid.size - q) * Lot = bid.price * bid.size * Lot - bid.price * q * Lot
      /\ bid.price * bid.size * Lot \in Int /\ bid.price * q * Lot \in Int
  <2>1. bid.price \in Int /\ bid.size \in Int /\ q \in Int
    BY <1>1, <1>2
  <2> QED BY <2>1, DistributeLot
<1>9. SumFunction(HeldBids') = SumFunction(HeldBids) - HeldOf(bid) + HeldOf(Bid(id)')
  <2>1. SumFunction(HeldBids') = SumFunction(HeldBids) - HeldOf(Bid(id)) + HeldOf(Bid(id)')
    BY <1>0, <1>4, BidsChanged
  <2> QED BY <1>1, <2>1
<1>10. SumFunction(HeldBids) \in Int
  BY <1>0 DEF HoldingsBacked, TypeOK
<1>11. HeldFor(bid, report) \in Int /\ SumFunction(HeldBids') = SumFunction(HeldBids) - HeldFor(bid, report)
  <2> DEFINE a == bid.price * bid.size * Lot
             b == bid.price * q * Lot
             c == bid.price * (bid.size - q) * Lot
  <2>1. /\ a \in Int /\ b \in Int /\ c = a - b
        /\ HeldOf(bid) = a /\ HeldFor(bid, report) = b /\ HeldOf(Bid(id)') = c
    BY <1>7, <1>8
  <2> HIDE DEF a, b, c
  <2> QED BY <1>9, <1>10, <2>1
<1> QED BY <1>4, <1>6, <1>10, <1>11

\* The report thread releases what was held for the shares that were cancelled.
LEMMA BookCancelBidStep ==
    ASSUME RiskInv, BookCancelBid
    PROVE  RiskInv'
<1> SUFFICES ASSUME NEW bid, bid = Bid(report.id),
                    NEW held, held = HeldFor(bid, report)
             PROVE  RiskInv'
  OBVIOUS
<1>0. TypeOK /\ HoldingsBacked /\ ReservationsExact /\ CashConserved /\ PositionConserved
  BY DEF RiskInv
<1>1. /\ Booking("CANCELED") /\ reported.side = "buy"
      /\ UNCHANGED <<execRptBuffer, items, pendingAsks, shortCash, shortUnits>>
      /\ UNCHANGED <<orders, traded>>
  BY DEF BookCancelBid, Booking, order, market
<1>2. pendingBids' = Kept(pendingBids, report.id, [bid EXCEPT !.size = bid.size - report.size])
  BY DEF BookCancelBid
<1>10. summary' = ReleaseBalance(summary, held)
  BY DEF BookCancelBid
<1>3. BookedEffect
  BY <1>1, BookedStep DEF Marked
<1>4. /\ pendingBids' \in [DOMAIN pendingBids' -> Bids] /\ DOMAIN pendingBids' \subseteq DOMAIN pendingBids
      /\ \A x : Bid(x)'.size + Ask(x)'.size
                  = Bid(x).size + Ask(x).size - (IF report.id = x THEN report.size ELSE 0)
      /\ held \in Int
      /\ SumFunction(HeldBids') = SumFunction(HeldBids) - held
      /\ SumFunction(HeldBids) \in Int
  BY <1>1, <1>2, BidReduced
<1>5. /\ summary' \in [buyingPower: Int, holding: Int, borrowed: Int]
      /\ summary'.buyingPower = summary.buyingPower + held
      /\ summary'.holding = summary.holding - held /\ summary'.borrowed = summary.borrowed
  <2>1. summary \in [buyingPower: Int, holding: Int, borrowed: Int] /\ held \in Int
    BY <1>0, <1>4 DEF TypeOK
  <2>2. summary' = [buyingPower |-> summary.buyingPower + held, holding |-> summary.holding - held,
                    borrowed |-> summary.borrowed]
    BY <1>10, <2>1 DEF ReleaseBalance
  <2> QED BY <2>1, <2>2
<1>6. TypeOK' /\ EntriesOK' /\ ListedWithin' /\ UnfinishedListed' /\ PendingExact'
  <2>1. /\ pendingAsks' \in [DOMAIN pendingAsks' -> Asks] /\ DOMAIN pendingAsks' \subseteq DOMAIN pendingAsks
        /\ items' \in [Symbols -> [long: Int, short: Int, borrowed: Int]]
        /\ shortCash' \in Int /\ shortUnits' \in [Symbols -> Int]
    BY <1>0, <1>1 DEF RiskInv, EntriesOK, TypeOK
  <2> QED BY <1>1, <1>3, <1>4, <1>5, <2>1, BookingStep
<1>7. HoldingsBacked'
  BY <1>0, <1>4, <1>5 DEF HoldingsBacked
<1>8. ReservationsExact'
  <2>1. CashReserved' = CashReserved /\ \A s : UnitsReserved(s)' = UnitsReserved(s)
    BY <1>1 DEF CashReserved, UnitsReserved
  <2> QED BY <1>0, <1>1, <2>1 DEF ReservationsExact
<1>9. CashConserved' /\ PositionConserved'
  <2>1. ProceedsOf(report) = 0 /\ \A s : SharesIn(report, s) = 0
    BY <1>1 DEF ProceedsOf, SharesIn, Booking
  <2>2. /\ SumFunction(CashComing') = SumFunction(CashComing)
        /\ \A s \in Symbols : SumFunction(SharesComing(s)') = SumFunction(SharesComing(s))
    BY <1>3, <2>1 DEF BookedEffect, ComingLess
  <2>3. summary.buyingPower \in Int /\ summary.holding \in Int /\ summary.borrowed \in Int
    BY <1>0 DEF TypeOK
  <2>4. summary'.buyingPower + summary'.holding = summary.buyingPower + summary.holding
    BY <1>4, <1>5, <2>3
  <2> QED BY <1>0, <1>1, <1>5, <2>2, <2>4 DEF CashConserved, PositionConserved
<1> QED BY <1>3, <1>6, <1>7, <1>8, <1>9 DEF RiskInv, BookedEffect

\* What is borrowed in all, when it changes for one symbol.
LEMMA BorrowedChanged ==
    ASSUME TypeOK, PositionConserved, items' \in [Symbols -> [long: Int, short: Int, borrowed: Int]],
           NEW s \in Symbols, \A t \in Symbols : t # s => items'[t] = items[t]
    PROVE  SumFunction([t \in Symbols |-> items'[t].borrowed])
             = summary.borrowed - items[s].borrowed + items'[s].borrowed
<1> DEFINE f == [t \in Symbols |-> items[t].borrowed]
           g == [t \in Symbols |-> items'[t].borrowed]
<1>1. f \in [Symbols -> Int] /\ g \in [Symbols -> Int] /\ f[s] \in Int /\ g[s] \in Int
  BY DEF TypeOK
<1>2. \A t \in Symbols \ {s} : f[t] = g[t]
  OBVIOUS
<1>3. IsFiniteSet(Symbols)
  BY RiskAssumption
<1>4. SumFunction(f) = summary.borrowed /\ f[s] = items[s].borrowed /\ g[s] = items'[s].borrowed
  BY DEF PositionConserved
<1>5. SumFunction(g) = SumFunction(f) - f[s] + g[s]
  <2> HIDE DEF f, g
  <2>1. /\ SumFunction(f) \in Int /\ SumFunction(g) \in Int
        /\ SumFunction(g) - (IF s \in Symbols THEN g[s] ELSE 0) = SumFunction(f) - (IF s \in Symbols THEN f[s] ELSE 0)
    BY <1>1, <1>2, <1>3, SumDiffer
  <2> QED BY <1>1, <2>1
<1> HIDE DEF f
<1>6. SumFunction(g) = summary.borrowed - items[s].borrowed + items'[s].borrowed
  BY <1>4, <1>5
<1> QED BY <1>6

\* The report thread books an execution of a buy order: short shares are bought back
\* first, the money returned for them rounded, and what was held is released.
LEMMA BookBuyStep ==
    ASSUME RiskInv, BookBuy
    PROVE  RiskInv'
<1> SUFFICES ASSUME NEW n, n = report.size * Lot,
                    NEW price, price = report.price,
                    NEW symbol, symbol = reported.symbol,
                    NEW item, item = items[symbol],
                    NEW bid, bid = Bid(report.id),
                    NEW held, held = HeldFor(bid, report),
                    NEW left, left = bid.size - report.size
             PROVE  RiskInv'
  OBVIOUS
<1>0. TypeOK /\ HoldingsBacked /\ ReservationsExact /\ CashConserved /\ PositionConserved
  BY DEF RiskInv
<1>1. /\ Booking("FILLED") /\ reported.side = "buy"
      /\ UNCHANGED <<pendingAsks, shortCash, shortUnits>>
      /\ UNCHANGED <<orders, traded>>
  BY DEF BookBuy, Booking, order, market
<1>2. pendingBids' = Kept(pendingBids, report.id, [bid EXCEPT !.size = bid.size - report.size])
  BY DEF BookBuy
<1>3. PICK loss \in RoundingLoss(item, n) :
         /\ summary' = ReleaseBalance(AddBuyingPower(ReturnBalance(summary, Returned(item, n, loss)),
                                                     -n * price), held)
         /\ items' = [items EXCEPT ![symbol] = Bought(item, n, Returned(item, n, loss))]
  BY DEF BookBuy
<1>4. MarkPartial(left)
  BY DEF BookBuy
<1>5. BookedEffect
  BY <1>1, <1>4, BookedStep DEF Marked, MarkPartial
<1>6. /\ symbol \in Symbols /\ n \in Nat /\ price \in Nat
      /\ item \in [long: Int, short: Int, borrowed: Int] /\ item.long >= 0 /\ item.short >= 0
  <2>1. symbol \in Symbols /\ report.size \in Nat /\ price \in Nat
    BY <1>1, ReportedPending
  <2>2. n \in Nat
    BY <2>1 DEF Lot
  <2> QED BY <1>0, <2>1, <2>2 DEF TypeOK, PositionConserved
<1>7. /\ pendingBids' \in [DOMAIN pendingBids' -> Bids] /\ DOMAIN pendingBids' \subseteq DOMAIN pendingBids
      /\ \A x : Bid(x)'.size + Ask(x)'.size
                  = Bid(x).size + Ask(x).size - (IF report.id = x THEN report.size ELSE 0)
      /\ held \in Int
      /\ SumFunction(HeldBids') = SumFunction(HeldBids) - held
      /\ SumFunction(HeldBids) \in Int
  BY <1>1, <1>2, BidReduced
<1>8. Returned(item, n, loss) \in Int
  <2>1. loss \in Int
    BY DEF RoundingLoss
  <2>2. item.borrowed \in Int /\ item.short \in Nat
    BY <1>6
  <2>3. item.borrowed * n \in Int
    BY <1>6, <2>2
  <2>4. item.short # 0 => (item.borrowed * n) \div item.short \in Int
    BY <2>2, <2>3
  <2> QED BY <1>6, <2>1, <2>2, <2>4 DEF Returned
<1>9. PICK ret \in Int :
         /\ summary' = ReleaseBalance(AddBuyingPower(ReturnBalance(summary, ret), -n * price), held)
         /\ items' = [items EXCEPT ![symbol] = Bought(item, n, ret)]
  BY <1>3, <1>8
<1>10. PICK cost \in Int : cost = n * price
  BY <1>6
<1>11. -n * price = -cost
  BY <1>6, <1>10
<1>12. /\ summary' \in [buyingPower: Int, holding: Int, borrowed: Int]
       /\ summary'.buyingPower = summary.buyingPower + 2 * ret - cost + held
       /\ summary'.holding = summary.holding - held
       /\ summary'.borrowed = summary.borrowed - ret
       /\ summary.buyingPower \in Int /\ summary.holding \in Int /\ summary.borrowed \in Int
  <2>1. summary \in [buyingPower: Int, holding: Int, borrowed: Int] /\ held \in Int
    BY <1>0, <1>7 DEF TypeOK
  <2>2. summary' = ReleaseBalance(AddBuyingPower(ReturnBalance(summary, ret), -cost), held)
    BY <1>9, <1>11
  <2>3. summary' = [buyingPower |-> summary.buyingPower + 2 * ret + (-cost) + held,
                    holding |-> summary.holding - held, borrowed |-> summary.borrowed - ret]
    BY <2>1, <2>2 DEF ReleaseBalance, AddBuyingPower, ReturnBalance
  <2> QED BY <2>1, <2>3
<1>13. /\ items' \in [Symbols -> [long: Int, short: Int, borrowed: Int]]
       /\ \A t \in Symbols : t # symbol => items'[t] = items[t]
       /\ items'[symbol].long - items'[symbol].short = item.long - item.short + n
       /\ items'[symbol].long >= item.long /\ items'[symbol].short >= 0
       /\ items'[symbol].borrowed = item.borrowed - ret
  <2> DEFINE new == Bought(item, n, ret)
  <2>1. /\ Max({n - item.short, 0}) = IF n - item.short >= 0 THEN n - item.short ELSE 0
        /\ Max({item.short - n, 0}) = IF item.short - n >= 0 THEN item.short - n ELSE 0
    BY <1>6, MaxTwo
  <2>2. /\ new \in [long: Int, short: Int, borrowed: Int]
        /\ new.long - new.short = item.long - item.short + n
        /\ new.long >= item.long /\ new.short >= 0
        /\ new.borrowed = item.borrowed - ret
    BY <1>6, <2>1 DEF Bought
  <2>3. items \in [Symbols -> [long: Int, short: Int, borrowed: Int]] /\ items' = [items EXCEPT ![symbol] = new]
    BY <1>0, <1>9 DEF TypeOK
  <2> HIDE DEF new
  <2> QED BY <1>6, <2>2, <2>3
<1>14. TypeOK' /\ EntriesOK' /\ ListedWithin' /\ UnfinishedListed' /\ PendingExact'
  <2>1. /\ pendingAsks' \in [DOMAIN pendingAsks' -> Asks] /\ DOMAIN pendingAsks' \subseteq DOMAIN pendingAsks
        /\ shortCash' \in Int /\ shortUnits' \in [Symbols -> Int]
    BY <1>0, <1>1 DEF RiskInv, EntriesOK, TypeOK
  <2> QED BY <1>1, <1>5, <1>7, <1>12, <1>13, <2>1, BookingStep
<1>15. HoldingsBacked'
  BY <1>0, <1>7, <1>12 DEF HoldingsBacked
<1>16. ReservationsExact'
  <2>1. CashReserved' = CashReserved /\ \A s : UnitsReserved(s)' = UnitsReserved(s)
    BY <1>1 DEF CashReserved, UnitsReserved
  <2>2. \A s \in Symbols : items'[s].long \in Int /\ items[s].long \in Int /\ shortUnits[s] \in Int
                           /\ items'[s].long >= items[s].long
    <3>1. \A s \in Symbols : items'[s].long \in Int /\ items[s].long \in Int /\ shortUnits[s] \in Int
      BY <1>0, <1>13 DEF TypeOK
    <3>2. \A s \in Symbols : s = symbol \/ items'[s] = items[s]
      BY <1>13
    <3> QED BY <1>13, <3>1, <3>2
  <2>3. \A s \in Symbols : shortUnits'[s] <= items'[s].long
    BY <1>0, <1>1, <2>2 DEF ReservationsExact
  <2> QED BY <1>0, <1>1, <2>1, <2>3 DEF ReservationsExact
<1>17. /\ ProceedsOf(report) = -cost
       /\ \A s : SharesIn(report, s) = IF symbol = s THEN n ELSE 0
  <2>1. report.status = "FILLED" /\ reported = orders[report.id]
    BY <1>1, ReportedPending DEF Booking
  <2> QED BY <1>1, <1>11, <2>1 DEF ProceedsOf, SharesIn, Proceeds, SharesOf
<1>18. CashConserved'
  <2> DEFINE before == SumFunction(CashComing)
             after == SumFunction(CashComing')
  <2>1. before = -cost + after /\ after \in Int
    BY <1>5, <1>17 DEF BookedEffect, ComingLess
  <2>2. summary.buyingPower + summary.holding + 2 * summary.borrowed + before = BuyingPower + traded.cash
    BY <1>0 DEF CashConserved
  <2> HIDE DEF before, after
  <2>3. summary'.buyingPower + summary'.holding + 2 * summary'.borrowed + after
          = summary.buyingPower + summary.holding + 2 * summary.borrowed + before
    BY <1>7, <1>12, <2>1
  <2> QED BY <1>1, <2>2, <2>3 DEF CashConserved, before, after
<1>19. PositionConserved'
  <2>1. ASSUME NEW s \in Symbols
        PROVE  /\ items'[s].long - items'[s].short + SumFunction(SharesComing(s)') = LongShares[s] + traded'.shares[s]
               /\ items'[s].long >= 0 /\ items'[s].short >= 0
    <3>1. /\ items[s].long - items[s].short + SumFunction(SharesComing(s)) = LongShares[s] + traded.shares[s]
          /\ items[s].long >= 0 /\ items[s].short >= 0
          /\ items[s].long \in Int /\ items[s].short \in Int
          /\ items'[s].long \in Int /\ items'[s].short \in Int
      BY <1>0, <1>13 DEF PositionConserved, TypeOK
    <3>2. /\ SumFunction(SharesComing(s)) = SharesIn(report, s) + SumFunction(SharesComing(s)')
          /\ SumFunction(SharesComing(s)') \in Int
      BY <1>5 DEF BookedEffect, ComingLess
    <3>3. traded' = traded
      BY <1>1
    <3>4. CASE s = symbol
      <4>1. SharesIn(report, s) = n
        BY <1>17, <3>4
      <4> QED BY <1>6, <1>13, <3>1, <3>2, <3>3, <3>4, <4>1
    <3>5. CASE s # symbol
      <4>1. SharesIn(report, s) = 0 /\ items'[s] = items[s]
        BY <1>13, <1>17, <3>5
      <4> QED BY <3>1, <3>2, <3>3, <4>1
    <3> QED BY <3>4, <3>5
  <2>2. SumFunction([t \in Symbols |-> items'[t].borrowed]) = summary'.borrowed
    <3>1. SumFunction([t \in Symbols |-> items'[t].borrowed])
            = summary.borrowed - items[symbol].borrowed + items'[symbol].borrowed
      BY <1>0, <1>6, <1>13, BorrowedChanged
    <3>2. item.borrowed \in Int
      BY <1>6
    <3> QED BY <1>12, <1>13, <3>1, <3>2
  <2> QED BY <2>1, <2>2 DEF PositionConserved
<1> QED BY <1>5, <1>14, <1>15, <1>16, <1>18, <1>19 DEF RiskInv, BookedEffect

\* Products, kept folded where the arithmetic is linear.
SharesFor(q) == q * Lot
CashFor(ask, n) == ask.price * n
Reduced(ask, q, own) == [ask EXCEPT !.size = ask.size - q, !.reserved = ask.reserved - own]

\* own of the shares of a report were reserved and short were not: what is left of the
\* order, and what remains reserved.
AskSplit(own, short) ==
    /\ own + short = SharesFor(report.size) /\ short >= 0
    /\ own \in 0..Ask(report.id).reserved
    /\ Ask(report.id).reserved - own <= SharesFor(Ask(report.id).size - report.size)
    /\ pendingAsks' = Kept(pendingAsks, report.id, Reduced(Ask(report.id), report.size, own))
    /\ shortCash' = shortCash - CashFor(Ask(report.id), short)
    /\ shortUnits' = [shortUnits EXCEPT ![reported.symbol] = @ - own]
    /\ items' \in [Symbols -> [long: Int, short: Int, borrowed: Int]]
    /\ \A s \in Symbols : items'[s].long >= items[s].long - (IF s = reported.symbol THEN own ELSE 0)

\* A report of a sell order takes shares off the reserved ones, and the others off
\* those the money is reserved for.
LEMMA AskReduced ==
    ASSUME RiskInv, NEW status \in {"FILLED", "CANCELED"}, Booking(status), reported.side = "sell",
           pendingBids' = pendingBids,
           NEW own \in Int, NEW short \in Int, AskSplit(own, short)
    PROVE  /\ pendingAsks' \in [DOMAIN pendingAsks' -> Asks] /\ DOMAIN pendingAsks' \subseteq DOMAIN pendingAsks
           /\ \A x : Bid(x)'.size + Ask(x)'.size
                       = Bid(x).size + Ask(x).size - (IF report.id = x THEN report.size ELSE 0)
           /\ shortCash' \in Int /\ shortUnits' \in [Symbols -> Int]
           /\ own <= items[reported.symbol].long
           /\ ReservationsExact'
<1> SUFFICES ASSUME NEW id, id = report.id, NEW q, q = report.size, NEW ask, ask = Ask(id),
                    NEW symbol, symbol = reported.symbol, NEW new, new = Reduced(ask, q, own),
                    own + short = SharesFor(q), short >= 0,
                    own \in 0..ask.reserved, ask.reserved - own <= SharesFor(ask.size - q),
                    pendingAsks' = Kept(pendingAsks, id, new),
                    shortCash' = shortCash - CashFor(ask, short),
                    shortUnits' = [shortUnits EXCEPT ![symbol] = @ - own],
                    items' \in [Symbols -> [long: Int, short: Int, borrowed: Int]],
                    \A s \in Symbols : items'[s].long >= items[s].long - (IF s = symbol THEN own ELSE 0)
             PROVE  /\ pendingAsks' \in [DOMAIN pendingAsks' -> Asks] /\ DOMAIN pendingAsks' \subseteq DOMAIN pendingAsks
                    /\ \A x : Bid(x)'.size + Ask(x)'.size
                                = Bid(x).size + Ask(x).size - (IF id = x THEN q ELSE 0)
                    /\ shortCash' \in Int /\ shortUnits' \in [Symbols -> Int]
                    /\ own <= items[symbol].long
                    /\ ReservationsExact'
  BY ZenonT(60) DEF AskSplit
<1>0. TypeOK /\ EntriesOK /\ ReservationsExact
  BY DEF RiskInv
<1>1. /\ id \in DOMAIN pendingAsks /\ ask = pendingAsks[id] /\ q \in Nat /\ q # 0 /\ q <= ask.size
      /\ symbol \in Symbols /\ symbol = orders[id].symbol /\ orders' = orders
  <2>1. orders' = orders
    BY DEF Booking, order
  <2> QED BY <2>1, ReportedPending
<1>2. /\ ask \in Asks /\ ask.price \in Nat /\ ask.size \in Nat /\ ask.reserved \in Int
      /\ pendingAsks \in [DOMAIN pendingAsks -> Asks]
  <2>1. pendingAsks \in [DOMAIN pendingAsks -> Asks]
    BY <1>0 DEF EntriesOK
  <2> QED BY <1>1, <2>1, PriceTypes DEF Asks
<1>3. /\ new.size = ask.size - q /\ new.price = ask.price /\ new.reserved = ask.reserved - own
      /\ new.size # 0 => new \in Asks
      /\ new.size \in Nat /\ new.reserved \in Int
  <2>1. new = [price |-> ask.price, size |-> ask.size - q, reserved |-> ask.reserved - own]
    BY <1>2 DEF Asks, Reduced
  <2>2. ask.size - q \in Nat /\ ask.reserved - own \in Int /\ ask.price \in Prices
    <3>1. ask.price \in Prices
      BY <1>2 DEF Asks
    <3>2. ask.size - q \in Nat
      BY <1>1, <1>2
    <3>3. ask.reserved - own \in Int
      BY <1>2
    <3> QED BY <3>1, <3>2, <3>3
  <2> QED BY <2>1, <2>2 DEF Asks
<1>4. /\ pendingAsks' \in [DOMAIN pendingAsks' -> Asks]
      /\ DOMAIN pendingAsks' \subseteq DOMAIN pendingAsks
      /\ SameBut(pendingAsks, pendingAsks', id)
      /\ new.size = 0 => id \notin DOMAIN pendingAsks'
      /\ new.size # 0 => id \in DOMAIN pendingAsks' /\ pendingAsks'[id] = new
  <2>1. pendingAsks' = Kept(pendingAsks, id, new)
    OBVIOUS
  <2>2. pendingAsks \in [DOMAIN pendingAsks -> Asks] /\ id \in DOMAIN pendingAsks
    BY <1>1, <1>2
  <2>3. CASE new.size = 0
    <3>1. pendingAsks' = [x \in DOMAIN pendingAsks \ {id} |-> pendingAsks[x]]
      BY <2>1, <2>3 DEF Kept, Without, Restrict
    <3> QED BY <2>2, <2>3, <3>1 DEF SameBut
  <2>4. CASE new.size # 0
    <3>1. pendingAsks' = [x \in DOMAIN pendingAsks \cup {id} |-> IF x = id THEN new ELSE pendingAsks[x]]
      BY <2>1, <2>4 DEF Kept, With
    <3>2. new \in Asks
      BY <1>3, <2>4
    <3> QED BY <2>2, <2>4, <3>1, <3>2 DEF SameBut
  <2> QED BY <2>3, <2>4
<1>5. /\ Ask(id)' = (IF new.size = 0 THEN [price |-> 0, size |-> 0, reserved |-> 0] ELSE new)
      /\ Ask(id)'.size = ask.size - q
      /\ \A x : x # id => Ask(x)' = Ask(x)
      /\ \A x : Bid(x)' = Bid(x)
  <2>1. Ask(id)' = (IF new.size = 0 THEN [price |-> 0, size |-> 0, reserved |-> 0] ELSE new)
    BY <1>4 DEF Ask
  <2>2. \A x : x # id => Ask(x)' = Ask(x)
    BY <1>4 DEF Ask, SameBut
  <2> QED BY <1>3, <2>1, <2>2 DEF Bid
<1>6. ASSUME NEW x
      PROVE  Bid(x)'.size + Ask(x)'.size = Bid(x).size + Ask(x).size - (IF id = x THEN q ELSE 0)
  <2>1. Ask(x).size \in Nat /\ Bid(x).size \in Nat
    BY <1>0, PendingTypes
  <2>2. CASE x = id
    <3>1. Ask(id)'.size = Ask(id).size - q /\ Bid(id)' = Bid(id) /\ q \in Nat
      BY <1>1, <1>5
    <3> QED BY <2>1, <2>2, <3>1
  <2>3. CASE x # id
    <3>1. Bid(x)' = Bid(x) /\ Ask(x)' = Ask(x)
      BY <1>5, <2>3
    <3> QED BY <2>1, <2>3, <3>1
  <2> QED BY <2>2, <2>3
<1>7. /\ new.size = 0 => new.reserved = 0
      /\ new.reserved \in 0..new.size * Lot
      /\ new.size * Lot - new.reserved = ask.size * Lot - ask.reserved - short
      /\ ask.size * Lot - ask.reserved \in Int
  <2> DEFINE a == ask.size
             r == ask.reserved
  <2>1. a \in Nat /\ r \in Int /\ q \in Nat /\ q <= a /\ own \in 0..r
    BY <1>1, <1>2
  <2>2. own + short = q * 100 /\ r - own <= (a - q) * 100
    BY DEF SharesFor, Lot
  <2>3. new.size = a - q /\ new.reserved = r - own
    BY <1>3
  <2>4. r - own >= 0 /\ r - own <= a * 100 - q * 100 /\ (a - q) * 100 = a * 100 - q * 100
    BY <2>1, <2>2
  <2>5. r \in 0..a * 100
    BY <1>0, <1>1 DEF ReservationsExact, Lot
  <2> HIDE DEF a, r
  <2>6. (a - q) * 100 - (r - own) = a * 100 - r - short
    BY <2>1, <2>2, <2>4
  <2>7. a - q = 0 => r - own = 0
    BY <2>1, <2>2, <2>4
  <2>8. r - own \in 0..(a - q) * 100 /\ a * 100 - r \in Int
    BY <2>1, <2>2, <2>4
  <2> QED BY <2>3, <2>6, <2>7, <2>8 DEF Lot, a, r
<1>8. /\ CashOf(Ask(id)') = ask.price * (new.size * Lot - new.reserved)
      /\ \A s : UnitsOf(id, Ask(id)', s) = IF symbol = s THEN new.reserved ELSE 0
  <2>1. CASE new.size = 0
    <3>1. Ask(id)' = [price |-> 0, size |-> 0, reserved |-> 0] /\ new.reserved = 0 /\ new.size * Lot = 0
      BY <1>5, <1>7, <2>1 DEF Lot
    <3>2. CashOf(Ask(id)') = 0 /\ ask.price * (new.size * Lot - new.reserved) = 0
      BY <1>2, <3>1 DEF CashOf, Lot
    <3> QED BY <1>1, <3>1, <3>2 DEF UnitsOf
  <2>2. CASE new.size # 0
    BY <1>1, <1>3, <1>5, <2>2 DEF CashOf, UnitsOf
  <2> QED BY <2>1, <2>2
<1>9. /\ SumFunction(CashReserved') = SumFunction(CashReserved) - CashOf(ask) + CashOf(Ask(id)')
      /\ \A s : SumFunction(UnitsReserved(s)')
                  = SumFunction(UnitsReserved(s)) - UnitsOf(id, ask, s) + UnitsOf(id, Ask(id)', s)
  BY <1>0, <1>1, <1>4, AsksChanged
<1>10. shortCash \in Int /\ CashFor(ask, short) \in Int /\ shortUnits \in [Symbols -> Int]
  <2>1. shortCash \in Int /\ shortUnits \in [Symbols -> Int]
    BY <1>0 DEF TypeOK
  <2>2. CashFor(ask, short) \in Int
    BY <1>2 DEF CashFor
  <2> QED BY <2>1, <2>2
<1>11. shortCash' \in Int
  BY <1>10
<1>12. shortCash' = SumFunction(CashReserved')
  <2> DEFINE open0 == ask.size * Lot - ask.reserved
  <2>1. CashOf(ask) = ask.price * open0 /\ CashOf(Ask(id)') = ask.price * (open0 - short) /\ open0 \in Int
    BY <1>7, <1>8 DEF CashOf
  <2>2. ask.price \in Int
    BY <1>2
  <2> HIDE DEF open0
  <2>3. ask.price * (open0 - short) = ask.price * open0 - ask.price * short /\ ask.price * open0 \in Int
    BY <2>1, <2>2, Distribute
  <2>4. shortCash = SumFunction(CashReserved) /\ shortCash' = shortCash - ask.price * short
    BY <1>0 DEF ReservationsExact, CashFor
  <2>5. SumFunction(CashReserved') = SumFunction(CashReserved) - ask.price * open0 + (ask.price * open0 - ask.price * short)
    BY <1>9, <2>1, <2>3
  <2>6. ask.price * short \in Int
    BY <1>10 DEF CashFor
  <2> DEFINE a == ask.price * open0
             b == ask.price * short
  <2>7. /\ SumFunction(CashReserved') = SumFunction(CashReserved) - a + (a - b)
        /\ shortCash' = shortCash - b /\ a \in Int /\ b \in Int
    BY <2>3, <2>4, <2>5, <2>6
  <2> HIDE DEF a, b
  <2> QED BY <1>10, <2>4, <2>7
<1>13. /\ shortUnits' \in [Symbols -> Int]
       /\ shortUnits'[symbol] = shortUnits[symbol] - own
       /\ \A s \in Symbols : s # symbol => shortUnits'[s] = shortUnits[s]
  BY <1>1, <1>10
<1>14. ASSUME NEW s \in Symbols
       PROVE  shortUnits'[s] = SumFunction(UnitsReserved(s)') /\ shortUnits'[s] <= items'[s].long
  <2>1. /\ shortUnits[s] = SumFunction(UnitsReserved(s)) /\ shortUnits[s] <= items[s].long
        /\ shortUnits[s] \in Int /\ items[s].long \in Int /\ items'[s].long \in Int
    BY <1>0 DEF ReservationsExact, TypeOK
  <2>2. SumFunction(UnitsReserved(s)')
          = SumFunction(UnitsReserved(s)) - UnitsOf(id, ask, s) + UnitsOf(id, Ask(id)', s)
    BY <1>9
  <2>3. UnitsOf(id, ask, s) = IF symbol = s THEN ask.reserved ELSE 0
    BY <1>1 DEF UnitsOf
  <2>4. UnitsOf(id, Ask(id)', s) = IF symbol = s THEN ask.reserved - own ELSE 0
    BY <1>3, <1>8
  <2>5. items'[s].long >= items[s].long - (IF s = symbol THEN own ELSE 0)
    OBVIOUS
  <2>6. CASE s = symbol
    <3>1. SumFunction(UnitsReserved(s)') = shortUnits[s] - ask.reserved + (ask.reserved - own)
      BY <2>1, <2>2, <2>3, <2>4, <2>6
    <3>2. items'[s].long >= items[s].long - own
      BY <2>5, <2>6
    <3>3. shortUnits'[s] = shortUnits[s] - own
      BY <1>13, <2>6
    <3> QED BY <1>2, <2>1, <3>1, <3>2, <3>3
  <2>7. CASE s # symbol
    <3>1. SumFunction(UnitsReserved(s)') = shortUnits[s] - 0 + 0
      BY <2>1, <2>2, <2>3, <2>4, <2>7
    <3>2. items'[s].long >= items[s].long - 0
      BY <2>5, <2>7
    <3>3. shortUnits'[s] = shortUnits[s]
      BY <1>13, <2>7
    <3> QED BY <2>1, <3>1, <3>2, <3>3
  <2> QED BY <2>6, <2>7
<1>15. ASSUME NEW x \in DOMAIN pendingAsks'
       PROVE  pendingAsks'[x].reserved \in 0..pendingAsks'[x].size * Lot
  <2>1. CASE x = id
    <3>1. pendingAsks'[x] = new
      BY <1>4, <2>1
    <3> QED BY <1>7, <3>1
  <2>2. CASE x # id
    BY <1>0, <1>4, <2>2 DEF ReservationsExact, SameBut
  <2> QED BY <2>1, <2>2
<1>16. ReservationsExact'
  BY <1>12, <1>14, <1>15 DEF ReservationsExact
<1>17. own <= items[symbol].long
  <2>1. UnitsReserved(symbol) \in [DOMAIN pendingAsks -> Int]
    BY <1>2 DEF UnitsReserved, Asks
  <2>2. \A x \in DOMAIN pendingAsks : UnitsReserved(symbol)[x] >= 0
    <3>1. \A x \in DOMAIN pendingAsks : pendingAsks[x].reserved \in 0..pendingAsks[x].size * Lot
      BY <1>0 DEF ReservationsExact
    <3>2. \A x \in DOMAIN pendingAsks : pendingAsks[x].reserved >= 0
      BY <3>1
    <3> QED BY <3>2 DEF UnitsReserved
  <2>3. UnitsReserved(symbol)[id] = ask.reserved
    BY <1>1 DEF UnitsReserved
  <2>4. IsFiniteSet(DOMAIN pendingAsks)
    BY <1>0, PendingFinite
  <2>5. UnitsReserved(symbol)[id] <= SumFunction(UnitsReserved(symbol))
    BY <1>1, <2>1, <2>2, <2>4, SumNat
  <2>6. /\ SumFunction(UnitsReserved(symbol)) = shortUnits[symbol] /\ shortUnits[symbol] <= items[symbol].long
        /\ shortUnits[symbol] \in Int /\ items[symbol].long \in Int
    BY <1>0, <1>1 DEF ReservationsExact, TypeOK
  <2> QED BY <1>2, <2>3, <2>5, <2>6
<1> QED BY <1>4, <1>6, <1>11, <1>13, <1>16, <1>17

\* The shares of a report, when those to be borrowed are taken first and when the
\* reserved ones are: x shares are pending, r of them reserved, y are reported.
LEMMA BorrowedFirst ==
    ASSUME NEW x \in Int, NEW r \in Int, NEW y \in Int, 0 <= r, r <= x, 0 <= y, y <= x,
           NEW short, short = Min({y, x - r}), NEW own, own = y - short
    PROVE  /\ own \in Int /\ short \in Int /\ own + short = y /\ short >= 0
           /\ own >= 0 /\ own <= r /\ r - own <= x - y
<1>1. x - r \in Int
  OBVIOUS
<1>2. short = IF y <= x - r THEN y ELSE x - r
  BY <1>1, MaxTwo
<1> QED BY <1>2

\* The same when the reserved shares are taken first.
LEMMA ReservedFirst ==
    ASSUME NEW x \in Int, NEW r \in Int, NEW y \in Int, 0 <= r, r <= x, 0 <= y, y <= x,
           NEW own, own = Min({y, r}), NEW short, short = y - own
    PROVE  /\ own \in Int /\ short \in Int /\ own + short = y /\ short >= 0
           /\ own >= 0 /\ own <= r /\ r - own <= x - y
<1>1. own = IF y <= r THEN y ELSE r
  BY MaxTwo
<1>2. own \in Int /\ own >= 0 /\ own <= r /\ own <= y
  BY <1>1
<1>3. short \in Int /\ own + short = y /\ short >= 0
  BY <1>2
<1> QED BY <1>1, <1>2, <1>3

\* The proceeds of own shares are paid, those of borrowed ones withheld.
LEMMA Lent ==
    ASSUME NEW s \in [buyingPower: Int, holding: Int, borrowed: Int], NEW paid \in Int, NEW v \in Int,
           NEW t, t = BorrowBalance(AddBuyingPower(s, paid), v)
    PROVE  t = [buyingPower |-> s.buyingPower + paid - v, holding |-> s.holding, borrowed |-> s.borrowed + v]
<1> SUFFICES ASSUME NEW u, u = AddBuyingPower(s, paid), t = BorrowBalance(u, v)
             PROVE  t = [buyingPower |-> s.buyingPower + paid - v, holding |-> s.holding,
                         borrowed |-> s.borrowed + v]
  OBVIOUS
<1>1. u = [buyingPower |-> s.buyingPower + paid, holding |-> s.holding, borrowed |-> s.borrowed]
  BY DEF AddBuyingPower
<1>2. u \in [buyingPower: Int, holding: Int, borrowed: Int]
  BY <1>1
<1>3. t = [buyingPower |-> u.buyingPower - v, holding |-> u.holding, borrowed |-> u.borrowed + v]
  BY <1>2 DEF BorrowBalance
<1> QED BY <1>1, <1>3

\* What is left of an order of size a when q is reported.
LEMMA SharesLeft ==
    ASSUME NEW a \in Nat, NEW q \in Nat, q <= a
    PROVE  /\ SharesFor(a) = a * Lot /\ SharesFor(a) \in Int /\ SharesFor(q) \in Int
           /\ 0 <= SharesFor(q) /\ SharesFor(q) <= SharesFor(a)
           /\ SharesFor(a - q) = SharesFor(a) - SharesFor(q)
BY DEF SharesFor, Lot

\* The report thread frees the shares and the cash of a cancelled sell order.
LEMMA BookCancelAskStep ==
    ASSUME RiskInv, BookCancelAsk
    PROVE  RiskInv'
<1> SUFFICES ASSUME NEW id, id = report.id, NEW q, q = report.size,
                    NEW ask, ask = Ask(id),
                    NEW symbol, symbol = reported.symbol,
                    NEW n, n = SharesFor(q),
                    NEW short, short = Min({n, ask.size * Lot - ask.reserved}),
                    NEW own, own = n - short,
                    NEW new, new = Reduced(ask, q, own)
             PROVE  RiskInv'
  OBVIOUS
<1>0. /\ TypeOK /\ EntriesOK /\ HoldingsBacked /\ ReservationsExact /\ CashConserved /\ PositionConserved
  BY DEF RiskInv
<1>1. /\ Booking("CANCELED") /\ reported.side = "sell"
      /\ UNCHANGED <<execRptBuffer, summary, items, pendingBids>>
      /\ UNCHANGED <<orders, traded>>
  BY DEF BookCancelAsk, Booking, order, market, account
<1>2. /\ shortCash' = shortCash - CashFor(ask, short)
      /\ shortUnits' = [shortUnits EXCEPT ![symbol] = @ - own]
      /\ pendingAsks' = Kept(pendingAsks, id, [ask EXCEPT !.size = @ - q, !.reserved = @ - own])
  BY DEF BookCancelAsk, CashFor, SharesFor
<1>3. BookedEffect
  BY <1>1, BookedStep DEF Marked
<1>4. /\ ask \in Asks /\ ask.price \in Nat /\ ask.size \in Nat /\ ask.reserved \in 0..ask.size * Lot
      /\ q \in Nat /\ q <= ask.size
  <2>1. id \in DOMAIN pendingAsks /\ ask = pendingAsks[id] /\ q \in Nat /\ q <= ask.size
    BY <1>1, ReportedPending
  <2> QED BY <1>0, <2>1, PriceTypes DEF EntriesOK, Asks, ReservationsExact
<1>5. pendingAsks' = Kept(pendingAsks, id, new)
  <2>1. [ask EXCEPT !.size = @ - q, !.reserved = @ - own] = new
    BY <1>4 DEF Reduced, Asks
  <2> QED BY <1>2, <2>1
<1>6. /\ own \in Int /\ short \in Int /\ own + short = SharesFor(q) /\ short >= 0
      /\ own \in 0..ask.reserved /\ ask.reserved - own <= SharesFor(ask.size - q)
  <2> DEFINE x == SharesFor(ask.size)
             r == ask.reserved
  <2>1. /\ x = ask.size * Lot /\ x \in Int /\ n \in Int /\ 0 <= n /\ n <= x
        /\ SharesFor(ask.size - q) = x - n
    BY <1>4, SharesLeft
  <2>2. r \in Int /\ 0 <= r /\ r <= x
    BY <1>4, <2>1
  <2>3. short = Min({n, x - r})
    BY <2>1
  <2> HIDE DEF x, r
  <2>4. /\ own \in Int /\ short \in Int /\ own + short = n /\ short >= 0
        /\ own >= 0 /\ own <= r /\ r - own <= x - n
    BY <2>1, <2>2, <2>3, BorrowedFirst
  <2>5. own \in 0..r
    BY <2>2, <2>4
  <2> QED BY <2>1, <2>4, <2>5 DEF r
<1>7. /\ items' \in [Symbols -> [long: Int, short: Int, borrowed: Int]]
      /\ \A s \in Symbols : items'[s].long >= items[s].long - (IF s = symbol THEN own ELSE 0)
  <2>1. items \in [Symbols -> [long: Int, short: Int, borrowed: Int]] /\ items' = items
    BY <1>0, <1>1 DEF TypeOK
  <2>2. own \in Int /\ own >= 0
    BY <1>4, <1>6
  <2>3. ASSUME NEW s \in Symbols PROVE items[s].long >= items[s].long - (IF s = symbol THEN own ELSE 0)
    <3>1. items[s].long \in Int
      BY <2>1
    <3> QED BY <2>2, <3>1
  <2> QED BY <2>1, <2>3
<1>8. /\ pendingAsks' \in [DOMAIN pendingAsks' -> Asks] /\ DOMAIN pendingAsks' \subseteq DOMAIN pendingAsks
      /\ \A x : Bid(x)'.size + Ask(x)'.size
                  = Bid(x).size + Ask(x).size - (IF report.id = x THEN report.size ELSE 0)
      /\ shortCash' \in Int /\ shortUnits' \in [Symbols -> Int]
      /\ ReservationsExact'
  <2>1. "CANCELED" \in {"FILLED", "CANCELED"} /\ Booking("CANCELED") /\ reported.side = "sell"
    BY <1>1
  <2>2. pendingBids' = pendingBids
    BY <1>1
  <2>3. /\ own \in Int /\ short \in Int /\ own + short = SharesFor(q) /\ short >= 0
        /\ own \in 0..ask.reserved /\ ask.reserved - own <= SharesFor(ask.size - q)
    BY <1>6
  <2>4. shortCash' = shortCash - CashFor(ask, short) /\ shortUnits' = [shortUnits EXCEPT ![symbol] = @ - own]
    BY <1>2
  <2>5. AskSplit(own, short)
    BY <1>5, <1>7, <2>3, <2>4 DEF AskSplit
  <2> QED BY <2>1, <2>2, <2>3, <2>5, AskReduced
<1>9. TypeOK' /\ EntriesOK' /\ ListedWithin' /\ UnfinishedListed' /\ PendingExact'
  <2>1. /\ pendingBids' \in [DOMAIN pendingBids' -> Bids] /\ DOMAIN pendingBids' \subseteq DOMAIN pendingBids
        /\ summary' \in [buyingPower: Int, holding: Int, borrowed: Int]
    BY <1>0, <1>1 DEF EntriesOK, TypeOK
  <2> QED BY <1>1, <1>3, <1>7, <1>8, <2>1, BookingStep
<1>10. HoldingsBacked'
  <2>1. HeldBids' = HeldBids
    BY <1>1 DEF HeldBids
  <2> QED BY <1>0, <1>1, <2>1 DEF HoldingsBacked
<1>11. CashConserved' /\ PositionConserved'
  <2>1. ProceedsOf(report) = 0 /\ \A s : SharesIn(report, s) = 0
    BY <1>1 DEF ProceedsOf, SharesIn, Booking
  <2>2. /\ SumFunction(CashComing') = SumFunction(CashComing)
        /\ \A s \in Symbols : SumFunction(SharesComing(s)') = SumFunction(SharesComing(s))
    BY <1>3, <2>1 DEF BookedEffect, ComingLess
  <2> QED BY <1>0, <1>1, <2>2 DEF CashConserved, PositionConserved
<1> QED BY <1>3, <1>8, <1>9, <1>10, <1>11 DEF RiskInv, BookedEffect

\* The report thread books an execution of a sell order: own shares are paid, the
\* others borrowed.
LEMMA BookSellStep ==
    ASSUME RiskInv, BookSell
    PROVE  RiskInv'
<1> SUFFICES ASSUME NEW id, id = report.id, NEW q, q = report.size,
                    NEW price, price = report.price,
                    NEW ask, ask = Ask(id),
                    NEW symbol, symbol = reported.symbol,
                    NEW n, n = SharesFor(q),
                    NEW own, own = Min({n, ask.reserved}),
                    NEW short, short = n - own,
                    NEW left, left = ask.size - q,
                    NEW new, new = Reduced(ask, q, own)
             PROVE  RiskInv'
  OBVIOUS
<1>0. /\ TypeOK /\ EntriesOK /\ HoldingsBacked /\ ReservationsExact /\ CashConserved /\ PositionConserved
  BY DEF RiskInv
<1>1. /\ Booking("FILLED") /\ reported.side = "sell"
      /\ UNCHANGED pendingBids
      /\ UNCHANGED <<orders, traded>>
      /\ MarkPartial(left)
  BY DEF BookSell, Booking, order, market
<1>2. /\ shortCash' = shortCash - CashFor(ask, short)
      /\ shortUnits' = [shortUnits EXCEPT ![symbol] = @ - own]
      /\ pendingAsks' = Kept(pendingAsks, id, [ask EXCEPT !.size = left, !.reserved = @ - own])
  BY DEF BookSell, CashFor, SharesFor
<1>3. /\ summary' = BorrowBalance(AddBuyingPower(summary, own * price), short * price)
      /\ items' = [items EXCEPT ![symbol] = [long |-> @.long - own, short |-> @.short + short,
                                             borrowed |-> @.borrowed + short * price]]
  BY DEF BookSell, SharesFor
<1>4. BookedEffect
  BY <1>1, BookedStep DEF Marked, MarkPartial
<1>5. /\ ask \in Asks /\ ask.price \in Nat /\ ask.size \in Nat /\ ask.reserved \in 0..ask.size * Lot
      /\ q \in Nat /\ q <= ask.size /\ symbol \in Symbols /\ price \in Nat
  <2>1. /\ id \in DOMAIN pendingAsks /\ ask = pendingAsks[id] /\ q \in Nat /\ q <= ask.size
        /\ symbol \in Symbols /\ price \in Nat
    BY <1>1, ReportedPending
  <2> QED BY <1>0, <2>1, PriceTypes DEF EntriesOK, Asks, ReservationsExact
<1>6. pendingAsks' = Kept(pendingAsks, id, new)
  <2>1. [ask EXCEPT !.size = left, !.reserved = @ - own] = new
    BY <1>5 DEF Reduced, Asks
  <2> QED BY <1>2, <2>1
<1>7. /\ own \in Int /\ short \in Int /\ own + short = SharesFor(q) /\ short >= 0 /\ n \in Int
      /\ own \in 0..ask.reserved /\ ask.reserved - own <= SharesFor(ask.size - q)
  <2> DEFINE x == SharesFor(ask.size)
             r == ask.reserved
  <2>1. /\ x = ask.size * Lot /\ x \in Int /\ n \in Int /\ 0 <= n /\ n <= x
        /\ SharesFor(ask.size - q) = x - n
    BY <1>5, SharesLeft
  <2>2. r \in Int /\ 0 <= r /\ r <= x /\ own = Min({n, r})
    BY <1>5, <2>1
  <2> HIDE DEF x, r
  <2>3. /\ own \in Int /\ short \in Int /\ own + short = n /\ short >= 0
        /\ own >= 0 /\ own <= r /\ r - own <= x - n
    BY <2>1, <2>2, ReservedFirst
  <2>4. own \in 0..r
    BY <2>2, <2>3
  <2> QED BY <2>1, <2>3, <2>4 DEF r
<1>8. PICK gain \in Int, loan \in Int : gain = own * price /\ loan = short * price
  BY <1>5, <1>7
<1>9. n * price = gain + loan
  <2>1. price \in Int /\ own \in Int /\ short \in Int /\ n = own + short
    BY <1>5, <1>7
  <2>2. price * (own + short) = price * own + price * short
    BY <2>1, Distribute
  <2>3. own * price = price * own /\ short * price = price * short /\ n * price = price * (own + short)
    BY <2>1
  <2> QED BY <1>8, <2>2, <2>3
<1>10. /\ summary' \in [buyingPower: Int, holding: Int, borrowed: Int]
       /\ summary'.buyingPower = summary.buyingPower + gain - loan
       /\ summary'.holding = summary.holding
       /\ summary'.borrowed = summary.borrowed + loan
       /\ summary.buyingPower \in Int /\ summary.holding \in Int /\ summary.borrowed \in Int
  <2>1. summary \in [buyingPower: Int, holding: Int, borrowed: Int]
    BY <1>0 DEF TypeOK
  <2>2. summary' = BorrowBalance(AddBuyingPower(summary, gain), loan)
    BY <1>3, <1>8
  <2>3. summary' = [buyingPower |-> summary.buyingPower + gain - loan,
                    holding |-> summary.holding, borrowed |-> summary.borrowed + loan]
    <3>1. gain \in Int /\ loan \in Int
      BY <1>8
    <3> QED BY <2>1, <2>2, <3>1, Lent
  <2>4. summary.buyingPower \in Int /\ summary.holding \in Int /\ summary.borrowed \in Int
    BY <2>1
  <2> QED BY <2>3, <2>4
<1>11. /\ items' \in [Symbols -> [long: Int, short: Int, borrowed: Int]]
       /\ \A t \in Symbols : t # symbol => items'[t] = items[t]
       /\ items'[symbol].long = items[symbol].long - own
       /\ items'[symbol].short = items[symbol].short + short
       /\ items'[symbol].borrowed = items[symbol].borrowed + loan
       /\ items[symbol] \in [long: Int, short: Int, borrowed: Int]
       /\ items \in [Symbols -> [long: Int, short: Int, borrowed: Int]]
  <2> DEFINE item == items[symbol]
             sold == [long |-> item.long - own, short |-> item.short + short, borrowed |-> item.borrowed + loan]
  <2>1. /\ items \in [Symbols -> [long: Int, short: Int, borrowed: Int]]
        /\ item \in [long: Int, short: Int, borrowed: Int]
    BY <1>0, <1>5 DEF TypeOK
  <2>2. items' = [items EXCEPT ![symbol] = sold]
    BY <1>3, <1>5, <1>8, <2>1
  <2>3. sold \in [long: Int, short: Int, borrowed: Int]
    BY <1>7, <1>8, <2>1
  <2>4. sold.long = item.long - own /\ sold.short = item.short + short /\ sold.borrowed = item.borrowed + loan
    OBVIOUS
  <2> HIDE DEF sold
  <2> QED BY <1>5, <2>1, <2>2, <2>3, <2>4
<1>12. \A s \in Symbols : items'[s].long >= items[s].long - (IF s = symbol THEN own ELSE 0)
  <2>1. ASSUME NEW s \in Symbols PROVE items'[s].long >= items[s].long - (IF s = symbol THEN own ELSE 0)
    <3>1. items[s].long \in Int
      BY <1>11
    <3>2. CASE s = symbol
      BY <1>7, <1>11, <3>1, <3>2
    <3>3. CASE s # symbol
      BY <1>11, <3>1, <3>3
    <3> QED BY <3>2, <3>3
  <2> QED BY <2>1
<1>13. /\ pendingAsks' \in [DOMAIN pendingAsks' -> Asks] /\ DOMAIN pendingAsks' \subseteq DOMAIN pendingAsks
       /\ \A x : Bid(x)'.size + Ask(x)'.size
                   = Bid(x).size + Ask(x).size - (IF report.id = x THEN report.size ELSE 0)
       /\ shortCash' \in Int /\ shortUnits' \in [Symbols -> Int]
       /\ own <= items[symbol].long
       /\ ReservationsExact'
  <2>1. "FILLED" \in {"FILLED", "CANCELED"} /\ Booking("FILLED") /\ reported.side = "sell"
    BY <1>1
  <2>2. pendingBids' = pendingBids
    BY <1>1
  <2>3. /\ own \in Int /\ short \in Int /\ own + short = SharesFor(q) /\ short >= 0
        /\ own \in 0..ask.reserved /\ ask.reserved - own <= SharesFor(ask.size - q)
    BY <1>7
  <2>4. shortCash' = shortCash - CashFor(ask, short) /\ shortUnits' = [shortUnits EXCEPT ![symbol] = @ - own]
    BY <1>2
  <2>5. items' \in [Symbols -> [long: Int, short: Int, borrowed: Int]]
    BY <1>11
  <2>6. AskSplit(own, short)
    BY <1>6, <1>12, <2>3, <2>4, <2>5 DEF AskSplit
  <2> QED BY <2>1, <2>2, <2>3, <2>6, AskReduced
<1>14. TypeOK' /\ EntriesOK' /\ ListedWithin' /\ UnfinishedListed' /\ PendingExact'
  <2>1. pendingBids' \in [DOMAIN pendingBids' -> Bids] /\ DOMAIN pendingBids' \subseteq DOMAIN pendingBids
    BY <1>0, <1>1 DEF EntriesOK
  <2> QED BY <1>1, <1>4, <1>10, <1>11, <1>13, <2>1, BookingStep
<1>15. HoldingsBacked'
  <2>1. HeldBids' = HeldBids
    BY <1>1 DEF HeldBids
  <2> QED BY <1>0, <1>10, <2>1 DEF HoldingsBacked
<1>16. /\ ProceedsOf(report) = gain + loan
       /\ \A s : SharesIn(report, s) = IF symbol = s THEN -n ELSE 0
  <2>1. report.status = "FILLED" /\ reported = orders[report.id]
    BY <1>1, ReportedPending DEF Booking
  <2>2. report.size * Lot = n
    BY DEF SharesFor
  <2> QED BY <1>1, <1>9, <2>1, <2>2 DEF ProceedsOf, SharesIn, Proceeds, SharesOf
<1>17. CashConserved'
  <2> DEFINE before == SumFunction(CashComing)
             after == SumFunction(CashComing')
  <2>1. before = gain + loan + after /\ after \in Int
    BY <1>4, <1>16 DEF BookedEffect, ComingLess
  <2>2. summary.buyingPower + summary.holding + 2 * summary.borrowed + before = BuyingPower + traded.cash
    BY <1>0 DEF CashConserved
  <2> HIDE DEF before, after
  <2>3. summary'.buyingPower + summary'.holding + 2 * summary'.borrowed + after
          = summary.buyingPower + summary.holding + 2 * summary.borrowed + before
    <3>1. /\ summary'.buyingPower = summary.buyingPower + gain - loan
          /\ summary'.holding = summary.holding /\ summary'.borrowed = summary.borrowed + loan
      BY <1>10
    <3>2. /\ summary.buyingPower \in Int /\ summary.holding \in Int /\ summary.borrowed \in Int
      BY <1>10
    <3>3. gain \in Int /\ loan \in Int
      BY <1>8
    <3> QED BY <2>1, <3>1, <3>2, <3>3
  <2> QED BY <1>1, <2>2, <2>3 DEF CashConserved, before, after
<1>18. PositionConserved'
  <2>1. ASSUME NEW s \in Symbols
        PROVE  /\ items'[s].long - items'[s].short + SumFunction(SharesComing(s)') = LongShares[s] + traded'.shares[s]
               /\ items'[s].long >= 0 /\ items'[s].short >= 0
    <3>1. /\ items[s].long - items[s].short + SumFunction(SharesComing(s)) = LongShares[s] + traded.shares[s]
          /\ items[s].long >= 0 /\ items[s].short >= 0
          /\ items[s].long \in Int /\ items[s].short \in Int
      BY <1>0, <1>11 DEF PositionConserved
    <3>2. /\ SumFunction(SharesComing(s)) = SharesIn(report, s) + SumFunction(SharesComing(s)')
          /\ SumFunction(SharesComing(s)') \in Int
      BY <1>4 DEF BookedEffect, ComingLess
    <3>3. traded' = traded
      BY <1>1
    <3>4. CASE s = symbol
      <4>1. SharesIn(report, s) = -n /\ n = own + short
        BY <1>7, <1>16, <3>4
      <4>2. items'[s].long = items[s].long - own /\ items'[s].short = items[s].short + short
            /\ own <= items[s].long
        BY <1>11, <1>13, <3>4
      <4>3. own \in Int /\ short \in Int /\ short >= 0
        BY <1>7
      <4> DEFINE before == SumFunction(SharesComing(s))
                 after == SumFunction(SharesComing(s)')
      <4>4. before = -n + after /\ after \in Int /\ n \in Int
        BY <3>2, <4>1, <4>3
      <4>5. items[s].long - items[s].short + before = LongShares[s] + traded.shares[s]
        BY <3>1
      <4> HIDE DEF before, after
      <4>6. items'[s].long - items'[s].short + after = items[s].long - items[s].short + before
        <5> DEFINE l == items[s].long
                   h == items[s].short
        <5>1. l \in Int /\ h \in Int /\ before = -(own + short) + after
          BY <3>1, <4>1, <4>4
        <5>2. items'[s].long = l - own /\ items'[s].short = h + short
          BY <4>2
        <5> HIDE DEF l, h
        <5>3. (l - own) - (h + short) + after = l - h + before
          BY <4>3, <4>4, <5>1
        <5> QED BY <5>2, <5>3 DEF l, h
      <4>7. items'[s].long >= 0 /\ items'[s].short >= 0
        BY <3>1, <4>2, <4>3
      <4> QED BY <3>3, <4>5, <4>6, <4>7 DEF before, after
    <3>5. CASE s # symbol
      <4>1. SharesIn(report, s) = 0 /\ items'[s] = items[s]
        BY <1>11, <1>16, <3>5
      <4> QED BY <3>1, <3>2, <3>3, <4>1
    <3> QED BY <3>4, <3>5
  <2>2. SumFunction([t \in Symbols |-> items'[t].borrowed]) = summary'.borrowed
    <3>1. SumFunction([t \in Symbols |-> items'[t].borrowed])
            = summary.borrowed - items[symbol].borrowed + items'[symbol].borrowed
      BY <1>0, <1>5, <1>11, BorrowedChanged
    <3>2. items[symbol].borrowed \in Int
      BY <1>11
    <3> QED BY <1>8, <1>10, <1>11, <3>1, <3>2
  <2> QED BY <2>1, <2>2 DEF PositionConserved
<1> QED BY <1>4, <1>13, <1>14, <1>15, <1>17, <1>18 DEF RiskInv, BookedEffect

\* When a report is taken off its buffer, it was booked or confirms a message: what
\* the others bring is the same.
LEMMA ReportDone ==
    ASSUME RiskInv, UpdateWaitingList
    PROVE  /\ SumFunction(CashComing') = SumFunction(CashComing)
           /\ \A s \in Symbols : SumFunction(SharesComing(s)') = SumFunction(SharesComing(s))
           /\ \A id : SumFunction(SizeComing(id)') = SumFunction(SizeComing(id))
           /\ ReportsSound'
           /\ execRptBuffer' \in Seq(Reports)
           /\ \A id : JustBooked(id) = (IF report.id = id THEN report.size ELSE 0) /\ JustBooked(id)' = 0
<1>0. /\ TypeOK /\ ReportsSound /\ ReportsNamed
  BY ReportsOfOrders DEF RiskInv
<1>1. /\ execRptBuffer # <<>> /\ (booked \/ report.status \in Confirmations)
      /\ execRptBuffer' = Tail(execRptBuffer) /\ ~booked' /\ orders' = orders /\ open' = open
  BY DEF UpdateWaitingList, order, market
<1>2. /\ execRptBuffer \in Seq(Reports) /\ execRptBuffer' \in Seq(Reports)
      /\ Unbooked' = Tail(execRptBuffer)
      /\ 1 \in DOMAIN execRptBuffer /\ report = execRptBuffer[1] /\ report.size \in Nat
  <2>1. execRptBuffer \in Seq(Reports)
    BY <1>0 DEF TypeOK
  <2>2. execRptBuffer' \in Seq(Reports) /\ 1 \in DOMAIN execRptBuffer
    BY <1>1, <2>1
  <2>3. report = execRptBuffer[1] /\ report.size \in Nat
    BY <1>0, <1>1, FirstReport
  <2> QED BY <1>1, <2>1, <2>2, <2>3 DEF Unbooked
<1>3. booked => Unbooked' = Unbooked
  BY <1>2 DEF Unbooked
<1>4. ~booked => Unbooked = execRptBuffer /\ report.status \in Confirmations /\ report.size = 0
  <2>1. ~booked => Unbooked = execRptBuffer /\ report.status \in Confirmations
    BY <1>1 DEF Unbooked
  <2> QED BY <1>0, <1>2, <2>1 DEF ReportsSound, Confirmations
<1>5. /\ SumFunction(CashComing') = SumFunction(CashComing)
      /\ \A s \in Symbols : SumFunction(SharesComing(s)') = SumFunction(SharesComing(s))
      /\ \A id : SumFunction(SizeComing(id)') = SumFunction(SizeComing(id))
  <2>1. CASE booked
    <3>1. CashComing' = CashComing
      BY <1>1, <1>3, <2>1 DEF CashComing, ProceedsOf
    <3>2. \A s : SharesComing(s)' = SharesComing(s)
      BY <1>1, <1>3, <2>1 DEF SharesComing, SharesIn
    <3>3. \A id : SizeComing(id)' = SizeComing(id)
      BY <1>3, <2>1 DEF SizeComing
    <3> QED BY <3>1, <3>2, <3>3
  <2>2. CASE ~booked
    <3>1. ComingLess(report)
      <4>1. Unbooked # <<>> /\ Unbooked' = Tail(Unbooked) /\ Unbooked[1] = report
        BY <1>1, <1>2, <1>4, <2>2
      <4>2. ComingLess(Unbooked[1])
        BY <1>0, <1>1, <4>1, ReportTaken
      <4> QED BY <4>1, <4>2
    <3>2. ProceedsOf(report) = 0 /\ (\A s : SharesIn(report, s) = 0) /\ report.size = 0
      BY <1>4, <2>2 DEF ProceedsOf, SharesIn, Confirmations
    <3> QED BY <3>1, <3>2 DEF ComingLess
  <2> QED BY <2>1, <2>2
<1>6. ReportsSound'
  <2>1. ASSUME NEW k \in DOMAIN execRptBuffer'
        PROVE  k + 1 \in DOMAIN execRptBuffer /\ execRptBuffer'[k] = execRptBuffer[k + 1]
    BY <1>1, <1>2
  <2>2. \A i \in DOMAIN execRptBuffer' : execRptBuffer'[i].id \in DOMAIN open
    BY <1>0, <2>1 DEF ReportsSound
  <2>3. ASSUME NEW k \in DOMAIN Unbooked'
        PROVE  \/ Unbooked'[k].status \in Confirmations /\ Unbooked'[k].size = 0
               \/ Unbooked'[k].status \in {"FILLED", "CANCELED"} /\ Unbooked'[k].size # 0
    <3>1. CASE booked
      BY <1>0, <1>3, <3>1 DEF ReportsSound
    <3>2. CASE ~booked
      <4>1. k + 1 \in DOMAIN Unbooked /\ Unbooked'[k] = Unbooked[k + 1]
        BY <1>1, <1>2, <1>4, <2>1, <3>2
      <4> QED BY <1>0, <4>1 DEF ReportsSound
    <3> QED BY <3>1, <3>2
  <2> QED BY <1>1, <2>2, <2>3 DEF ReportsSound
<1>7. \A id : JustBooked(id) = (IF report.id = id THEN report.size ELSE 0) /\ JustBooked(id)' = 0
  BY <1>1, <1>4 DEF JustBooked
<1> QED BY <1>2, <1>5, <1>6, <1>7

\* The report thread brings the waiting list up to date and pops the report.
LEMMA UpdateWaitingListStep ==
    ASSUME RiskInv, UpdateWaitingList
    PROVE  RiskInv'
<1> SUFFICES ASSUME NEW id, id = report.id, NEW q, q = report.size,
                    NEW listed, listed = waitingList[id]
             PROVE  RiskInv'
  OBVIOUS
<1>0. /\ TypeOK /\ RequestsQueued /\ MarketOrders /\ EntriesOK /\ ListedWithin /\ ReportsSound
      /\ HoldingsBacked /\ ReservationsExact /\ CashConserved /\ PositionConserved
      /\ PendingExact /\ UnfinishedListed
  BY DEF RiskInv
<1>1. /\ UNCHANGED <<orders, cancelled, orderBuffer, step, usable>>
      /\ UNCHANGED <<toMarket, confirming, cancels, open, traded>>
      /\ UNCHANGED <<summary, items, pendingBids, pendingAsks, shortCash, shortUnits>>
      /\ execRptBuffer # <<>> /\ booked' = FALSE
  BY DEF UpdateWaitingList, order, thread, account, pending, market
<1>2. /\ id \in DOMAIN orders /\ q \in Nat
  BY <1>0, <1>1, FirstReport
<1>3. \A x : /\ Bid(x)' = Bid(x) /\ Ask(x)' = Ask(x) /\ (Sent(x)' <=> Sent(x)) /\ AtMarket(x)' = AtMarket(x)
             /\ Bid(x).size \in Nat /\ Ask(x).size \in Nat
  <2>1. \A x : Bid(x)' = Bid(x) /\ Ask(x)' = Ask(x)
    BY <1>1 DEF Bid, Ask
  <2>2. \A x : (Sent(x)' <=> Sent(x)) /\ AtMarket(x)' = AtMarket(x)
    BY <1>1 DEF Sent, SentFor, IsOrder, AtMarket, SizeSent
  <2> QED BY <1>0, <2>1, <2>2, PendingTypes
<1>4. waitingList \in [DOMAIN waitingList -> Listing]
  BY <1>0 DEF EntriesOK
<1>5. /\ waitingList' \in [DOMAIN waitingList' -> Listing]
      /\ DOMAIN waitingList' \subseteq DOMAIN waitingList
      /\ \A x \in DOMAIN waitingList' : waitingList'[x].size = waitingList[x].size
      /\ \A x \in DOMAIN waitingList' :
            waitingList'[x].executed = waitingList[x].executed + (IF x = id THEN q ELSE 0)
      /\ \A x \in DOMAIN waitingList \ DOMAIN waitingList' : x = id /\ listed.executed + q = listed.size
  <2>1. CASE id \notin DOMAIN waitingList
    <3>1. waitingList' = waitingList
      BY <2>1 DEF UpdateWaitingList
    <3>2. \A x \in DOMAIN waitingList : x # id /\ waitingList[x].executed \in Nat
      BY <1>4, <2>1 DEF Listing
    <3> QED BY <1>4, <3>1, <3>2
  <2>2. CASE id \in DOMAIN waitingList
    <3>1. listed \in Listing /\ listed.executed \in Nat /\ listed.size \in Sizes
      BY <1>4, <2>2 DEF Listing
    <3> DEFINE entry == [listed EXCEPT !.executed = listed.executed + q]
               new == Listed(entry, report.status)
    <3>2. entry \in Listing /\ entry.executed = listed.executed + q /\ entry.size = listed.size
      BY <1>2, <3>1 DEF Listing
    <3>3. IF entry.executed = entry.size THEN waitingList' = Without(waitingList, id)
          ELSE waitingList' = [waitingList EXCEPT ![id] = new]
      BY <2>2 DEF UpdateWaitingList, Executed
    <3>4. new \in Listing /\ new.executed = listed.executed + q /\ new.size = listed.size
      <4>1. report.status \in Statuses
        BY <1>0, <1>1, FirstReport DEF Reports
      <4> HIDE DEF entry
      <4>2. "PARTIALLY_FILLED" \in Statuses
        BY DEF Statuses
      <4> QED BY <3>2, <4>1, <4>2 DEF Listed, Listing
    <3> HIDE DEF entry, new
    <3>5. CASE listed.executed + q = listed.size
      <4>1. waitingList' = [x \in DOMAIN waitingList \ {id} |-> waitingList[x]]
        BY <3>2, <3>3, <3>5 DEF Without, Restrict
      <4>2. \A x \in DOMAIN waitingList : waitingList[x].executed \in Nat
        BY <1>4 DEF Listing
      <4> QED BY <1>4, <3>5, <4>1, <4>2
    <3>6. CASE listed.executed + q # listed.size
      <4>1. waitingList' = [waitingList EXCEPT ![id] = new]
        BY <3>2, <3>3, <3>6
      <4>2. \A x \in DOMAIN waitingList : waitingList[x].executed \in Nat
        BY <1>4 DEF Listing
      <4> QED BY <1>4, <2>2, <3>4, <4>1, <4>2
    <3> QED BY <3>5, <3>6
  <2> QED BY <2>1, <2>2
<1>6. /\ ReportsSound' /\ execRptBuffer' \in Seq(Reports)
      /\ \A x : JustBooked(x) = (IF id = x THEN q ELSE 0) /\ JustBooked(x)' = 0
      /\ SumFunction(CashComing') = SumFunction(CashComing)
      /\ \A s \in Symbols : SumFunction(SharesComing(s)') = SumFunction(SharesComing(s))
      /\ \A x : SumFunction(SizeComing(x)') = SumFunction(SizeComing(x))
  BY ReportDone
<1>7. TypeOK'
  <2>1. \A x \in DOMAIN waitingList' : waitingList'[x].status \in Statuses
    BY <1>5 DEF Listing
  <2>2. DOMAIN waitingList' \subseteq 1..Len(orders)
    BY <1>0, <1>5 DEF TypeOK
  <2>3. booked' \in BOOLEAN /\ ~booked'
    BY <1>1
  <2> QED BY <1>0, <1>1, <1>6, <2>1, <2>2, <2>3 DEF TypeOK
<1>8. RequestsQueued' /\ MarketOrders'
  <2>1. RequestsQueued'
    BY <1>0, <1>1, <1>3 DEF RequestsQueued, Unsent, Queued, request
  <2>2. MarketOrders'
    BY <1>0, <1>1 DEF MarketOrders, SentFor, IsOrder
  <2> QED BY <2>1, <2>2
<1>9. EntriesOK'
  <2>1. \A x \in DOMAIN waitingList' : Sent(x)' /\ waitingList'[x].size = orders[x].size
    BY <1>0, <1>3, <1>5 DEF EntriesOK
  <2>2. /\ \A x \in DOMAIN pendingBids : orders[x].side = "buy"  /\ Sent(x)'
        /\ \A x \in DOMAIN pendingAsks : orders[x].side = "sell" /\ Sent(x)'
    BY <1>0, <1>3 DEF EntriesOK
  <2> QED BY <1>0, <1>1, <1>5, <2>1, <2>2 DEF EntriesOK
<1>10. ListedWithin'
  <2>1. ASSUME NEW x \in DOMAIN orders
        PROVE  Counted(x)' + Bid(x)'.size + Ask(x)'.size + JustBooked(x)' <= orders[x].size
    <3> DEFINE b == IF id = x THEN q ELSE 0
    <3>1. Counted(x) + Bid(x).size + Ask(x).size + b <= orders[x].size
      BY <1>0, <1>6 DEF ListedWithin
    <3>2. b \in Nat /\ orders[x].size \in Nat /\ Counted(x) \in Nat
      BY <1>0, <1>2, <1>4, OrderTypes DEF Counted, Listing
    <3>3. Counted(x)' \in Nat /\ Counted(x)' <= Counted(x) + b
      <4>1. CASE x \in DOMAIN waitingList'
        <5>1. Counted(x)' = waitingList[x].executed + b /\ Counted(x) = waitingList[x].executed
          BY <1>5, <4>1 DEF Counted
        <5> QED BY <3>2, <5>1
      <4>2. CASE x \notin DOMAIN waitingList'
        <5>1. Counted(x)' = 0
          BY <4>2 DEF Counted
        <5> QED BY <3>2, <5>1
      <4> QED BY <4>1, <4>2
    <3>4. Bid(x)' = Bid(x) /\ Ask(x)' = Ask(x) /\ JustBooked(x)' = 0
      BY <1>3, <1>6
    <3> HIDE DEF b
    <3>5. Counted(x)' + Bid(x).size + Ask(x).size + 0 <= orders[x].size
      BY <1>3, <3>1, <3>2, <3>3
    <3> QED BY <3>4, <3>5
  <2> QED BY <1>1, <2>1 DEF ListedWithin
<1>11. UnfinishedListed'
  <2>1. ASSUME NEW x \in DOMAIN pendingBids \cup DOMAIN pendingAsks, x \in DOMAIN waitingList, x \notin DOMAIN waitingList'
        PROVE  FALSE
    <3>1. x = id /\ listed = waitingList[x] /\ listed.executed + q = listed.size
      BY <1>5, <2>1
    <3>2. listed.size = orders[x].size /\ Counted(x) = listed.executed
      BY <1>0, <2>1, <3>1 DEF EntriesOK, Counted
    <3>3. Counted(x) + Bid(x).size + Ask(x).size + q <= orders[x].size
      BY <1>0, <1>2, <1>6, <3>1 DEF ListedWithin
    <3>4. listed.executed \in Nat
      BY <1>4, <2>1, <3>1 DEF Listing
    <3>5. Bid(x).size # 0 \/ Ask(x).size # 0
      BY <1>0, <2>1 DEF Bid, Ask, EntriesOK, Bids, Asks
    <3>6. orders[x].size = listed.executed + q /\ Bid(x).size \in Nat /\ Ask(x).size \in Nat
      BY <1>3, <3>1, <3>2
    <3> QED BY <1>2, <3>2, <3>3, <3>4, <3>5, <3>6
  <2> QED BY <1>0, <1>1, <2>1 DEF UnfinishedListed, request
<1>12. PendingExact'
  BY <1>0, <1>1, <1>3, <1>6 DEF PendingExact
<1>13. HoldingsBacked' /\ ReservationsExact'
  <2>1. /\ HeldBids' = HeldBids /\ CashReserved' = CashReserved
        /\ \A s : UnitsReserved(s)' = UnitsReserved(s)
    BY <1>1 DEF HeldBids, CashReserved, UnitsReserved
  <2> QED BY <1>0, <1>1, <2>1 DEF HoldingsBacked, ReservationsExact
<1>14. CashConserved' /\ PositionConserved'
  BY <1>0, <1>1, <1>6 DEF CashConserved, PositionConserved
<1> QED BY <1>6, <1>7, <1>8, <1>9, <1>10, <1>11, <1>12, <1>13, <1>14 DEF RiskInv

--------------------------------------------------------------------------------
(* The invariant. *)

\* The invariant holds before the user has submitted anything.
LEMMA InitStep ==
    ASSUME Init
    PROVE  RiskInv
<1> DEFINE none == <<>>
<1>1. /\ orders = <<>> /\ cancelled = 0 /\ orderBuffer = <<>> /\ step = "read" /\ usable = 0
      /\ execRptBuffer = <<>> /\ booked = FALSE /\ summary = [buyingPower |-> BuyingPower, holding |-> 0, borrowed |-> 0]
      /\ items = [s \in Symbols |-> [long |-> LongShares[s], short |-> 0, borrowed |-> 0]]
      /\ pendingBids = <<>> /\ pendingAsks = <<>> /\ shortCash = 0 /\ shortUnits = [s \in Symbols |-> 0]
      /\ waitingList = <<>> /\ toMarket = <<>> /\ confirming = <<>> /\ cancels = <<>> /\ open = <<>>
      /\ traded = [cash |-> 0, shares |-> [s \in Symbols |-> 0]]
  BY DEF Init, NoSummary
<1>2. /\ BuyingPower \in Nat /\ LongShares \in [Symbols -> Nat] /\ IsFiniteSet(Symbols)
      /\ MaxOrders \in Nat /\ MaxCancels \in Nat
  BY RiskAssumption
<1>3. TypeOK
  <2>1. items \in [Symbols -> [long: Int, short: Int, borrowed: Int]]
    BY <1>1, <1>2
  <2>2. summary \in [buyingPower: Int, holding: Int, borrowed: Int]
    BY <1>1, <1>2
  <2>3. traded \in [cash: Int, shares: [Symbols -> Int]] /\ shortUnits \in [Symbols -> Int]
    BY <1>1
  <2>4. /\ DOMAIN pendingBids = {} /\ DOMAIN pendingAsks = {} /\ DOMAIN waitingList = {} /\ DOMAIN open = {}
    BY <1>1
  <2>5. /\ orders \in Seq(Orders) /\ Len(orders) = 0 /\ orderBuffer \in Seq(Requests) /\ toMarket \in Seq(Requests)
        /\ execRptBuffer \in Seq(Reports) /\ confirming \in Seq(Requests) /\ Len(confirming) = 0
        /\ cancels \in Seq(Requests)
    BY <1>1
  <2>6. Len(orders) <= MaxOrders /\ cancelled \in 0..MaxCancels /\ Len(confirming) <= 1
    BY <1>1, <1>2, <2>5
  <2>7. step \in {"read", "verify", "list"} /\ step = "read" /\ usable \in Int /\ shortCash \in Int
    BY <1>1
  <2>8. booked \in BOOLEAN /\ ~booked
    BY <1>1
  <2> QED BY <2>1, <2>2, <2>3, <2>4, <2>5, <2>6, <2>7, <2>8 DEF TypeOK
<1>4. RequestsQueued /\ MarketOrders /\ ReportsSound
  <2>1. DOMAIN orderBuffer = {} /\ DOMAIN toMarket = {} /\ DOMAIN confirming = {} /\ DOMAIN cancels = {}
        /\ DOMAIN execRptBuffer = {} /\ DOMAIN Unbooked = {}
    BY <1>1 DEF Unbooked
  <2> QED BY <1>1, <2>1 DEF RequestsQueued, Queued, Unsent, MarketOrders, ReportsSound
<1>5. /\ DOMAIN pendingBids = {} /\ DOMAIN pendingAsks = {} /\ DOMAIN waitingList = {} /\ DOMAIN open = {}
      /\ DOMAIN orders = {} /\ DOMAIN Unbooked = {}
  BY <1>1 DEF Unbooked
<1>6. EntriesOK
  BY <1>1, <1>5 DEF EntriesOK
<1>7. ListedWithin /\ PendingExact /\ UnfinishedListed
  BY <1>5 DEF ListedWithin, PendingExact, UnfinishedListed
<1>8. /\ SumFunction(HeldBids) = 0 /\ SumFunction(CashReserved) = 0 /\ SumFunction(CashComing) = 0
      /\ \A s : SumFunction(UnitsReserved(s)) = 0 /\ SumFunction(SharesComing(s)) = 0
  <2>1. /\ DOMAIN HeldBids = {} /\ DOMAIN CashReserved = {} /\ DOMAIN CashComing = {}
        /\ \A s : DOMAIN UnitsReserved(s) = {} /\ DOMAIN SharesComing(s) = {}
    BY <1>5 DEF HeldBids, CashReserved, CashComing, UnitsReserved, SharesComing
  <2> QED BY <2>1, SumEmpty DEF SumFunction
<1>9. HoldingsBacked /\ CashConserved
  BY <1>1, <1>2, <1>8 DEF HoldingsBacked, CashConserved
<1>10. ReservationsExact
  BY <1>1, <1>2, <1>5, <1>8 DEF ReservationsExact
<1>11. PositionConserved
  <2> DEFINE f == [s \in Symbols |-> items[s].borrowed]
  <2>1. f \in [Symbols -> Int] /\ \A s \in Symbols : f[s] = 0
    BY <1>1
  <2> HIDE DEF f
  <2>2. SumFunction(f) = 0
    BY <1>2, <2>1, SumZero
  <2>3. ASSUME NEW s \in Symbols
        PROVE  /\ items[s].long - items[s].short + SumFunction(SharesComing(s)) = LongShares[s] + traded.shares[s]
               /\ items[s].long >= 0 /\ items[s].short >= 0
    <3>1. items[s].long = LongShares[s] /\ items[s].short = 0 /\ traded.shares[s] = 0 /\ LongShares[s] \in Nat
      BY <1>1, <1>2
    <3> QED BY <1>8, <3>1
  <2> QED BY <1>1, <2>2, <2>3 DEF PositionConserved, f
<1> QED BY <1>3, <1>4, <1>6, <1>7, <1>9, <1>10, <1>11 DEF RiskInv

\* A step that changes nothing keeps the invariant.
LEMMA Stuttering ==
    ASSUME RiskInv, UNCHANGED vars
    PROVE  RiskInv'
<1>1. /\ UNCHANGED <<orders, cancelled, orderBuffer, step, usable, execRptBuffer, booked>>
      /\ UNCHANGED <<summary, items, pendingBids, pendingAsks, shortCash, shortUnits, waitingList>>
      /\ UNCHANGED <<toMarket, confirming, cancels, open, traded>>
  BY DEF vars, order, thread, book, account, pending, market
<1>2. Unbooked' = Unbooked
  BY <1>1 DEF Unbooked
<1>3. /\ CashComing' = CashComing /\ \A s : SharesComing(s)' = SharesComing(s)
      /\ \A id : SizeComing(id)' = SizeComing(id) /\ SizeSent(id)' = SizeSent(id)
  <2>1. CashComing' = CashComing
    BY <1>1, <1>2 DEF CashComing, ProceedsOf
  <2>2. \A s : SharesComing(s)' = SharesComing(s)
    BY <1>1, <1>2 DEF SharesComing, SharesIn
  <2>3. \A id : SizeComing(id)' = SizeComing(id) /\ SizeSent(id)' = SizeSent(id)
    BY <1>1, <1>2 DEF SizeComing, SizeSent
  <2> QED BY <2>1, <2>2, <2>3
<1>4. /\ HeldBids' = HeldBids /\ CashReserved' = CashReserved
      /\ \A s : UnitsReserved(s)' = UnitsReserved(s)
  BY <1>1 DEF HeldBids, CashReserved, UnitsReserved
<1>5. \A id : /\ Bid(id)' = Bid(id) /\ Ask(id)' = Ask(id) /\ (Sent(id)' <=> Sent(id))
              /\ AtMarket(id)' = AtMarket(id) /\ Counted(id)' = Counted(id) /\ JustBooked(id)' = JustBooked(id)
  <2>1. \A id : Bid(id)' = Bid(id) /\ Ask(id)' = Ask(id) /\ (Sent(id)' <=> Sent(id))
    BY <1>1 DEF Bid, Ask, Sent, SentFor, IsOrder
  <2>2. \A id : AtMarket(id)' = AtMarket(id)
    BY <1>1, <1>3 DEF AtMarket
  <2>3. \A id : Counted(id)' = Counted(id) /\ JustBooked(id)' = JustBooked(id)
    BY <1>1 DEF Counted, JustBooked, report
  <2> QED BY <2>1, <2>2, <2>3
<1>6. TypeOK'
  BY <1>1 DEF RiskInv, TypeOK
<1>7. RequestsQueued' /\ MarketOrders'
  <2>1. RequestsQueued'
    BY <1>1, <1>5 DEF RiskInv, RequestsQueued, Unsent, Queued, request
  <2>2. MarketOrders'
    BY <1>1 DEF RiskInv, MarketOrders, SentFor, IsOrder
  <2> QED BY <2>1, <2>2
<1>8. ReportsSound'
  BY <1>1, <1>2 DEF RiskInv, ReportsSound, report
<1>9. EntriesOK'
  BY <1>1, <1>5 DEF RiskInv, EntriesOK
<1>10. ListedWithin' /\ PendingExact' /\ UnfinishedListed'
  <2>1. ListedWithin'
    BY <1>1, <1>5 DEF RiskInv, ListedWithin
  <2>2. PendingExact'
    BY <1>1, <1>3, <1>5 DEF RiskInv, PendingExact
  <2>3. UnfinishedListed'
    BY <1>1 DEF RiskInv, UnfinishedListed, request
  <2> QED BY <2>1, <2>2, <2>3
<1>11. HoldingsBacked' /\ ReservationsExact'
  BY <1>1, <1>4 DEF RiskInv, HoldingsBacked, ReservationsExact
<1>12. CashConserved' /\ PositionConserved'
  BY <1>1, <1>3 DEF RiskInv, CashConserved, PositionConserved
<1> QED BY <1>6, <1>7, <1>8, <1>9, <1>10, <1>11, <1>12 DEF RiskInv

\* Every step keeps the invariant.
LEMMA NextStep ==
    ASSUME RiskInv, [Next]_vars
    PROVE  RiskInv'
<1>1. CASE OrderThread
  BY <1>1, ReadUsableStep, VerifyStep, ListOrderStep DEF OrderThread
<1>2. CASE ReportThread
  BY <1>2, BookBuyStep, BookSellStep, BookCancelBidStep, BookCancelAskStep, UpdateWaitingListStep
     DEF ReportThread
<1>3. CASE User
  BY <1>3, SubmitOrderStep, SubmitCancelStep DEF User
<1>4. CASE Market
  BY <1>4, BufferMessageStep, ConfirmMessageStep, ExecuteStep, CarryOutCancelStep DEF Market
<1>5. CASE UNCHANGED vars
  BY <1>5, Stuttering
<1> QED BY <1>1, <1>2, <1>3, <1>4, <1>5 DEF Next

\* The invariant holds in every state.
THEOREM RiskInvariant == Spec => []RiskInv
BY InitStep, NextStep, PTL DEF Spec

\* Every state of the RiskManagement has the types of TypeOK.
THEOREM RiskTypes == Spec => []TypeOK
<1>1. RiskInv => TypeOK
  BY DEF RiskInv
<1> QED BY <1>1, RiskInvariant, PTL

\* The money held is what the pending buy orders may still cost.
THEOREM HoldingsAlwaysBacked == Spec => []HoldingsBacked
<1>1. RiskInv => HoldingsBacked
  BY DEF RiskInv
<1> QED BY <1>1, RiskInvariant, PTL

\* The shares and the cash reserved are what the pending sell orders may still use, and
\* no more shares are reserved than the user has.
THEOREM ReservationsAlwaysExact == Spec => []ReservationsExact
<1>1. RiskInv => ReservationsExact
  BY DEF RiskInv
<1> QED BY <1>1, RiskInvariant, PTL

\* Whatever is executed, cancelled or rounded, no money is made or lost.
THEOREM CashAlwaysConserved == Spec => []CashConserved
<1>1. RiskInv => CashConserved
  BY DEF RiskInv
<1> QED BY <1>1, RiskInvariant, PTL

\* No share is made or lost, none is sold that is neither owned nor borrowed, and what is
\* borrowed adds up.
THEOREM PositionAlwaysConserved == Spec => []PositionConserved
<1>1. RiskInv => PositionConserved
  BY DEF RiskInv
<1> QED BY <1>1, RiskInvariant, PTL

\* A pending order is what the MatchingEngine and the reports on their way have of it: no
\* report meets an order that is not pending.
THEOREM PendingAlwaysExact == Spec => []PendingExact
<1>1. RiskInv => PendingExact
  BY DEF RiskInv
<1> QED BY <1>1, RiskInvariant, PTL

\* An unfinished order is on the waiting list once the order thread is done with it.
THEOREM UnfinishedAlwaysListed == Spec => []UnfinishedListed
<1>1. RiskInv => UnfinishedListed
  BY DEF RiskInv
<1> QED BY <1>1, RiskInvariant, PTL

================================================================================
