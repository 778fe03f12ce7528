-------------------------- MODULE ContinuousBookProofs --------------------------
(***************************************************************************)
(* The books of ContinuousMarket stay in order and exact, and its matching  *)
(* misses nothing and executes in the order of price and time within the    *)
(* limits: proofs, for any traders, prices, sizes, feed and number of       *)
(* orders.                                                                 *)
(*                                                                         *)
(* First what an erasure, a change or an insertion does to a sequence of   *)
(* levels or of quotes; then what it does to the orders of a level and to   *)
(* the sum of their sizes; and then each action of the market.             *)
(*                                                                         *)
(* The matching rests on what the handler has established at each of its    *)
(* phases, MatchInv, and on the books being in order and exact, BookInv.    *)
(***************************************************************************)
EXTENDS ContinuousMarketProofs

--------------------------------------------------------------------------------
(* The books as sequences: what an erasure or an insertion does to them. *)

LevelRec == [price: Nat, size: Int, ids: Seq(Nat)]
QuoteRec == [price: Nat, size: Nat, dest: Dests]

Ordered(s, levels) ==
    \A i, j \in DOMAIN levels : i < j => Better(s, levels[i].price, levels[j].price)

Ahead(s, g, h) ==
    Better(s, g.price, h.price) \/ (g.price = h.price /\ g.dest # h.dest)
QuotesOrdered(s, quotes) ==
    \A i, j \in DOMAIN quotes : i < j => Ahead(s, quotes[i], quotes[j])

(***************************************************************************)
(* Prices, and with them the levels and quotes, are numbers.               *)
(***************************************************************************)
LEMMA PricesAreNumbers ==
    /\ Prices \subseteq Nat
    /\ Prices \cup {DblMin, DblMax} \subseteq Nat
    /\ PriceLevel \subseteq [price: Nat, size: Int, ids: Seq(DOMAIN orders) \ {<<>>}]
    /\ GlobalQuote \subseteq QuoteRec
<1>1. Prices \subseteq Nat /\ Prices \cup {DblMin, DblMax} \subseteq Nat
  BY MarketAssumption
<1>2. PriceLevel \subseteq [price: Nat, size: Int, ids: Seq(DOMAIN orders) \ {<<>>}]
  BY <1>1 DEF PriceLevel
<1>3. GlobalQuote \subseteq QuoteRec
  BY <1>1 DEF GlobalQuote, QuoteRec
<1> QED BY <1>1, <1>2, <1>3

(***************************************************************************)
(* A sequence of elements of a set is one of elements of a larger set.     *)
(***************************************************************************)
LEMMA SeqOfSubset ==
    ASSUME NEW S, NEW T, S \subseteq T, NEW q \in Seq(S)
    PROVE  q \in Seq(T)
OBVIOUS

(***************************************************************************)
(* The first level that is not better than p: all before it are better.    *)
(***************************************************************************)
LEMMA FirstNotBetter ==
    ASSUME NEW S, NEW s, NEW levels \in Seq(S), NEW p, NEW i, i = NotBetterThan(s, levels, p)
    PROVE  /\ i \in 0..Len(levels) /\ Len(levels) \in Nat
           /\ i = 0 => \A j \in 1..Len(levels) : Better(s, levels[j].price, p)
           /\ i # 0 => /\ ~Better(s, levels[i].price, p)
                       /\ \A j \in 1..Len(levels) : j < i => Better(s, levels[j].price, p)
<1> DEFINE I == {k \in 1..Len(levels) : ~Better(s, levels[k].price, p)}
<1>1. I # {} => Min(I) \in I /\ \A y \in I : Min(I) <= y
  <2> I \in SUBSET Nat
    OBVIOUS
  <2> HIDE DEF I
  <2> QED BY MinNat
<1>2. i = IF I # {} THEN Min(I) ELSE 0
  BY DEF NotBetterThan, SelectInSeq
<1>3. CASE I = {}
  BY <1>2, <1>3, LenProperties
<1>4. CASE I # {}
  <2>1. i \in I /\ \A y \in I : i <= y
    BY <1>1, <1>2, <1>4
  <2>2. i \in 1..Len(levels) /\ ~Better(s, levels[i].price, p)
    BY <2>1
  <2>3. \A j \in 1..Len(levels) : j < i => j \notin I
    BY <2>1, <2>2
  <2> QED BY <2>2, <2>3
<1> QED BY <1>3, <1>4

(***************************************************************************)
(* To be better is transitive on either side.                              *)
(***************************************************************************)
LEMMA BetterTransitive ==
    ASSUME NEW s, NEW p \in Nat, NEW q \in Nat, NEW r \in Nat
    PROVE  /\ Better(s, p, q) /\ Better(s, q, r) => Better(s, p, r)
           /\ ~Better(s, p, q) /\ p # q => Better(s, q, p)
           /\ ~(Better(s, p, q) /\ Better(s, q, p)) /\ ~Better(s, p, p)
           /\ ~Better(s, q, p) /\ Better(s, q, r) => Better(s, p, r)
           /\ Better(s, p, q) /\ ~Better(s, r, q) => Better(s, p, r)
BY DEF Better

\* Erasing a level or changing it at its price keeps the order.
Erased(levels, l, new) ==
    /\ Len(new) = Len(levels) - 1
    /\ \A j \in 1..Len(levels) - 1 : new[j] = IF j < l THEN levels[j] ELSE levels[j + 1]
Changed(levels, l, lv, new) ==
    /\ Len(new) = Len(levels)
    /\ \A j \in 1..Len(levels) : new[j] = IF j = l THEN lv ELSE levels[j]
AfterChange(levels, l, lv, new) ==
    IF lv.ids = <<>> THEN Erased(levels, l, new) ELSE Changed(levels, l, lv, new)

(***************************************************************************)
(* What BookAfter does to the levels: one is erased, or changed in its     *)
(* place.                                                                  *)
(***************************************************************************)
LEMMA BookAfterLevels ==
    ASSUME NEW levels \in Seq(LevelRec), NEW l \in 1..Len(levels), NEW lv \in LevelRec,
           NEW new, new = BookAfter(levels, l, lv)
    PROVE  new \in Seq(LevelRec) /\ AfterChange(levels, l, lv, new)
<1>1. CASE lv.ids = <<>>
  <2>1. new = RemoveAt(levels, l)
    BY <1>1 DEF BookAfter
  <2> QED BY <2>1, <1>1, RemoveAtProperties DEF AfterChange, Erased
<1>2. CASE lv.ids # <<>>
  <2>1. new = [levels EXCEPT ![l] = lv]
    BY <1>2 DEF BookAfter, ReplaceAt
  <2> QED BY <2>1, <1>2, ExceptSeq DEF AfterChange, Changed
<1> QED BY <1>1, <1>2

(***************************************************************************)
(* Erasing a level, or changing it at its price, keeps the levels best     *)
(* first.                                                                  *)
(***************************************************************************)
LEMMA BookAfterOrdered ==
    ASSUME NEW s, NEW levels \in Seq(LevelRec), Ordered(s, levels), NEW l \in 1..Len(levels),
           NEW lv \in LevelRec, lv.price = levels[l].price
    PROVE  Ordered(s, BookAfter(levels, l, lv))
<1> SUFFICES ASSUME NEW new, new = BookAfter(levels, l, lv) PROVE Ordered(s, new)
  OBVIOUS
<1>1. DOMAIN levels = 1..Len(levels) /\ Len(levels) \in Nat
  BY LenProperties
<1>0. new \in Seq(LevelRec) /\ AfterChange(levels, l, lv, new)
  BY BookAfterLevels
<1>2. DOMAIN new = 1..Len(new)
  BY <1>0, LenProperties
<1>3. CASE lv.ids = <<>>
  <2>1. Len(new) = Len(levels) - 1
        /\ \A j \in 1..Len(levels) - 1 : new[j] = IF j < l THEN levels[j] ELSE levels[j + 1]
    BY <1>0, <1>3 DEF AfterChange, Erased
  <2>2. ASSUME NEW i \in DOMAIN new, NEW j \in DOMAIN new, i < j
        PROVE  Better(s, new[i].price, new[j].price)
    <3> DEFINE a == IF i < l THEN i ELSE i + 1
               b == IF j < l THEN j ELSE j + 1
    <3>1. a \in DOMAIN levels /\ b \in DOMAIN levels /\ a < b
      BY <1>1, <1>2, <2>1, <2>2
    <3>2. new[i] = levels[a] /\ new[j] = levels[b]
      BY <1>1, <1>2, <2>1, <2>2
    <3> HIDE DEF a, b
    <3> QED BY <3>1, <3>2 DEF Ordered
  <2> QED BY <2>2 DEF Ordered
<1>4. CASE lv.ids # <<>>
  <2>1. Len(new) = Len(levels)
        /\ \A j \in 1..Len(levels) : new[j] = IF j = l THEN lv ELSE levels[j]
    BY <1>0, <1>4 DEF AfterChange, Changed
  <2>2. \A j \in 1..Len(levels) : new[j].price = levels[j].price
    BY <2>1
  <2> QED BY <1>1, <1>2, <2>1, <2>2 DEF Ordered
<1> QED BY <1>3, <1>4

\* Where an order of price p is inserted: into the level of its price, or as a level of
\* its own behind the better ones and ahead of the worse ones.
InsertedInto(s, levels, id, p, q, new, k) ==
    /\ k \in 1..Len(levels) /\ levels[k].price = p
    /\ Len(new) = Len(levels)
    /\ \A j \in 1..Len(levels) :
          new[j] = IF j = k THEN [price |-> p, size |-> levels[k].size + q,
                                  ids |-> Append(levels[k].ids, id)]
                   ELSE levels[j]
InsertedBefore(s, levels, id, p, q, new, k) ==
    /\ k \in 1..Len(levels) + 1
    /\ Len(new) = Len(levels) + 1
    /\ \A j \in 1..Len(levels) + 1 :
          new[j] = IF j < k THEN levels[j]
                   ELSE IF j = k THEN [price |-> p, size |-> q, ids |-> <<id>>] ELSE levels[j - 1]
    /\ \A j \in 1..Len(levels) : IF j < k THEN Better(s, levels[j].price, p)
                                 ELSE Better(s, p, levels[j].price)

(***************************************************************************)
(* A level with one more order is a level.                                 *)
(***************************************************************************)
LEMMA QueuedLevel ==
    ASSUME NEW lv \in LevelRec, NEW id \in Nat, NEW q \in Nat
    PROVE  [lv EXCEPT !.size = @ + q, !.ids = Queued(@, id)]
             = [price |-> lv.price, size |-> lv.size + q, ids |-> Append(lv.ids, id)]
<1> SUFFICES ASSUME NEW t, t = [lv EXCEPT !.size = @ + q, !.ids = Queued(@, id)]
             PROVE  t = [price |-> lv.price, size |-> lv.size + q, ids |-> Append(lv.ids, id)]
  OBVIOUS
<1>1. lv.size + q \in Int /\ Queued(lv.ids, id) \in Seq(Nat) /\ lv.price \in Nat
  BY AppendProperties DEF LevelRec, Queued
<1>2. t \in LevelRec /\ t.price = lv.price /\ t.size = lv.size + q /\ t.ids = Queued(lv.ids, id)
  BY <1>1 DEF LevelRec
<1> QED BY <1>2 DEF LevelRec, Queued

(***************************************************************************)
(* What Inserted does to the levels: the order joins the level of its      *)
(* price, or becomes a level of its own behind all the better ones.        *)
(***************************************************************************)
LEMMA InsertedLevels ==
    ASSUME NEW s, NEW levels \in Seq(LevelRec), Ordered(s, levels), NEW id \in Nat, NEW p \in Nat,
           NEW q \in Nat, NEW new, new = Inserted(s, levels, id, p, q)
    PROVE  /\ new \in Seq(LevelRec)
           /\ \E k \in Nat : \/ InsertedInto(s, levels, id, p, q, new, k)
                             \/ InsertedBefore(s, levels, id, p, q, new, k)
<1>0. PICK i : i = NotBetterThan(s, levels, p)
  OBVIOUS
<1> DEFINE mine == [price |-> p, size |-> q, ids |-> <<id>>]
           more == [levels[i] EXCEPT !.size = @ + q, !.ids = Queued(@, id)]
<1>1. /\ i \in 0..Len(levels) /\ Len(levels) \in Nat
      /\ i = 0 => \A j \in 1..Len(levels) : Better(s, levels[j].price, p)
      /\ i # 0 => /\ ~Better(s, levels[i].price, p)
                  /\ \A j \in 1..Len(levels) : j < i => Better(s, levels[j].price, p)
  BY <1>0, FirstNotBetter
<1>2. mine \in LevelRec
  BY DEF LevelRec
<1>3. new = IF i = 0 THEN Append(levels, mine)
            ELSE IF levels[i].price = p THEN ReplaceAt(levels, i, more)
            ELSE InsertAt(levels, i, mine)
  BY <1>0 DEF Inserted
<1>4a. \A j \in 1..Len(levels) : levels[j] \in LevelRec
  BY ElementOfSeq
<1>4. \A j \in 1..Len(levels) : levels[j] \in LevelRec /\ levels[j].price \in Nat
  BY <1>4a DEF LevelRec
<1>5. CASE i = 0
  <2>1. new = Append(levels, mine)
    BY <1>3, <1>5
  <2>2. /\ new \in Seq(LevelRec) /\ Len(new) = Len(levels) + 1
        /\ \A j \in 1..Len(levels) : new[j] = levels[j]
        /\ new[Len(levels) + 1] = mine
    BY <1>2, <2>1, AppendProperties
  <2>3. \A j \in 1..Len(levels) + 1 :
          new[j] = IF j < Len(levels) + 1 THEN levels[j]
                   ELSE IF j = Len(levels) + 1 THEN mine ELSE levels[j - 1]
    BY <1>1, <2>2
  <2>4. \A j \in 1..Len(levels) : IF j < Len(levels) + 1 THEN Better(s, levels[j].price, p)
                                 ELSE Better(s, p, levels[j].price)
    BY <1>1, <1>5
  <2>5. InsertedBefore(s, levels, id, p, q, new, Len(levels) + 1)
    BY <1>1, <2>2, <2>3, <2>4 DEF InsertedBefore
  <2> QED BY <1>1, <2>2, <2>5
<1>6. CASE i # 0 /\ levels[i].price = p
  <2>1. i \in 1..Len(levels) /\ new = [levels EXCEPT ![i] = more]
    BY <1>1, <1>3, <1>6 DEF ReplaceAt
  <2>2. levels[i] \in LevelRec /\ levels[i].size + q \in Int /\ Append(levels[i].ids, id) \in Seq(Nat)
    BY <2>1, <1>4, AppendProperties DEF LevelRec
  <2>3. more = [price |-> p, size |-> levels[i].size + q, ids |-> Append(levels[i].ids, id)]
    BY <1>6, <2>2, QueuedLevel
  <2>4. more \in LevelRec
    BY <2>2, <2>3 DEF LevelRec
  <2>5. /\ new \in Seq(LevelRec) /\ Len(new) = Len(levels)
        /\ \A j \in 1..Len(levels) : new[j] = IF j = i THEN more ELSE levels[j]
    BY <2>1, <2>4, ExceptSeq
  <2>6. InsertedInto(s, levels, id, p, q, new, i)
    BY <1>6, <2>1, <2>3, <2>5 DEF InsertedInto
  <2> QED BY <2>1, <2>5, <2>6
<1>7. CASE i # 0 /\ levels[i].price # p
  <2>1. i \in 1..Len(levels) /\ new = InsertAt(levels, i, mine)
    BY <1>1, <1>3, <1>7
  <2>2. /\ new \in Seq(LevelRec) /\ Len(new) = Len(levels) + 1
        /\ \A j \in 1..Len(levels) + 1 : new[j] = IF j < i THEN levels[j]
                                                  ELSE IF j = i THEN mine ELSE levels[j - 1]
    <3> HIDE DEF mine
    <3> QED BY SMTT(60), <1>2, <2>1, InsertAtProperties
  <2>3. Better(s, p, levels[i].price)
    BY <1>1, <1>4, <1>7, <2>1, BetterTransitive
  <2>4. ASSUME NEW j \in 1..Len(levels)
        PROVE  IF j < i THEN Better(s, levels[j].price, p) ELSE Better(s, p, levels[j].price)
    <3>1. CASE j < i
      BY <1>1, <2>1, <3>1
    <3>2. CASE j = i
      BY <2>3, <3>2, <2>1
    <3>3. CASE i < j
      <4>1. Better(s, levels[i].price, levels[j].price)
        BY <2>1, <3>3, LenProperties DEF Ordered
      <4>2. Better(s, p, levels[j].price)
        BY <2>3, <4>1, <1>4, <2>1, BetterTransitive
      <4> QED BY <4>2, <3>3, <2>1
    <3> QED BY <3>1, <3>2, <3>3, <2>1
  <2>5. i \in 1..Len(levels) + 1
    BY <2>1, <1>1
  <2>6. InsertedBefore(s, levels, id, p, q, new, i)
    BY <2>2, <2>4, <2>5 DEF InsertedBefore
  <2> QED BY <2>1, <2>2, <2>6
<1> QED BY <1>1, <1>5, <1>6, <1>7

(***************************************************************************)
(* An insertion keeps the levels best first.                               *)
(***************************************************************************)
LEMMA InsertedOrdered ==
    ASSUME NEW s, NEW levels \in Seq(LevelRec), Ordered(s, levels), NEW id \in Nat, NEW p \in Nat,
           NEW q \in Nat
    PROVE  Ordered(s, Inserted(s, levels, id, p, q))
<1> SUFFICES ASSUME NEW new, new = Inserted(s, levels, id, p, q) PROVE Ordered(s, new)
  OBVIOUS
<1>1. DOMAIN levels = 1..Len(levels) /\ Len(levels) \in Nat
  BY LenProperties
<1>2. new \in Seq(LevelRec) /\ DOMAIN new = 1..Len(new)
  BY InsertedLevels, LenProperties
<1>3. PICK k \in Nat : \/ InsertedInto(s, levels, id, p, q, new, k)
                       \/ InsertedBefore(s, levels, id, p, q, new, k)
  BY InsertedLevels
<1>4. CASE InsertedInto(s, levels, id, p, q, new, k)
  <2>1. Len(new) = Len(levels) /\ \A j \in 1..Len(levels) : new[j].price = levels[j].price
    BY <1>4 DEF InsertedInto
  <2> QED BY <1>1, <1>2, <2>1 DEF Ordered
<1>5. CASE InsertedBefore(s, levels, id, p, q, new, k)
  <2>1. Len(new) = Len(levels) + 1
    BY <1>5 DEF InsertedBefore
  <2>2. ASSUME NEW i \in 1..Len(levels) + 1, NEW j \in 1..Len(levels) + 1, i < j
        PROVE  Better(s, new[i].price, new[j].price)
    <3>1. CASE j < k
      <4>1. i \in 1..Len(levels) /\ j \in 1..Len(levels) /\ new[i] = levels[i] /\ new[j] = levels[j]
        BY <1>1, <1>5, <2>2, <3>1 DEF InsertedBefore
      <4> QED BY <4>1, <1>1, <2>2 DEF Ordered
    <3>2. CASE j = k
      <4>1. i \in 1..Len(levels) /\ new[i] = levels[i] /\ new[j].price = p
        BY <1>1, <1>5, <2>2, <3>2 DEF InsertedBefore
      <4>2. Better(s, levels[i].price, p)
        BY <4>1, <1>5, <2>2, <3>2 DEF InsertedBefore
      <4> QED BY <4>1, <4>2
    <3>3. CASE j > k /\ i < k
      <4>1. i \in 1..Len(levels) /\ j - 1 \in 1..Len(levels) /\ i < j - 1
            /\ new[i] = levels[i] /\ new[j] = levels[j - 1]
        BY <1>1, <1>5, <2>2, <3>3 DEF InsertedBefore
      <4> QED BY <4>1, <1>1 DEF Ordered
    <3>4. CASE j > k /\ i = k
      <4>1. j - 1 \in 1..Len(levels) /\ ~(j - 1 < k) /\ new[j] = levels[j - 1] /\ new[i].price = p
        BY <1>1, <1>5, <2>2, <3>4 DEF InsertedBefore
      <4>2. Better(s, p, levels[j - 1].price)
        BY <4>1, <1>5 DEF InsertedBefore
      <4> QED BY <4>1, <4>2
    <3>5. CASE i > k
      <4>1. i - 1 \in 1..Len(levels) /\ j - 1 \in 1..Len(levels) /\ i - 1 < j - 1
            /\ new[i] = levels[i - 1] /\ new[j] = levels[j - 1]
        BY <1>1, <1>5, <2>2, <3>5 DEF InsertedBefore
      <4> QED BY <4>1, <1>1 DEF Ordered
    <3> QED BY <3>1, <3>2, <3>3, <3>4, <3>5, <2>2, <1>3
  <2> QED BY <1>2, <2>1, <2>2 DEF Ordered
<1> QED BY <1>3, <1>4, <1>5

--------------------------------------------------------------------------------
(* The quotes of the feed. *)

(***************************************************************************)
(* Cutting off the quotes in front keeps the order.                        *)
(***************************************************************************)
LEMMA SuffixOrdered ==
    ASSUME NEW s, NEW quotes \in Seq(QuoteRec), QuotesOrdered(s, quotes), NEW m \in 1..Len(quotes),
           NEW kept, kept = SubSeq(quotes, m, Len(quotes))
    PROVE  /\ kept \in Seq(QuoteRec) /\ Len(kept) = Len(quotes) - m + 1
           /\ \A j \in 1..Len(kept) : kept[j] = quotes[j + m - 1]
           /\ QuotesOrdered(s, kept)
<1>1. /\ kept \in Seq(QuoteRec) /\ Len(kept) = Len(quotes) - m + 1
      /\ \A j \in 1..Len(quotes) - m + 1 : kept[j] = quotes[j + m - 1]
  BY SubSeqProperties, ElementOfSeq
<1>2. DOMAIN kept = 1..Len(kept) /\ DOMAIN quotes = 1..Len(quotes) /\ Len(quotes) \in Nat
  BY <1>1, LenProperties
<1>3. ASSUME NEW i \in DOMAIN kept, NEW j \in DOMAIN kept, i < j
      PROVE  Ahead(s, kept[i], kept[j])
  <2>1. i + m - 1 \in DOMAIN quotes /\ j + m - 1 \in DOMAIN quotes /\ i + m - 1 < j + m - 1
    BY <1>1, <1>2, <1>3
  <2>2. Ahead(s, quotes[i + m - 1], quotes[j + m - 1])
    BY <2>1 DEF QuotesOrdered
  <2> QED BY <2>2, <1>1, <1>2
<1> QED BY <1>1, <1>2, <1>3 DEF QuotesOrdered

(***************************************************************************)
(* Changing the size of a quote keeps the order.                           *)
(***************************************************************************)
LEMMA ReplacedOrdered ==
    ASSUME NEW s, NEW quotes \in Seq(QuoteRec), QuotesOrdered(s, quotes), NEW k \in 1..Len(quotes),
           NEW g \in QuoteRec, g.price = quotes[k].price, g.dest = quotes[k].dest
    PROVE  /\ ReplaceAt(quotes, k, g) \in Seq(QuoteRec)
           /\ QuotesOrdered(s, ReplaceAt(quotes, k, g))
<1> SUFFICES ASSUME NEW new, new = [quotes EXCEPT ![k] = g]
             PROVE  new \in Seq(QuoteRec) /\ QuotesOrdered(s, new)
  BY DEF ReplaceAt
<1>1. /\ new \in Seq(QuoteRec) /\ Len(new) = Len(quotes)
      /\ \A j \in 1..Len(quotes) : new[j] = IF j = k THEN g ELSE quotes[j]
  BY ExceptSeq
<1>2. DOMAIN new = 1..Len(new) /\ DOMAIN quotes = 1..Len(quotes)
  BY <1>1, LenProperties
<1>3. \A j \in 1..Len(quotes) : new[j].price = quotes[j].price /\ new[j].dest = quotes[j].dest
  BY <1>1
<1> QED BY <1>1, <1>2, <1>3 DEF QuotesOrdered, Ahead

(***************************************************************************)
(* The search for the first quote of which something holds.                *)
(***************************************************************************)
LEMMA FirstSuch ==
    ASSUME NEW S, NEW q \in Seq(S), NEW I \in SUBSET (1..Len(q)), NEW m,
           m = IF I # {} THEN Min(I) ELSE 0
    PROVE  /\ m \in 0..Len(q)
           /\ m = 0 => I = {}
           /\ m # 0 => m \in I /\ \A j \in I : m <= j
<1>1. I # {} => Min(I) \in I /\ \A y \in I : Min(I) <= y
  <2> I \in SUBSET Nat
    OBVIOUS
  <2> QED BY MinNat
<1>2. Len(q) \in Nat
  BY LenProperties
<1>3. CASE I = {}
  BY <1>2, <1>3
<1>4. CASE I # {}
  <2>1. m = Min(I) /\ m \in I /\ \A j \in I : m <= j
    BY <1>1, <1>4
  <2>2. m \in 1..Len(q)
    BY <2>1
  <2> QED BY <1>2, <1>4, <2>1, <2>2
<1> QED BY <1>3, <1>4

\* kept is an ordered book side of quotes of quotes, none better than p.
KeptFrom(s, quotes, p, kept) ==
    /\ kept \in Seq(QuoteRec) /\ QuotesOrdered(s, kept)
    /\ \A j \in DOMAIN kept : ~Better(s, kept[j].price, p)
    /\ \A j \in DOMAIN kept : \E i \in DOMAIN quotes : kept[j] = quotes[i]

(***************************************************************************)
(* The quotes that are left when a quote of price p is the best of its     *)
(* side.                                                                   *)
(***************************************************************************)
LEMMA KeptQuotes ==
    ASSUME NEW s, NEW quotes \in Seq(QuoteRec), QuotesOrdered(s, quotes), NEW p \in Nat,
           NEW kept, kept = FromPrice(s, quotes, p)
    PROVE  KeptFrom(s, quotes, p, kept)
<1> SUFFICES /\ kept \in Seq(QuoteRec) /\ QuotesOrdered(s, kept)
             /\ \A j \in DOMAIN kept : ~Better(s, kept[j].price, p)
             /\ \A j \in DOMAIN kept : \E i \in DOMAIN quotes : kept[j] = quotes[i]
  BY DEF KeptFrom
<1>0. PICK first : first = NotBetterThan(s, quotes, p)
  OBVIOUS
<1>1. /\ first \in 0..Len(quotes) /\ Len(quotes) \in Nat
      /\ first # 0 => ~Better(s, quotes[first].price, p)
  BY <1>0, FirstNotBetter
<1>2. kept = IF first = 0 THEN <<>> ELSE SubSeq(quotes, first, Len(quotes))
  BY <1>0 DEF FromPrice
<1>3. CASE first = 0
  BY <1>2, <1>3 DEF QuotesOrdered
<1>4. CASE first # 0
  <2>1. first \in 1..Len(quotes) /\ kept = SubSeq(quotes, first, Len(quotes))
    BY <1>1, <1>2, <1>4
  <2>2. /\ kept \in Seq(QuoteRec) /\ Len(kept) = Len(quotes) - first + 1
        /\ \A j \in 1..Len(kept) : kept[j] = quotes[j + first - 1]
        /\ QuotesOrdered(s, kept)
    BY <2>1, SuffixOrdered
  <2>3. DOMAIN kept = 1..Len(kept) /\ DOMAIN quotes = 1..Len(quotes)
    BY <2>2, LenProperties
  <2>4. ASSUME NEW j \in DOMAIN kept
        PROVE  ~Better(s, kept[j].price, p) /\ \E i \in DOMAIN quotes : kept[j] = quotes[i]
    <3>1. j + first - 1 \in DOMAIN quotes /\ kept[j] = quotes[j + first - 1]
          /\ (j = 1 \/ first < j + first - 1)
      BY <2>1, <2>2, <2>3, <2>4
    <3>2. CASE j = 1
      BY <3>1, <3>2, <1>1, <1>4
    <3>3. CASE first < j + first - 1
      <4>1. Ahead(s, quotes[first], quotes[j + first - 1])
        BY <2>1, <2>3, <3>1, <3>3 DEF QuotesOrdered
      <4>2. quotes[first] \in QuoteRec /\ quotes[j + first - 1] \in QuoteRec
        BY <2>1, <2>3, <3>1, ElementOfSeq
      <4>3. quotes[first].price \in Nat /\ quotes[j + first - 1].price \in Nat
        BY <4>2 DEF QuoteRec
      <4>4. ~Better(s, quotes[j + first - 1].price, p)
        BY <4>1, <4>3, <1>1, <1>4 DEF Ahead, Better
      <4> QED BY <4>4, <3>1
    <3> QED BY <3>1, <3>2, <3>3
  <2> QED BY <2>2, <2>4
<1> QED BY <1>3, <1>4

(***************************************************************************)
(* A quote put in front of the first worse one.                            *)
(***************************************************************************)
LEMMA QuoteInserted ==
    ASSUME NEW s, NEW kept \in Seq(QuoteRec), QuotesOrdered(s, kept), NEW g \in QuoteRec,
           NEW k \in 1..Len(kept),
           \A j \in 1..Len(kept) : IF j < k THEN Ahead(s, kept[j], g) ELSE Ahead(s, g, kept[j])
    PROVE  /\ InsertAt(kept, k, g) \in Seq(QuoteRec)
           /\ QuotesOrdered(s, InsertAt(kept, k, g))
<1> SUFFICES ASSUME NEW new, new = InsertAt(kept, k, g)
             PROVE  new \in Seq(QuoteRec) /\ QuotesOrdered(s, new)
  OBVIOUS
<1>1. /\ new \in Seq(QuoteRec) /\ Len(new) = Len(kept) + 1
      /\ \A j \in 1..Len(kept) + 1 : new[j] = IF j < k THEN kept[j]
                                              ELSE IF j = k THEN g ELSE kept[j - 1]
  BY SMTT(60), InsertAtProperties
<1>2. DOMAIN new = 1..Len(new) /\ DOMAIN kept = 1..Len(kept) /\ Len(kept) \in Nat
  BY <1>1, LenProperties
<1>3. ASSUME NEW i \in 1..Len(kept) + 1, NEW j \in 1..Len(kept) + 1, i < j
      PROVE  Ahead(s, new[i], new[j])
  <2>1. CASE j < k
    <3>1. i \in DOMAIN kept /\ j \in DOMAIN kept /\ new[i] = kept[i] /\ new[j] = kept[j]
      BY <1>1, <1>2, <1>3, <2>1
    <3> QED BY <3>1, <1>3 DEF QuotesOrdered
  <2>2. CASE j = k
    BY <1>1, <1>2, <1>3, <2>2
  <2>3. CASE j > k /\ i < k
    <3>1. i \in DOMAIN kept /\ j - 1 \in DOMAIN kept /\ i < j - 1
          /\ new[i] = kept[i] /\ new[j] = kept[j - 1]
      BY <1>1, <1>2, <1>3, <2>3
    <3> QED BY <3>1 DEF QuotesOrdered
  <2>4. CASE j > k /\ i = k
    <3>1. j - 1 \in 1..Len(kept) /\ ~(j - 1 < k) /\ new[j] = kept[j - 1] /\ new[i] = g
      BY <1>1, <1>2, <1>3, <2>4
    <3> QED BY <3>1
  <2>5. CASE i > k
    <3>1. i - 1 \in DOMAIN kept /\ j - 1 \in DOMAIN kept /\ i - 1 < j - 1
          /\ new[i] = kept[i - 1] /\ new[j] = kept[j - 1]
      BY <1>1, <1>2, <1>3, <2>5
    <3> QED BY <3>1 DEF QuotesOrdered
  <2> QED BY <2>1, <2>2, <2>3, <2>4, <2>5, <1>3
<1> QED BY <1>1, <1>2, <1>3 DEF QuotesOrdered

(***************************************************************************)
(* A quote that comes after all others keeps the order.                    *)
(***************************************************************************)
LEMMA QuoteAppended ==
    ASSUME NEW s, NEW kept \in Seq(QuoteRec), QuotesOrdered(s, kept), NEW g \in QuoteRec,
           \A j \in 1..Len(kept) : Ahead(s, kept[j], g)
    PROVE  /\ Append(kept, g) \in Seq(QuoteRec)
           /\ QuotesOrdered(s, Append(kept, g))
<1> SUFFICES ASSUME NEW new, new = Append(kept, g)
             PROVE  new \in Seq(QuoteRec) /\ QuotesOrdered(s, new)
  OBVIOUS
<1>1. /\ new \in Seq(QuoteRec) /\ Len(new) = Len(kept) + 1
      /\ \A j \in 1..Len(kept) : new[j] = kept[j]
      /\ new[Len(kept) + 1] = g
  BY AppendProperties
<1>2. DOMAIN new = 1..Len(new) /\ DOMAIN kept = 1..Len(kept) /\ Len(kept) \in Nat
  BY <1>1, LenProperties
<1>3. ASSUME NEW i \in DOMAIN new, NEW j \in DOMAIN new, i < j
      PROVE  Ahead(s, new[i], new[j])
  <2>1. CASE j = Len(kept) + 1
    BY <1>1, <1>2, <1>3, <2>1
  <2>2. CASE j \in DOMAIN kept
    BY <1>1, <1>2, <1>3, <2>2 DEF QuotesOrdered
  <2> QED BY <1>1, <1>2, <2>1, <2>2
<1> QED BY <1>1, <1>3 DEF QuotesOrdered

\* The quotes of new are g and some of quotes.
MadeOf(new, g, quotes) ==
    \A j \in DOMAIN new : new[j] = g \/ \E i \in DOMAIN quotes : new[j] = quotes[i]

(***************************************************************************)
(* A quote enters the book: better ones are gone, the others keep their    *)
(* order.                                                                  *)
(***************************************************************************)
LEMMA WithQuoteOrdered ==
    ASSUME NEW s, NEW quotes \in Seq(QuoteRec), QuotesOrdered(s, quotes), NEW o,
           NEW g \in QuoteRec, g = [price |-> o.price, size |-> o.size, dest |-> o.dest],
           NEW new, new = WithQuote(s, quotes, o)
    PROVE  new \in Seq(QuoteRec) /\ QuotesOrdered(s, new) /\ MadeOf(new, g, quotes)
<1> SUFFICES /\ new \in Seq(QuoteRec) /\ QuotesOrdered(s, new)
             /\ \A j \in DOMAIN new : new[j] = g \/ \E i \in DOMAIN quotes : new[j] = quotes[i]
  BY DEF MadeOf
<1>0. PICK kept : kept = FromPrice(s, quotes, o.price)
  OBVIOUS
<1>1. o.price = g.price /\ o.dest = g.dest /\ g.price \in Nat
  BY DEF QuoteRec
<1>2. /\ kept \in Seq(QuoteRec) /\ QuotesOrdered(s, kept)
      /\ \A j \in DOMAIN kept : ~Better(s, kept[j].price, g.price)
      /\ \A j \in DOMAIN kept : \E i \in DOMAIN quotes : kept[j] = quotes[i]
  <2>1. kept = FromPrice(s, quotes, g.price) /\ g.price \in Nat
    BY <1>0, <1>1
  <2>2. KeptFrom(s, quotes, g.price, kept)
    BY <2>1, KeptQuotes
  <2> QED BY <2>2 DEF KeptFrom
<1>3. DOMAIN kept = 1..Len(kept) /\ Len(kept) \in Nat
  BY <1>2, LenProperties
<1>4a. \A j \in 1..Len(kept) : kept[j] \in QuoteRec
  BY <1>2, ElementOfSeq
<1>4. \A j \in 1..Len(kept) : kept[j].price \in Nat
  BY <1>4a DEF QuoteRec
<1> DEFINE I == {i \in 1..Len(kept) : kept[i].price = o.price /\ kept[i].dest = o.dest}
           J == {i \in 1..Len(kept) : Better(s, o.price, kept[i].price)}
<1>5. PICK same : same = IF I # {} THEN Min(I) ELSE 0
  OBVIOUS
<1>6. PICK next : next = IF J # {} THEN Min(J) ELSE 0
  OBVIOUS
<1>7. new = IF same # 0 THEN ReplaceAt(kept, same, g)
            ELSE IF next # 0 THEN InsertAt(kept, next, g)
            ELSE Append(kept, g)
  BY <1>0, <1>5, <1>6 DEF WithQuote, SelectInSeq
<1>8. /\ same \in 0..Len(kept) /\ (same = 0 => I = {}) /\ (same # 0 => same \in I)
      /\ next \in 0..Len(kept) /\ (next = 0 => J = {})
      /\ next # 0 => next \in J /\ \A j \in J : next <= j
  <2> I \in SUBSET (1..Len(kept)) /\ J \in SUBSET (1..Len(kept))
    OBVIOUS
  <2> HIDE DEF I, J
  <2> QED BY <1>2, <1>5, <1>6, FirstSuch
<1>9. CASE same # 0
  <2>1. same \in 1..Len(kept) /\ kept[same].price = g.price /\ kept[same].dest = g.dest
    BY <1>1, <1>8, <1>9
  <2>2. new = ReplaceAt(kept, same, g)
    BY <1>7, <1>9
  <2>3. new \in Seq(QuoteRec) /\ QuotesOrdered(s, new)
    BY <1>2, <2>1, <2>2, ReplacedOrdered
  <2>4. Len(new) = Len(kept) /\ \A j \in 1..Len(kept) : new[j] = IF j = same THEN g ELSE kept[j]
    BY <1>2, <2>1, <2>2, ExceptSeq DEF ReplaceAt
  <2>5. DOMAIN new = 1..Len(kept)
    BY <2>3, <2>4, LenProperties
  <2>6. \A j \in DOMAIN new : new[j] = g \/ \E i \in DOMAIN quotes : new[j] = quotes[i]
    BY <1>2, <1>3, <2>4, <2>5
  <2> QED BY <2>3, <2>6
<1>10. \A j \in 1..Len(kept) : same = 0 /\ j \notin J => Ahead(s, kept[j], g)
  BY SMTT(60), <1>1, <1>2, <1>3, <1>4, <1>8 DEF Ahead, Better
<1>11. CASE same = 0 /\ next # 0
  <2>1. next \in 1..Len(kept) /\ new = InsertAt(kept, next, g)
    BY <1>7, <1>8, <1>11
  <2>2. Better(s, g.price, kept[next].price)
    BY <1>1, <1>8, <1>11
  <2>3. ASSUME NEW j \in 1..Len(kept)
        PROVE  IF j < next THEN Ahead(s, kept[j], g) ELSE Ahead(s, g, kept[j])
    <3>1. j < next => j \notin J
      BY <1>8, <1>11, <2>1
    <3>2. j < next => Ahead(s, kept[j], g)
      BY <1>10, <1>11, <3>1
    <3>3. j = next => Ahead(s, g, kept[j])
      BY <2>2 DEF Ahead
    <3>4. ASSUME next < j
          PROVE  Ahead(s, g, kept[j])
      <4>1. Ahead(s, kept[next], kept[j])
        BY <1>2, <1>3, <2>1, <3>4 DEF QuotesOrdered
      <4> QED BY SMTT(60), <4>1, <2>1, <2>2, <1>1, <1>4 DEF Ahead, Better
    <3> QED BY <3>2, <3>3, <3>4, <2>1
  <2>4. new \in Seq(QuoteRec) /\ QuotesOrdered(s, new)
    BY <1>2, <2>1, <2>3, QuoteInserted
  <2>5. Len(new) = Len(kept) + 1
        /\ \A j \in 1..Len(kept) + 1 : new[j] = IF j < next THEN kept[j]
                                                ELSE IF j = next THEN g ELSE kept[j - 1]
    BY SMTT(60), <1>2, <2>1, InsertAtProperties
  <2>6. DOMAIN new = 1..Len(kept) + 1
    BY <2>4, <2>5, LenProperties
  <2>7. ASSUME NEW j \in DOMAIN new
        PROVE  new[j] = g \/ \E i \in DOMAIN quotes : new[j] = quotes[i]
    <3>1. new[j] = g \/ \E k \in DOMAIN kept : new[j] = kept[k]
      <4>1. CASE j < next
        BY <1>3, <2>1, <2>5, <2>6, <4>1
      <4>2. CASE j = next
        BY <2>5, <2>6, <4>2
      <4>3. CASE j > next
        <5>1. j - 1 \in DOMAIN kept /\ new[j] = kept[j - 1]
          BY <1>3, <2>1, <2>5, <2>6, <4>3
        <5> QED BY <5>1
      <4> QED BY <4>1, <4>2, <4>3, <2>1, <2>6
    <3> QED BY <3>1, <1>2
  <2> QED BY <2>4, <2>7
<1>12. CASE same = 0 /\ next = 0
  <2>1. new = Append(kept, g)
    BY <1>7, <1>12
  <2>2. \A j \in 1..Len(kept) : Ahead(s, kept[j], g)
    BY <1>8, <1>10, <1>12
  <2>3. new \in Seq(QuoteRec) /\ QuotesOrdered(s, new)
    BY <1>2, <2>1, <2>2, QuoteAppended
  <2>4. /\ Len(new) = Len(kept) + 1 /\ new[Len(kept) + 1] = g
        /\ \A j \in 1..Len(kept) : new[j] = kept[j]
    BY <1>2, <2>1, AppendProperties
  <2>5. DOMAIN new = 1..Len(kept) + 1
    BY <2>3, <2>4, LenProperties
  <2>6. ASSUME NEW j \in DOMAIN new
        PROVE  new[j] = g \/ \E i \in DOMAIN quotes : new[j] = quotes[i]
    <3>1. new[j] = g \/ \E k \in DOMAIN kept : new[j] = kept[k]
      BY <1>3, <2>4, <2>5
    <3> QED BY <3>1, <1>2
  <2> QED BY <2>3, <2>6
<1> QED BY <1>9, <1>11, <1>12

--------------------------------------------------------------------------------
(* Levels and their orders. *)

SizesOf(os, ids) == [k \in DOMAIN ids |-> os[ids[k]].size]
ByAge(ids) == \A i, j \in DOMAIN ids : i < j => ids[i] < ids[j]
Rests(os, s, p, id) == id \in DOMAIN os /\ os[id].size > 0 /\ os[id].side = s /\ os[id].price = p
Exact(os, s, lv) ==
    /\ ByAge(lv.ids)
    /\ \A i \in DOMAIN lv.ids : Rests(os, s, lv.price, lv.ids[i])
    /\ lv.size = SumFunction(SizesOf(os, lv.ids))
AllExact(os, s, levels) == \A l \in DOMAIN levels : Exact(os, s, levels[l])
Holds(lv, id) == \E i \in DOMAIN lv.ids : lv.ids[i] = id
Listed(os, s, levels) ==
    \A id \in DOMAIN os : os[id].size > 0 /\ os[id].side = s => \E l \in DOMAIN levels : Holds(levels[l], id)

(***************************************************************************)
(* The sizes of the orders of a level.                                     *)
(***************************************************************************)
LEMMA SizesType ==
    ASSUME NEW os \in Seq(ClientOrder), NEW ids \in Seq(Nat), \A i \in DOMAIN ids : ids[i] \in DOMAIN os
    PROVE  /\ SizesOf(os, ids) \in [1..Len(ids) -> Int]
           /\ \A i \in 1..Len(ids) : SizesOf(os, ids)[i] = os[ids[i]].size
           /\ IsFiniteSet(1..Len(ids)) /\ Len(ids) \in Nat /\ DOMAIN ids = 1..Len(ids)
<1>1. DOMAIN ids = 1..Len(ids) /\ Len(ids) \in Nat /\ DOMAIN os = 1..Len(os)
  BY LenProperties
<1>2. \A j \in DOMAIN os : os[j] \in ClientOrder
  BY <1>1, ElementOfSeq
<1>3. \A i \in 1..Len(ids) : os[ids[i]].size \in Int
  BY <1>1, <1>2 DEF ClientOrder
<1>4. IsFiniteSet(1..Len(ids))
  BY <1>1, FS_Interval
<1> QED BY <1>1, <1>3, <1>4 DEF SizesOf

(***************************************************************************)
(* The orders of a level are the same as before.                           *)
(***************************************************************************)
LEMMA ExactElsewhere ==
    ASSUME NEW os, NEW new, NEW s, NEW lv, Exact(os, s, lv),
           \A i \in DOMAIN lv.ids : lv.ids[i] \in DOMAIN new /\ new[lv.ids[i]] = os[lv.ids[i]]
    PROVE  Exact(new, s, lv)
<1>1. \A i \in DOMAIN lv.ids : Rests(new, s, lv.price, lv.ids[i])
  BY DEF Exact, Rests
<1>2. SizesOf(new, lv.ids) = SizesOf(os, lv.ids)
  BY DEF SizesOf
<1> QED BY <1>1, <1>2 DEF Exact

\* Order id lost q of its shares.
LessOf(os, new, id, q) ==
    /\ DOMAIN new = DOMAIN os
    /\ \A j \in DOMAIN os \ {id} : new[j] = os[j]
    /\ q \in Nat /\ q <= os[id].size /\ new[id].size = os[id].size - q
    /\ new[id].side = os[id].side /\ new[id].price = os[id].price

After(os, lv, i, q) ==
    [price |-> lv.price, size |-> lv.size - q,
     ids |-> IF os[lv.ids[i]].size <= q THEN RemoveAt(lv.ids, i) ELSE lv.ids]

(***************************************************************************)
(* A level after an execution is a level of the same price.                *)
(***************************************************************************)
LEMMA AfterRecord ==
    ASSUME NEW lv \in LevelRec, NEW os, NEW i \in DOMAIN lv.ids, NEW q \in Nat
    PROVE  After(os, lv, i, q) \in LevelRec /\ After(os, lv, i, q).price = lv.price
<1>1. lv.ids \in Seq(Nat) /\ lv.size \in Int /\ lv.price \in Nat
  BY DEF LevelRec
<1>2. RemoveAt(lv.ids, i) \in Seq(Nat)
  BY <1>1, RemoveAtProperties, LenProperties
<1>3. lv.size - q \in Int
  BY <1>1
<1> QED BY <1>1, <1>2, <1>3 DEF After, LevelRec

(***************************************************************************)
(* The orders of a level are different.                                    *)
(***************************************************************************)
LEMMA AgesDiffer ==
    ASSUME NEW ids \in Seq(Nat), ByAge(ids), NEW i \in DOMAIN ids, NEW k \in DOMAIN ids, i # k
    PROVE  ids[i] # ids[k]
<1>1. i \in Nat /\ k \in Nat /\ ids[i] \in Nat /\ ids[k] \in Nat
  BY LenProperties, ElementOfSeq
<1>2. CASE i < k
  BY <1>1, <1>2 DEF ByAge
<1>3. CASE k < i
  BY <1>1, <1>3 DEF ByAge
<1> QED BY <1>1, <1>2, <1>3

(***************************************************************************)
(* A sum of which one part changes.                                        *)
(***************************************************************************)
LEMMA SumChange ==
    ASSUME NEW D, IsFiniteSet(D), NEW f \in [D -> Int], NEW g \in [D -> Int], NEW x \in D,
           \A y \in D \ {x} : f[y] = g[y]
    PROVE  /\ SumFunction(f) \in Int /\ SumFunction(g) \in Int
           /\ SumFunction(g) - g[x] = SumFunction(f) - f[x]
<1>1. /\ SumFunction(f) \in Int /\ SumFunction(g) \in Int
      /\ SumFunction(g) - (IF x \in D THEN g[x] ELSE 0) = SumFunction(f) - (IF x \in D THEN f[x] ELSE 0)
  BY SumDiffer
<1> QED BY <1>1

(***************************************************************************)
(* A sum over an interval, one part set apart.                             *)
(***************************************************************************)
LEMMA SumOfInterval ==
    ASSUME NEW n \in Nat, NEW i \in 1..n, NEW f, \A k \in 1..n : f[k] \in Int
    PROVE  SumFunctionOnSet(f, 1..n) = f[i] + SumFunctionOnSet(f, (1..n) \ {i})
<1>1. IsFiniteSet(1..n)
  BY FS_Interval
<1> QED BY <1>1, SumRemove

(***************************************************************************)
(* A sum without its i-th part.                                            *)
(***************************************************************************)
LEMMA SumWithout ==
    ASSUME NEW n \in Nat, NEW i \in 1..n, NEW f \in [1..n -> Int], NEW g \in [1..(n - 1) -> Int],
           \A k \in 1..(n - 1) : g[k] = IF k < i THEN f[k] ELSE f[k + 1]
    PROVE  SumFunction(f) = f[i] + SumFunction(g) /\ SumFunction(g) \in Int
<1>0. PICK S, T, h : /\ S = 1..(n - 1) /\ T = (1..n) \ {i}
                     /\ h = [k \in S |-> IF k < i THEN k ELSE k + 1]
  OBVIOUS
<1>1. IsFiniteSet(S) /\ IsFiniteSet(1..n)
  BY <1>0, FS_Interval
<1>2. h \in [S -> T]
  BY <1>0
<1>3. \A a, b \in S : h[a] = h[b] => a = b
  BY <1>0
<1>4. ASSUME NEW t \in T
      PROVE  \E k \in S : h[k] = t
  <2>1. CASE t < i
    <3>1. t \in S /\ h[t] = t
      BY <1>0, <2>1
    <3> QED BY <3>1
  <2>2. CASE t > i
    <3>1. t - 1 \in S
      BY <1>0, <2>2
    <3>2. h[t - 1] = t
      BY <1>0, <2>2, <3>1
    <3> QED BY <3>1, <3>2
  <2> QED BY <2>1, <2>2, <1>0
<1>5. h \in Bijection(S, T)
  BY <1>2, <1>3, <1>4 DEF Bijection, Injection, Surjection, IsInjective
<1>6. \A k \in S : g[k] \in Int /\ g[k] = f[h[k]]
  BY <1>0
<1>7. SumFunctionOnSet(g, S) = SumFunctionOnSet(f, T)
  BY SMTT(60), <1>1, <1>5, <1>6, SumRenamed
<1>8. SumFunctionOnSet(f, 1..n) = f[i] + SumFunctionOnSet(f, T)
  <2>1. \A k \in 1..n : f[k] \in Int
    OBVIOUS
  <2>2. SumFunctionOnSet(f, 1..n) = f[i] + SumFunctionOnSet(f, (1..n) \ {i})
    BY <2>1, SumOfInterval
  <2> QED BY <2>2, <1>0
<1>9. SumFunction(f) = SumFunctionOnSet(f, 1..n) /\ SumFunction(g) = SumFunctionOnSet(g, S)
  BY <1>0 DEF SumFunction
<1>10. SumFunction(g) \in Int
  <2>1. g \in [S -> Int]
    BY <1>0
  <2> QED BY <2>1, <1>1, SumType
<1> QED BY <1>7, <1>8, <1>9, <1>10

\* What the orders of a level were and are, when the i-th of them lost q shares.
PartsOf(os, new, s, lv, i, q, ids) ==
    /\ ids \in Seq(Nat) /\ ByAge(ids) /\ i \in 1..Len(ids)
    /\ \A k \in DOMAIN ids : ids[k] \in DOMAIN os /\ ids[k] \in DOMAIN new
    /\ \A k \in DOMAIN ids : Rests(os, s, lv.price, ids[k])
    /\ \A k \in DOMAIN ids : k # i => new[ids[k]] = os[ids[k]]
    /\ lv.size \in Int /\ lv.size = SumFunction(SizesOf(os, ids))
    /\ q \in Nat /\ os[ids[i]].size \in Int

(***************************************************************************)
(* A level that is exact, part by part.                                    *)
(***************************************************************************)
LEMMA LevelParts ==
    ASSUME NEW os \in Seq(ClientOrder), NEW new \in Seq(ClientOrder), NEW s, NEW lv \in LevelRec,
           Exact(os, s, lv), NEW i \in DOMAIN lv.ids, NEW q, LessOf(os, new, lv.ids[i], q),
           NEW ids, ids = lv.ids
    PROVE  PartsOf(os, new, s, lv, i, q, ids)
<1>1. ids \in Seq(Nat) /\ lv.size \in Int
  BY DEF LevelRec
<1>2. DOMAIN ids = 1..Len(ids)
  BY <1>1, LenProperties
<1>3. /\ ByAge(ids) /\ lv.size = SumFunction(SizesOf(os, ids))
      /\ \A k \in DOMAIN ids : Rests(os, s, lv.price, ids[k])
  BY DEF Exact
<1>4. \A k \in DOMAIN ids : ids[k] \in DOMAIN os /\ ids[k] \in DOMAIN new
  BY <1>3 DEF Rests, LessOf
<1>5. \A k \in DOMAIN ids : k # i => ids[k] # ids[i]
  BY <1>1, <1>3, AgesDiffer
<1>6. \A k \in DOMAIN ids : k # i => new[ids[k]] = os[ids[k]]
  BY <1>4, <1>5 DEF LessOf
<1>7. q \in Nat
  BY DEF LessOf
<1>8. os[ids[i]].size \in Int
  <2>1. \A k \in DOMAIN ids : ids[k] \in DOMAIN os
    BY <1>4
  <2>2. SizesOf(os, ids) \in [1..Len(ids) -> Int] /\ SizesOf(os, ids)[i] = os[ids[i]].size
    BY ZenonT(60), <1>1, <1>2, <2>1, SizesType
  <2> QED BY <1>2, <2>2
<1> QED BY <1>1, <1>2, <1>3, <1>4, <1>6, <1>7, <1>8 DEF PartsOf

(***************************************************************************)
(* The order that is executed keeps shares.                                *)
(***************************************************************************)
LEMMA ExactReduced ==
    ASSUME NEW os \in Seq(ClientOrder), NEW new \in Seq(ClientOrder), NEW s, NEW lv \in LevelRec,
           Exact(os, s, lv), NEW i \in DOMAIN lv.ids, NEW q, LessOf(os, new, lv.ids[i], q),
           q < os[lv.ids[i]].size,
           NEW lw, lw = After(os, lv, i, q)
    PROVE  Exact(new, s, lw) /\ lw.ids = lv.ids
<1>0. PICK ids, f, g, a : ids = lv.ids /\ f = SizesOf(os, ids) /\ g = SizesOf(new, ids) /\ a = os[ids[i]].size
  OBVIOUS
<1>1. PartsOf(os, new, s, lv, i, q, ids)
  BY <1>0, LevelParts
<1>2. ids \in Seq(Nat) /\ ByAge(ids) /\ i \in 1..Len(ids)
  BY <1>1 DEF PartsOf
<1>3. /\ \A k \in DOMAIN ids : ids[k] \in DOMAIN os /\ ids[k] \in DOMAIN new
      /\ \A k \in DOMAIN ids : k # i => new[ids[k]] = os[ids[k]]
  BY <1>1 DEF PartsOf
<1>4. lv.size \in Int /\ lv.size = SumFunction(f) /\ q \in Nat /\ a \in Int /\ q < a
  BY <1>0, <1>1 DEF PartsOf
<1>5. /\ f \in [1..Len(ids) -> Int] /\ g \in [1..Len(ids) -> Int] /\ DOMAIN ids = 1..Len(ids)
      /\ IsFiniteSet(1..Len(ids)) /\ Len(ids) \in Nat
  BY <1>0, <1>2, <1>3, SizesType
<1>6. /\ \A k \in 1..Len(ids) : f[k] = os[ids[k]].size
      /\ \A k \in 1..Len(ids) : g[k] = new[ids[k]].size
  BY <1>0, <1>2, <1>3, SizesType
<1>7. new[ids[i]].size = a - q /\ new[ids[i]].side = os[ids[i]].side /\ new[ids[i]].price = os[ids[i]].price
  BY <1>0 DEF LessOf
<1>8. f[i] = a /\ g[i] = a - q
  BY <1>0, <1>2, <1>6, <1>7
<1>9. /\ SumFunction(f) \in Int /\ SumFunction(g) \in Int
      /\ SumFunction(g) - g[i] = SumFunction(f) - f[i]
  <2>0. PICK D : D = 1..Len(ids)
    OBVIOUS
  <2>1. IsFiniteSet(D) /\ i \in D /\ f \in [D -> Int] /\ g \in [D -> Int]
    BY <1>2, <1>5, <2>0
  <2>2. \A k \in D \ {i} : f[k] = g[k]
    BY <1>3, <1>5, <1>6, <2>0
  <2> QED BY ZenonT(60), <2>1, <2>2, SumChange
<1>10. lw.ids = ids /\ lw.size = lv.size - q /\ lw.price = lv.price
  <2>1. ~(os[lv.ids[i]].size <= q)
    BY <1>0, <1>4
  <2> QED BY <2>1, <1>0 DEF After
<1>11. lw.size = SumFunction(g)
  BY SMTT(60), <1>4, <1>8, <1>9, <1>10
<1>12. \A k \in DOMAIN ids : Rests(new, s, lv.price, ids[k])
  <2>1. \A k \in DOMAIN ids : Rests(os, s, lv.price, ids[k])
    BY <1>1 DEF PartsOf
  <2>2. Rests(new, s, lv.price, ids[i])
    <3>1. a - q > 0
      BY <1>4
    <3>2. i \in DOMAIN ids
      BY <1>2, <1>5
    <3> QED BY <2>1, <3>1, <3>2, <1>3, <1>7 DEF Rests
  <2>3. \A k \in DOMAIN ids : k # i => Rests(new, s, lv.price, ids[k])
    BY <1>3, <2>1 DEF Rests
  <2> QED BY <2>2, <2>3
<1> QED BY <1>0, <1>2, <1>10, <1>11, <1>12 DEF Exact

AllBut(ids, i, jds) ==
    /\ \A k \in DOMAIN jds : \E m \in DOMAIN ids : /\ m = IF k < i THEN k ELSE k + 1
                                                   /\ m # i /\ jds[k] = ids[m]
    /\ \A m \in DOMAIN ids : m # i => \E k \in DOMAIN jds : jds[k] = ids[m]

(***************************************************************************)
(* The places of a level without the i-th, as places of the level.         *)
(***************************************************************************)
LEMMA PlacesKept ==
    ASSUME NEW ids \in Seq(Nat), NEW i \in 1..Len(ids), NEW jds, jds = RemoveAt(ids, i)
    PROVE  /\ jds \in Seq(Nat) /\ Len(jds) = Len(ids) - 1 /\ DOMAIN jds = 1..Len(ids) - 1
           /\ AllBut(ids, i, jds)
<1>1. /\ jds \in Seq(Nat) /\ Len(jds) = Len(ids) - 1
      /\ \A k \in 1..Len(ids) - 1 : jds[k] = IF k < i THEN ids[k] ELSE ids[k + 1]
  BY RemoveAtProperties
<1>2. DOMAIN jds = 1..Len(ids) - 1 /\ DOMAIN ids = 1..Len(ids) /\ Len(ids) \in Nat
  BY <1>1, LenProperties
<1>3. ASSUME NEW k \in DOMAIN jds
      PROVE  \E m \in DOMAIN ids : m = (IF k < i THEN k ELSE k + 1) /\ m # i /\ jds[k] = ids[m]
  <2>1. CASE k < i
    BY SMTT(60), <1>1, <1>2, <2>1
  <2>2. CASE ~(k < i)
    <3>1. k + 1 \in DOMAIN ids /\ k + 1 # i /\ jds[k] = ids[k + 1]
      BY SMTT(60), <1>1, <1>2, <2>2
    <3> QED BY <3>1, <2>2
  <2> QED BY <2>1, <2>2
<1>4. ASSUME NEW m \in DOMAIN ids, m # i
      PROVE  \E k \in DOMAIN jds : jds[k] = ids[m]
  <2>1. CASE m < i
    <3>1. m \in DOMAIN jds
      BY <1>2, <2>1
    <3> QED BY <1>1, <1>2, <2>1, <3>1
  <2>2. CASE m > i
    <3>1. m - 1 \in DOMAIN jds /\ ~(m - 1 < i) /\ m - 1 + 1 = m
      BY <1>2, <2>2
    <3> QED BY <1>1, <1>2, <3>1
  <2> QED BY <1>2, <1>4, <2>1, <2>2
<1> QED BY <1>1, <1>2, <1>3, <1>4 DEF AllBut

(***************************************************************************)
(* The order that is executed has no shares left.                          *)
(***************************************************************************)
LEMMA ExactRemoved ==
    ASSUME NEW os \in Seq(ClientOrder), NEW new \in Seq(ClientOrder), NEW s, NEW lv \in LevelRec,
           Exact(os, s, lv), NEW i \in DOMAIN lv.ids, NEW q, LessOf(os, new, lv.ids[i], q),
           q = os[lv.ids[i]].size,
           NEW lw, lw = After(os, lv, i, q)
    PROVE  /\ Exact(new, s, lw)
           /\ lw.ids = RemoveAt(lv.ids, i)
           /\ \A id : Holds(lv, id) /\ id # lv.ids[i] => Holds(lw, id)
<1>0. PICK ids, jds, f, g : /\ ids = lv.ids /\ jds = lw.ids
                            /\ f = SizesOf(os, ids) /\ g = SizesOf(new, jds)
  OBVIOUS
<1>1. PartsOf(os, new, s, lv, i, q, ids)
  BY <1>0, LevelParts
<1>2. ids \in Seq(Nat) /\ ByAge(ids) /\ i \in 1..Len(ids)
  BY <1>1 DEF PartsOf
<1>3. /\ \A k \in DOMAIN ids : ids[k] \in DOMAIN os /\ ids[k] \in DOMAIN new
      /\ \A k \in DOMAIN ids : k # i => new[ids[k]] = os[ids[k]]
  BY <1>1 DEF PartsOf
<1>4. lv.size \in Int /\ lv.size = SumFunction(f) /\ q \in Nat
  BY <1>0, <1>1 DEF PartsOf
<1>5. f \in [1..Len(ids) -> Int] /\ DOMAIN ids = 1..Len(ids) /\ Len(ids) \in Nat
  BY <1>0, <1>2, <1>3, SizesType
<1>6. \A k \in 1..Len(ids) : f[k] = os[ids[k]].size
  BY <1>0, <1>2, <1>3, SizesType
<1>7. lw.size = lv.size - q /\ lw.price = lv.price /\ jds = RemoveAt(ids, i)
  <2>1. os[lv.ids[i]].size <= q
    BY <1>4
  <2> QED BY <2>1, <1>0 DEF After
<1>8a. jds \in Seq(Nat) /\ Len(jds) = Len(ids) - 1 /\ DOMAIN jds = 1..Len(ids) - 1 /\ AllBut(ids, i, jds)
  BY <1>2, <1>7, PlacesKept
<1>8. /\ \A k \in DOMAIN jds : \E m \in DOMAIN ids : /\ m = IF k < i THEN k ELSE k + 1
                                                     /\ m # i /\ jds[k] = ids[m]
      /\ \A m \in DOMAIN ids : m # i => \E k \in DOMAIN jds : jds[k] = ids[m]
  BY <1>8a DEF AllBut
<1>9. \A k \in DOMAIN jds : jds[k] \in DOMAIN new
  BY <1>3, <1>8
<1>10. /\ g \in [DOMAIN jds -> Int]
       /\ \A k \in DOMAIN jds : g[k] = new[jds[k]].size
  <2>1. /\ g \in [1..Len(jds) -> Int] /\ DOMAIN jds = 1..Len(jds)
        /\ \A k \in 1..Len(jds) : g[k] = new[jds[k]].size
    BY ZenonT(60), <1>0, <1>8a, <1>9, SizesType
  <2> QED BY SMTT(60), <2>1
<1>11. ASSUME NEW k \in DOMAIN jds
       PROVE  g[k] = IF k < i THEN f[k] ELSE f[k + 1]
  <2>1. PICK m \in DOMAIN ids : m = (IF k < i THEN k ELSE k + 1) /\ m # i /\ jds[k] = ids[m]
    BY <1>8
  <2>2. g[k] = f[m]
    BY <2>1, <1>3, <1>5, <1>6, <1>10
  <2> QED BY <2>1, <2>2
<1>12. SumFunction(f) = f[i] + SumFunction(g) /\ SumFunction(g) \in Int
  <2>1. g \in [1..Len(ids) - 1 -> Int] /\ \A k \in 1..Len(ids) - 1 : g[k] = IF k < i THEN f[k] ELSE f[k + 1]
    <3>1. DOMAIN jds = 1..Len(ids) - 1
      BY <1>8a
    <3> QED BY <1>10, <1>11, <3>1
  <2> QED BY <1>2, <1>5, <2>1, SumWithout
<1>13. lw.size = SumFunction(g)
  <2>1. f[i] = q
    BY <1>0, <1>2, <1>6
  <2> QED BY <2>1, <1>4, <1>7, <1>12
<1>14. ASSUME NEW k \in DOMAIN jds
       PROVE  Rests(new, s, lw.price, jds[k])
  <2>1. PICK m \in DOMAIN ids : m # i /\ jds[k] = ids[m]
    BY <1>8
  <2>2. Rests(os, s, lv.price, ids[m])
    BY <1>1 DEF PartsOf
  <2> QED BY <2>1, <2>2, <1>3, <1>7 DEF Rests
<1>15. ASSUME NEW a \in DOMAIN jds, NEW b \in DOMAIN jds, a < b
       PROVE  jds[a] < jds[b]
  <2>1. PICK m \in DOMAIN ids : m = (IF a < i THEN a ELSE a + 1) /\ jds[a] = ids[m]
    BY <1>8
  <2>2. PICK o \in DOMAIN ids : o = (IF b < i THEN b ELSE b + 1) /\ jds[b] = ids[o]
    BY <1>8
  <2>3. a \in Nat /\ b \in Nat /\ i \in Nat
    <3>1. DOMAIN jds = 1..Len(ids) - 1
      BY <1>8a
    <3> QED BY SMTT(60), <3>1, <1>2
  <2>4. m < o
    BY <1>15, <2>1, <2>2, <2>3
  <2> QED BY <2>1, <2>2, <2>4, <1>2 DEF ByAge
<1>16. ASSUME NEW id, Holds(lv, id), id # lv.ids[i]
       PROVE  Holds(lw, id)
  <2>1. PICK k \in DOMAIN ids : ids[k] = id /\ k # i
    BY SMTT(60), <1>0, <1>16 DEF Holds
  <2> QED BY <1>0, <1>8, <2>1 DEF Holds
<1>17. Exact(new, s, lw)
  BY ZenonT(60), <1>0, <1>13, <1>14, <1>15 DEF Exact, ByAge
<1> QED BY <1>0, <1>7, <1>16, <1>17

\* Order id comes to rest with q shares at price p.
RestsNow(os, new, s, id, p, q) ==
    /\ DOMAIN new = DOMAIN os
    /\ id \in DOMAIN os /\ os[id].size = 0
    /\ \A j \in DOMAIN os \ {id} : new[j] = os[j]
    /\ q \in Nat /\ q > 0 /\ new[id].size = q
    /\ os[id].side = s /\ new[id].side = s /\ new[id].price = p
    /\ \A j \in DOMAIN os : j <= id

\* Level lw has order id and the orders of level lv.
Joined(new, s, lv, lw, id) ==
    Exact(new, s, lw) /\ Holds(lw, id) /\ \A j : Holds(lv, j) => Holds(lw, j)

(***************************************************************************)
(* The order that is inserted is behind the orders of its level.           *)
(***************************************************************************)
LEMMA ExactQueued ==
    ASSUME NEW os \in Seq(ClientOrder), NEW new \in Seq(ClientOrder), NEW s, NEW lv \in LevelRec,
           Exact(os, s, lv), NEW id, NEW p, NEW q, RestsNow(os, new, s, id, p, q), lv.price = p,
           NEW lw, lw = [price |-> p, size |-> lv.size + q, ids |-> Append(lv.ids, id)]
    PROVE  Joined(new, s, lv, lw, id)
<1>0. PICK ids, jds, n, f, g : /\ ids = lv.ids /\ jds = lw.ids /\ n = Len(ids)
                               /\ f = SizesOf(os, ids) /\ g = SizesOf(new, jds)
  OBVIOUS
<1>1. ids \in Seq(Nat) /\ lv.size \in Int /\ DOMAIN ids = 1..n /\ n \in Nat
  BY <1>0, LenProperties DEF LevelRec
<1>2. DOMAIN os = 1..Len(os) /\ DOMAIN new = DOMAIN os /\ id \in DOMAIN os /\ id \in Nat
      /\ \A j \in DOMAIN os : j \in Nat /\ j <= id
  BY LenProperties DEF RestsNow
<1>3. ByAge(ids) /\ lv.size = SumFunction(f) /\ \A k \in DOMAIN ids : Rests(os, s, p, ids[k])
  BY <1>0 DEF Exact
<1>4. \A k \in DOMAIN ids : /\ ids[k] \in DOMAIN os /\ ids[k] # id
                            /\ new[ids[k]] = os[ids[k]] /\ ids[k] < id
  <2>1. ASSUME NEW k \in DOMAIN ids
        PROVE  ids[k] \in DOMAIN os /\ ids[k] # id
    BY <1>3 DEF Rests, RestsNow
  <2>2. \A k \in DOMAIN ids : new[ids[k]] = os[ids[k]]
    BY <2>1 DEF RestsNow
  <2>3. \A k \in DOMAIN ids : ids[k] < id
    BY <2>1, <1>2
  <2> QED BY <2>1, <2>2, <2>3
<1>5. lw.price = p /\ lw.size = lv.size + q /\ jds = Append(ids, id)
  BY <1>0
<1>6. /\ jds \in Seq(Nat) /\ Len(jds) = n + 1 /\ jds[n + 1] = id
      /\ \A k \in 1..n : jds[k] = ids[k]
  BY <1>0, <1>1, <1>2, <1>5, AppendProperties
<1>7. DOMAIN jds = 1..(n + 1)
  BY <1>6, LenProperties
<1>8. \A k \in DOMAIN jds : k = n + 1 \/ (k \in DOMAIN ids /\ jds[k] = ids[k])
  BY <1>1, <1>6, <1>7
<1>9. \A k \in DOMAIN jds : jds[k] \in DOMAIN new
  BY <1>2, <1>4, <1>6, <1>8
<1>10. f \in [1..n -> Int] /\ \A k \in 1..n : f[k] = os[ids[k]].size
  BY <1>0, <1>1, <1>4, SizesType
<1>11. g \in [1..(n + 1) -> Int] /\ \A k \in 1..(n + 1) : g[k] = new[jds[k]].size
  <2>1. g \in [1..Len(jds) -> Int] /\ \A k \in 1..Len(jds) : g[k] = new[jds[k]].size
    BY ZenonT(60), <1>0, <1>6, <1>9, SizesType
  <2> QED BY <2>1, <1>6
<1>12. ASSUME NEW k \in 1..n
       PROVE  g[k] = f[k]
  <2>1. k \in 1..(n + 1) /\ k \in DOMAIN ids
    BY <1>1
  <2>2. jds[k] = ids[k]
    BY <1>6
  <2>3. g[k] = new[ids[k]].size
    BY <1>11, <2>1, <2>2
  <2>4. f[k] = os[ids[k]].size
    BY <1>10
  <2>5. new[ids[k]] = os[ids[k]]
    BY <1>4, <2>1
  <2> QED BY <2>3, <2>4, <2>5
<1>13. SumFunction(g) = SumFunction(f) + g[n + 1]
  BY <1>1, <1>10, <1>11, <1>12, SumAppend
<1>14. g[n + 1] = q
  <2>1. n + 1 \in 1..(n + 1)
    BY <1>1
  <2> QED BY <2>1, <1>6, <1>11 DEF RestsNow
<1>15. lw.size = SumFunction(g)
  BY <1>3, <1>5, <1>13, <1>14
<1>16. ASSUME NEW k \in DOMAIN jds
       PROVE  Rests(new, s, p, jds[k])
  <2>1. CASE k = n + 1
    BY <1>2, <1>6, <2>1 DEF Rests, RestsNow
  <2>2. CASE k \in DOMAIN ids /\ jds[k] = ids[k]
    BY <1>2, <1>3, <1>4, <2>2 DEF Rests
  <2> QED BY <1>8, <2>1, <2>2
<1>17. ASSUME NEW a \in DOMAIN jds, NEW b \in DOMAIN jds, a < b
       PROVE  jds[a] < jds[b]
  <2>1. a \in DOMAIN ids /\ jds[a] = ids[a]
    BY <1>1, <1>7, <1>8, <1>17
  <2>2. CASE b = n + 1
    BY <1>4, <1>6, <2>1, <2>2
  <2>3. CASE b \in DOMAIN ids /\ jds[b] = ids[b]
    BY <1>3, <1>17, <2>1, <2>3 DEF ByAge
  <2> QED BY <1>8, <2>2, <2>3
<1>18. Holds(lw, id)
  <2>1. n + 1 \in DOMAIN jds
    BY <1>1, <1>7
  <2> QED BY <2>1, <1>0, <1>6 DEF Holds
<1>19. \A j : Holds(lv, j) => Holds(lw, j)
  <2>1. \A k \in DOMAIN ids : k \in DOMAIN jds /\ jds[k] = ids[k]
    BY <1>1, <1>6, <1>7
  <2> QED BY <2>1, <1>0 DEF Holds
<1>20. Exact(new, s, lw)
  BY <1>0, <1>5, <1>15, <1>16, <1>17 DEF Exact, ByAge
<1> QED BY <1>18, <1>19, <1>20 DEF Joined

(***************************************************************************)
(* The order that is inserted is a level of its own.                       *)
(***************************************************************************)
LEMMA ExactAlone ==
    ASSUME NEW os \in Seq(ClientOrder), NEW new \in Seq(ClientOrder), NEW s,
           NEW id, NEW p, NEW q, RestsNow(os, new, s, id, p, q),
           NEW lw, lw = [price |-> p, size |-> q, ids |-> <<id>>]
    PROVE  Exact(new, s, lw) /\ Holds(lw, id)
<1>0. PICK ids, g : ids = <<id>> /\ g = SizesOf(new, ids)
  OBVIOUS
<1>1. id \in DOMAIN new /\ id \in Nat /\ q \in Nat
  BY LenProperties DEF RestsNow
<1>2. ids \in Seq(Nat) /\ Len(ids) = 1 /\ DOMAIN ids = {1} /\ ids[1] = id
  BY <1>0, <1>1
<1>3. g \in [{1} -> Int] /\ g[1] = q
  <2>1. g = [k \in {1} |-> new[ids[k]].size]
    BY <1>0, <1>2 DEF SizesOf
  <2>2. new[id].size = q
    BY DEF RestsNow
  <2> QED BY <1>1, <1>2, <2>1, <2>2
<1>4. SumFunction(g) = q
  <2>1. SumFunction(g) = SumFunctionOnSet(g, {1})
    BY <1>3 DEF SumFunction
  <2>2. IsFiniteSet({1})
    BY FS_Singleton
  <2>3. SumFunctionOnSet(g, {1}) = g[1] + SumFunctionOnSet(g, {1} \ {1})
    BY <1>3, <2>2, SumRemove, ZenonT(20)
  <2>4. {1} \ {1} = {}
    OBVIOUS
  <2>5. SumFunctionOnSet(g, {}) = 0
    BY SumEmpty
  <2>6. SumFunction(g) = q + 0
    BY <1>3, <2>1, <2>3, <2>4, <2>5
  <2> QED BY <1>1, <2>6
<1>5. lw.ids = ids /\ lw.size = q /\ lw.price = p
  BY <1>0
<1>6. Rests(new, s, p, id)
  BY <1>1 DEF Rests, RestsNow
<1>7. ByAge(ids)
  BY <1>2 DEF ByAge
<1>8. Exact(new, s, lw)
  BY <1>0, <1>2, <1>4, <1>5, <1>6, <1>7 DEF Exact
<1> QED BY <1>2, <1>5, <1>8 DEF Holds

--------------------------------------------------------------------------------
(* A side of the book and its orders. *)

SideExact(os, s, levels) ==
    /\ levels \in Seq(LevelRec) /\ Ordered(s, levels)
    /\ AllExact(os, s, levels) /\ Listed(os, s, levels)

(***************************************************************************)
(* Nothing of this side changes.                                           *)
(***************************************************************************)
LEMMA SideElsewhere ==
    ASSUME NEW os, NEW new, NEW s, NEW levels, SideExact(os, s, levels),
           \A j \in DOMAIN os : os[j].side = s /\ os[j].size > 0 => j \in DOMAIN new /\ new[j] = os[j],
           \A j \in DOMAIN new : new[j].side = s /\ new[j].size > 0 => j \in DOMAIN os /\ new[j] = os[j]
    PROVE  SideExact(new, s, levels)
<1>1. ASSUME NEW l \in DOMAIN levels
      PROVE  Exact(new, s, levels[l])
  <2>1. Exact(os, s, levels[l])
    BY DEF SideExact, AllExact
  <2>2. \A i \in DOMAIN levels[l].ids : Rests(os, s, levels[l].price, levels[l].ids[i])
    BY <2>1 DEF Exact
  <2>3. \A i \in DOMAIN levels[l].ids :
           levels[l].ids[i] \in DOMAIN new /\ new[levels[l].ids[i]] = os[levels[l].ids[i]]
    BY <2>2 DEF Rests
  <2> QED BY <2>1, <2>3, ExactElsewhere
<1>2. Listed(new, s, levels)
  BY DEF SideExact, Listed
<1> QED BY <1>1, <1>2 DEF SideExact, AllExact

(***************************************************************************)
(* An order of level l is executed or cancelled, in whole or in part.      *)
(***************************************************************************)
LEMMA SideExecuted ==
    ASSUME NEW os \in Seq(ClientOrder), NEW new \in Seq(ClientOrder), NEW s, NEW levels,
           SideExact(os, s, levels), NEW l \in DOMAIN levels, NEW i \in DOMAIN levels[l].ids,
           NEW q, LessOf(os, new, levels[l].ids[i], q)
    PROVE  SideExact(new, s, BookAfter(levels, l, After(os, levels[l], i, q)))
<1>0. PICK lv, lw, book2, id : /\ lv = levels[l] /\ lw = After(os, lv, i, q) /\ id = lv.ids[i]
                               /\ book2 = BookAfter(levels, l, lw)
  OBVIOUS
<1>1. levels \in Seq(LevelRec) /\ DOMAIN levels = 1..Len(levels) /\ Len(levels) \in Nat
  BY LenProperties DEF SideExact
<1>2. lv \in LevelRec /\ i \in DOMAIN lv.ids /\ Exact(os, s, lv)
  BY <1>0, <1>1, ElementOfSeq DEF SideExact, AllExact
<1>3. lw \in LevelRec /\ lw.price = lv.price
  BY <1>0, <1>2, AfterRecord DEF LessOf
<1>4. Rests(os, s, lv.price, id)
  BY <1>0, <1>2 DEF Exact
<1>5. book2 \in Seq(LevelRec) /\ AfterChange(levels, l, lw, book2)
  BY <1>0, <1>1, <1>3, BookAfterLevels
<1>6. DOMAIN book2 = 1..Len(book2)
  BY <1>5, LenProperties
<1>7. Ordered(s, book2)
  <2>1. Ordered(s, levels)
    BY DEF SideExact
  <2> QED BY <2>1, <1>0, <1>1, <1>3, BookAfterOrdered
<1>8. /\ Exact(new, s, lw)
      /\ \A j : Holds(lv, j) /\ (j = id => new[id].size > 0) => Holds(lw, j)
  <2>1. LessOf(os, new, lv.ids[i], q) /\ id \in DOMAIN os
    BY <1>0, <1>4 DEF Rests
  <2>2. os[id] \in ClientOrder
    BY <2>1, LenProperties, ElementOfSeq
  <2>3. os[id].size \in Nat /\ q \in Nat /\ q <= os[id].size /\ new[id].size = os[id].size - q
    BY <1>0, <2>1, <2>2 DEF LessOf, ClientOrder
  <2>4. CASE q < os[id].size
    <3>1. Exact(new, s, lw) /\ lw.ids = lv.ids
      BY <1>0, <1>2, <2>1, <2>4, ExactReduced
    <3> QED BY <3>1 DEF Holds
  <2>5. CASE q = os[id].size
    <3>1. Exact(new, s, lw) /\ \A j : Holds(lv, j) /\ j # lv.ids[i] => Holds(lw, j)
      BY <1>0, <1>2, <2>1, <2>5, ExactRemoved
    <3>2. ~(new[id].size > 0)
      BY <2>3, <2>5
    <3> QED BY <1>0, <3>1, <3>2
  <2> QED BY <2>3, <2>4, <2>5
<1>9. ASSUME NEW m \in DOMAIN levels, m # l
      PROVE  Exact(new, s, levels[m])
  <2>1. Exact(os, s, levels[m])
    BY DEF SideExact, AllExact
  <2>2. levels[m].price # lv.price
    <3>1. levels[m] \in LevelRec
      BY <1>1, ElementOfSeq
    <3>2. levels[m].price \in Nat /\ lv.price \in Nat
      BY <1>2, <3>1 DEF LevelRec
    <3>3. Better(s, levels[m].price, lv.price) \/ Better(s, lv.price, levels[m].price)
      <4>1. m < l \/ l < m
        BY <1>1, <1>9
      <4> QED BY <4>1, <1>0 DEF SideExact, Ordered
    <3> QED BY <3>2, <3>3 DEF Better
  <2>3. ASSUME NEW k \in DOMAIN levels[m].ids
        PROVE  levels[m].ids[k] \in DOMAIN new /\ new[levels[m].ids[k]] = os[levels[m].ids[k]]
    <3>1. Rests(os, s, levels[m].price, levels[m].ids[k])
      BY <2>1 DEF Exact
    <3>2. levels[m].ids[k] # id
      BY <1>4, <2>2, <3>1 DEF Rests
    <3> QED BY <1>0, <3>1, <3>2 DEF Rests, LessOf
  <2> QED BY <2>1, <2>3, ExactElsewhere
<1>10. ASSUME NEW m \in DOMAIN book2
       PROVE  book2[m] = lw \/ \E k \in DOMAIN levels : k # l /\ book2[m] = levels[k]
  <2>1. CASE lw.ids = <<>>
    <3>1. Erased(levels, l, book2)
      BY <1>5, <2>1 DEF AfterChange
    <3>2. CASE m < l
      BY <1>1, <1>6, <3>1, <3>2 DEF Erased
    <3>3. CASE ~(m < l)
      <4>1. m + 1 \in DOMAIN levels /\ m + 1 # l /\ book2[m] = levels[m + 1]
        BY <1>1, <1>6, <3>1, <3>3 DEF Erased
      <4> QED BY <4>1
    <3> QED BY <3>2, <3>3
  <2>2. CASE lw.ids # <<>>
    <3>1. Changed(levels, l, lw, book2)
      BY <1>5, <2>2 DEF AfterChange
    <3> QED BY <1>1, <1>6, <3>1 DEF Changed
  <2> QED BY <2>1, <2>2
<1>11. AllExact(new, s, book2)
  BY <1>8, <1>9, <1>10 DEF AllExact
<1>12. ASSUME NEW m \in DOMAIN levels, m # l
       PROVE  \E k \in DOMAIN book2 : book2[k] = levels[m]
  <2>1. CASE lw.ids = <<>>
    <3>1. Erased(levels, l, book2)
      BY <1>5, <2>1 DEF AfterChange
    <3>2. CASE m < l
      <4>1. m \in DOMAIN book2 /\ book2[m] = levels[m]
        BY <1>1, <1>6, <3>1, <3>2 DEF Erased
      <4> QED BY <4>1
    <3>3. CASE m > l
      <4>1. m - 1 \in DOMAIN book2 /\ ~(m - 1 < l) /\ m - 1 + 1 = m
        BY <1>1, <1>6, <3>1, <3>3 DEF Erased
      <4> QED BY <1>6, <4>1, <3>1 DEF Erased
    <3> QED BY <3>2, <3>3, <1>1, <1>12
  <2>2. CASE lw.ids # <<>>
    <3>1. Changed(levels, l, lw, book2)
      BY <1>5, <2>2 DEF AfterChange
    <3> QED BY <1>1, <1>6, <1>12, <3>1 DEF Changed
  <2> QED BY <2>1, <2>2
<1>13. ASSUME NEW j, Holds(lw, j)
       PROVE  \E k \in DOMAIN book2 : book2[k] = lw
  <2>1. lw.ids # <<>>
    BY <1>13 DEF Holds
  <2>2. Changed(levels, l, lw, book2)
    BY <1>5, <2>1 DEF AfterChange
  <2> QED BY <1>1, <1>6, <2>2 DEF Changed
<1>14. ASSUME NEW j \in DOMAIN new, new[j].size > 0, new[j].side = s
       PROVE  \E k \in DOMAIN book2 : Holds(book2[k], j)
  <2>1. j \in DOMAIN os /\ os[j].side = s /\ os[j].size > 0
    <3>1. j \in DOMAIN os
      BY DEF LessOf
    <3>2. CASE j = id
      BY <1>4, <3>1, <3>2 DEF Rests
    <3>3. CASE j # id
      BY <1>0, <1>14, <3>1, <3>3 DEF LessOf
    <3> QED BY <3>2, <3>3
  <2>2. PICK m \in DOMAIN levels : Holds(levels[m], j)
    BY <2>1 DEF SideExact, Listed
  <2>3. CASE m # l
    BY <1>12, <2>2, <2>3
  <2>4. CASE m = l
    <3>1. Holds(lw, j)
      BY <1>0, <1>8, <1>14, <2>2, <2>4
    <3> QED BY <1>13, <3>1
  <2> QED BY <2>3, <2>4
<1>15. Listed(new, s, book2)
  BY <1>14 DEF Listed
<1> QED BY <1>0, <1>5, <1>7, <1>11, <1>15 DEF SideExact

(***************************************************************************)
(* An order comes to rest on side s.                                       *)
(***************************************************************************)
LEMMA SideInserted ==
    ASSUME NEW os \in Seq(ClientOrder), NEW new \in Seq(ClientOrder), NEW s, NEW levels,
           SideExact(os, s, levels), NEW id, NEW p \in Nat, NEW q,
           RestsNow(os, new, s, id, p, q)
    PROVE  SideExact(new, s, Inserted(s, levels, id, p, q))
<1>0. PICK book2 : book2 = Inserted(s, levels, id, p, q)
  OBVIOUS
<1>1. levels \in Seq(LevelRec) /\ DOMAIN levels = 1..Len(levels) /\ Len(levels) \in Nat /\ Ordered(s, levels)
  BY LenProperties DEF SideExact
<1>2. id \in Nat /\ q \in Nat
  BY LenProperties DEF RestsNow
<1>3. /\ book2 \in Seq(LevelRec) /\ DOMAIN book2 = 1..Len(book2)
      /\ \E k \in Nat : \/ InsertedInto(s, levels, id, p, q, book2, k)
                        \/ InsertedBefore(s, levels, id, p, q, book2, k)
  BY <1>0, <1>1, <1>2, InsertedLevels, LenProperties
<1>4. Ordered(s, book2)
  BY <1>0, <1>1, <1>2, InsertedOrdered
<1>5. ASSUME NEW m \in DOMAIN levels
      PROVE  Exact(os, s, levels[m]) /\ Exact(new, s, levels[m]) /\ levels[m] \in LevelRec
  <2>1. Exact(os, s, levels[m]) /\ levels[m] \in LevelRec
    BY <1>1, ElementOfSeq DEF SideExact, AllExact
  <2>2. ASSUME NEW k \in DOMAIN levels[m].ids
        PROVE  levels[m].ids[k] \in DOMAIN new /\ new[levels[m].ids[k]] = os[levels[m].ids[k]]
    <3>1. Rests(os, s, levels[m].price, levels[m].ids[k])
      BY <2>1 DEF Exact
    <3>2. levels[m].ids[k] # id
      BY <3>1 DEF Rests, RestsNow
    <3> QED BY <3>1, <3>2 DEF Rests, RestsNow
  <2> QED BY <2>1, <2>2, ExactElsewhere
<1>6. ASSUME NEW j \in DOMAIN new, new[j].size > 0, new[j].side = s, j # id
      PROVE  \E m \in DOMAIN levels : Holds(levels[m], j)
  <2>1. j \in DOMAIN os /\ new[j] = os[j]
    BY <1>6 DEF RestsNow
  <2> QED BY <1>6, <2>1 DEF SideExact, Listed
<1>7. PICK k \in Nat : \/ InsertedInto(s, levels, id, p, q, book2, k)
                       \/ InsertedBefore(s, levels, id, p, q, book2, k)
  BY <1>3
<1>8. CASE InsertedInto(s, levels, id, p, q, book2, k)
  <2>0. PICK lw : lw = [price |-> p, size |-> levels[k].size + q, ids |-> Append(levels[k].ids, id)]
    OBVIOUS
  <2>1. /\ k \in DOMAIN levels /\ levels[k].price = p /\ DOMAIN book2 = DOMAIN levels
        /\ \A j \in DOMAIN levels : book2[j] = IF j = k THEN lw ELSE levels[j]
    BY <1>1, <1>3, <1>8, <2>0 DEF InsertedInto
  <2>2. Exact(new, s, lw) /\ Holds(lw, id) /\ \A j : Holds(levels[k], j) => Holds(lw, j)
    <3>1. PICK lv : lv = levels[k]
      OBVIOUS
    <3>2. lv \in LevelRec /\ lv.price = p /\ Exact(os, s, lv)
      BY <1>5, <2>1, <3>1
    <3>3. lw = [price |-> p, size |-> lv.size + q, ids |-> Append(lv.ids, id)]
      BY <2>0, <3>1
    <3>4. Joined(new, s, lv, lw, id)
      BY <3>2, <3>3, ExactQueued, ZenonT(30)
    <3> QED BY <3>1, <3>4 DEF Joined
  <2>3. AllExact(new, s, book2)
    BY <1>5, <2>1, <2>2 DEF AllExact
  <2>4. Listed(new, s, book2)
    BY <1>6, <2>1, <2>2 DEF Listed
  <2> QED BY <1>0, <1>3, <1>4, <2>3, <2>4 DEF SideExact
<1>9. CASE InsertedBefore(s, levels, id, p, q, book2, k)
  <2>0. PICK lw : lw = [price |-> p, size |-> q, ids |-> <<id>>]
    OBVIOUS
  <2>1. /\ k \in DOMAIN book2 /\ DOMAIN book2 = 1..Len(levels) + 1
        /\ \A j \in 1..Len(levels) + 1 : book2[j] = IF j < k THEN levels[j] ELSE IF j = k THEN lw ELSE levels[j - 1]
    BY <1>3, <1>9, <2>0 DEF InsertedBefore
  <2>2. Exact(new, s, lw) /\ Holds(lw, id)
    BY <2>0, ExactAlone
  <2>3. ASSUME NEW j \in DOMAIN book2
        PROVE  book2[j] = lw \/ \E m \in DOMAIN levels : book2[j] = levels[m]
    <3>1. CASE j < k
      <4>1. j \in DOMAIN levels /\ book2[j] = levels[j]
        BY <1>1, <2>1, <3>1
      <4> QED BY <4>1
    <3>2. CASE j = k
      BY <2>1, <3>2
    <3>3. CASE j > k
      <4>1. j - 1 \in DOMAIN levels /\ book2[j] = levels[j - 1]
        BY <1>1, <2>1, <3>3
      <4> QED BY <4>1
    <3> QED BY <3>1, <3>2, <3>3, <2>1
  <2>4. ASSUME NEW m \in DOMAIN levels
        PROVE  \E j \in DOMAIN book2 : book2[j] = levels[m]
    <3>1. CASE m < k
      <4>1. m \in DOMAIN book2 /\ book2[m] = levels[m]
        BY <1>1, <2>1, <3>1
      <4> QED BY <4>1
    <3>2. CASE ~(m < k)
      <4>1. m + 1 \in DOMAIN book2 /\ ~(m + 1 < k) /\ m + 1 # k /\ m + 1 - 1 = m
        BY <1>1, <2>1, <3>2
      <4> QED BY <4>1, <2>1
    <3> QED BY <3>1, <3>2
  <2>5. AllExact(new, s, book2)
    BY <1>5, <2>2, <2>3 DEF AllExact
  <2>6. ASSUME NEW j \in DOMAIN new, new[j].size > 0, new[j].side = s
        PROVE  \E m \in DOMAIN book2 : Holds(book2[m], j)
    <3>1. CASE j = id
      BY <2>1, <2>2, <3>1
    <3>2. CASE j # id
      BY <1>6, <2>4, <2>6, <3>2
    <3> QED BY <3>1, <3>2
  <2> QED BY <1>0, <1>3, <1>4, <2>5, <2>6 DEF SideExact, Listed
<1> QED BY <1>7, <1>8, <1>9

--------------------------------------------------------------------------------
(* The books and what the handler knows of the order in hand. *)

SidesExact == \A s \in Sides : SideExact(orders, s, localBook[s])
QuotesInOrder == \A s \in Sides : QuotesOrdered(s, globalBook[s])

InHandKnown ==
    /\ phase \in {"match", "insert"} =>
          nextOrder.id = Len(orders) /\ nextOrder.side = orders[nextOrder.id].side
    /\ phase = "match" => against = Other(nextOrder.side)
    /\ phase = "insert" => against = Other(nextOrder.side) /\ nextOrder.size > 0
    /\ phase = "feed" /\ nextOrder.kind = "TRTH_QUOTE" => against = Other(nextOrder.side)

BookInv == SidesExact /\ QuotesInOrder /\ InHandKnown

(***************************************************************************)
(* The empty books are in order and exact.                                 *)
(***************************************************************************)
LEMMA InitBooks == Init => BookInv
<1> SUFFICES ASSUME Init PROVE BookInv
  OBVIOUS
<1>1. ASSUME NEW s \in Sides
      PROVE  localBook[s] = <<>> /\ globalBook[s] = <<>> /\ orders = <<>>
  BY <1>1 DEF Init
<1>2. <<>> \in Seq(LevelRec) /\ DOMAIN <<>> = {}
  BY EmptySeq
<1>3. SidesExact
  BY <1>1, <1>2 DEF SidesExact, SideExact, Ordered, AllExact, Listed
<1>4. QuotesInOrder
  BY <1>1, <1>2 DEF QuotesInOrder, QuotesOrdered
<1>5. InHandKnown
  BY DEF Init, InHandKnown
<1> QED BY <1>3, <1>4, <1>5 DEF BookInv

(***************************************************************************)
(* An execution with, or a cancellation of, a resting order.               *)
(***************************************************************************)
LEMMA LocalExecutionBooks ==
    ASSUME TypeOK, SidesExact, NEW s \in Sides, NEW l \in 1..Len(localBook[s]),
           NEW i \in 1..Len(localBook[s][l].ids), NEW price \in Nat,
           NEW decision \in {"2", "4"},
           ExecuteLocalOrder(s, l, i, price, decision)
    PROVE  SidesExact'
<1>0. PICK id, q, levels : id = Resting(s, l, i) /\ q = Executed(s, l, i) /\ levels = localBook[s]
  OBVIOUS
<1>a. /\ Resting(s, l, i) \in 1..Len(orders) /\ Executed(s, l, i) \in Nat
      /\ Executed(s, l, i) <= orders[Resting(s, l, i)].size
      /\ orders' \in Seq(ClientOrder) /\ Len(orders') = Len(orders)
      /\ \A j \in 1..Len(orders) :
            orders'[j] = IF j = Resting(s, l, i) THEN [orders[Resting(s, l, i)] EXCEPT !.size = orders[Resting(s, l, i)].size - Executed(s, l, i)]
                         ELSE orders[j]
      /\ nextOrder' = [nextOrder EXCEPT !.size = nextOrder.size - Executed(s, l, i)]
  BY SMTT(60), LocalExecution
<1>1. /\ id \in 1..Len(orders) /\ q \in Nat /\ q <= orders[id].size
      /\ orders' \in Seq(ClientOrder) /\ Len(orders') = Len(orders)
  BY <1>a, <1>0
<1>2. \A j \in 1..Len(orders) : orders'[j] = IF j = id THEN [orders[id] EXCEPT !.size = orders[id].size - q]
                                             ELSE orders[j]
  BY <1>a, <1>0
<1>3. orders \in Seq(ClientOrder) /\ DOMAIN orders = 1..Len(orders) /\ DOMAIN orders' = 1..Len(orders)
      /\ orders[id] \in ClientOrder
  BY <1>1, LenProperties, ElementOfSeq DEF TypeOK
<1>4. SideExact(orders, s, levels)
  BY <1>0 DEF SidesExact
<1>5. l \in DOMAIN levels /\ i \in DOMAIN levels[l].ids /\ levels[l].ids[i] = id
  <2>1. levels \in Seq(LevelRec)
    BY <1>4 DEF SideExact
  <2>2. l \in DOMAIN levels /\ levels[l] \in LevelRec
    BY <1>0, <2>1, LenProperties, ElementOfSeq
  <2>3. levels[l].ids \in Seq(Nat)
    BY <2>2 DEF LevelRec
  <2> QED BY <1>0, <2>2, <2>3, LenProperties DEF Resting
<1>6. LessOf(orders, orders', id, q)
  <2>1. orders'[id] = [orders[id] EXCEPT !.size = orders[id].size - q]
    BY SMTT(60), <1>1, <1>2
  <2>2. /\ orders'[id].size = orders[id].size - q
        /\ orders'[id].side = orders[id].side /\ orders'[id].price = orders[id].price
    BY <1>3, <2>1 DEF ClientOrder
  <2>3. \A j \in DOMAIN orders \ {id} : orders'[j] = orders[j]
    BY <1>2, <1>3
  <2> QED BY <1>1, <1>3, <2>2, <2>3 DEF LessOf
<1>7. localBook' = [localBook EXCEPT ![s] = BookAfter(levels, l, After(orders, levels[l], i, q))]
  <2>1. LevelAfter(levels[l], i, q) = After(orders, levels[l], i, q)
    BY DEF LevelAfter, After
  <2>2. q = Least(orders[levels[l].ids[i]].size, nextOrder.size)
    BY SMTT(60), <1>0 DEF Executed, Resting
  <2>3. localBook' = [localBook EXCEPT ![s] = BookAfter(localBook[s], l, LevelAfter(localBook[s][l], i,
                         Least(orders[localBook[s][l].ids[i]].size, nextOrder.size)))]
    BY DEF ExecuteLocalOrder, Levels
  <2> QED BY Zenon, <1>0, <2>1, <2>2, <2>3
<1>8. localBook \in [Sides -> Seq(PriceLevel)]
  BY DEF TypeOK
<1>9. ASSUME NEW t \in Sides
      PROVE  SideExact(orders', t, localBook'[t])
  <2>1. CASE t = s
    <3>1. LessOf(orders, orders', levels[l].ids[i], q)
      BY <1>5, <1>6
    <3>2. SideExact(orders', s, BookAfter(levels, l, After(orders, levels[l], i, q)))
      BY <1>1, <1>3, <1>4, <1>5, <3>1, SideExecuted
    <3> QED BY <1>7, <1>8, <2>1, <3>2
  <2>2. CASE t # s
    <3>1. localBook'[t] = localBook[t] /\ SideExact(orders, t, localBook[t])
      BY <1>7, <1>8, <2>2 DEF SidesExact
    <3>2. orders[id].side = s /\ orders'[id].side = s
      <4>1. Rests(orders, s, levels[l].price, id)
        BY <1>4, <1>5 DEF SideExact, AllExact, Exact
      <4> QED BY <4>1, <1>6 DEF Rests, LessOf
    <3>3. \A j \in DOMAIN orders : orders[j].side = t /\ orders[j].size > 0 => j \in DOMAIN orders' /\ orders'[j] = orders[j]
      BY <1>6, <2>2, <3>2 DEF LessOf
    <3>4. \A j \in DOMAIN orders' : orders'[j].side = t /\ orders'[j].size > 0 => j \in DOMAIN orders /\ orders'[j] = orders[j]
      BY <1>6, <2>2, <3>2 DEF LessOf
    <3> QED BY <3>1, <3>3, <3>4, SideElsewhere
  <2> QED BY <2>1, <2>2
<1> QED BY <1>9 DEF SidesExact

(***************************************************************************)
(* What the handler knows of the order in hand, after such an execution.   *)
(***************************************************************************)
LEMMA LocalExecutionInHand ==
    ASSUME TypeOK, NextOrderKnown, InHandKnown, NEW s \in Sides, NEW l \in 1..Len(localBook[s]),
           NEW i \in 1..Len(localBook[s][l].ids), NEW price \in Nat,
           NEW decision \in {"2", "4"},
           ExecuteLocalOrder(s, l, i, price, decision),
           (phase \in {"match", "feed"} /\ phase' = phase) \/ phase' = "send", against' = against
    PROVE  InHandKnown'
<1>a. /\ Resting(s, l, i) \in 1..Len(orders) /\ Executed(s, l, i) \in Nat
      /\ Executed(s, l, i) <= orders[Resting(s, l, i)].size
      /\ orders' \in Seq(ClientOrder) /\ Len(orders') = Len(orders)
      /\ \A j \in 1..Len(orders) :
            orders'[j] = IF j = Resting(s, l, i) THEN [orders[Resting(s, l, i)] EXCEPT !.size = orders[Resting(s, l, i)].size - Executed(s, l, i)]
                         ELSE orders[j]
      /\ nextOrder' = [nextOrder EXCEPT !.size = nextOrder.size - Executed(s, l, i)]
  BY LocalExecution
<1>1. /\ Len(orders') = Len(orders)
      /\ \A j \in 1..Len(orders) : orders'[j].side = orders[j].side
  <2>1. orders \in Seq(ClientOrder) /\ Resting(s, l, i) \in 1..Len(orders)
    BY <1>a DEF TypeOK
  <2>2. orders[Resting(s, l, i)] \in ClientOrder
    BY <2>1, ElementOfSeq
  <2> QED BY <2>2, <1>a DEF ClientOrder
<1>2. nextOrder'.id = nextOrder.id /\ nextOrder'.side = nextOrder.side /\ nextOrder'.kind = nextOrder.kind
  <2>1. nextOrder' = [nextOrder EXCEPT !.size = nextOrder.size - Executed(s, l, i)] /\ nextOrder \in Order
    BY <1>a DEF TypeOK
  <2> QED BY <2>1 DEF Order
<1>3. orders \in Seq(ClientOrder) /\ DOMAIN orders = 1..Len(orders)
  BY LenProperties DEF TypeOK
<1>4. CASE phase = "match" /\ phase' = "match"
  <2>1. nextOrder.id \in 1..Len(orders)
    BY <1>3, <1>4 DEF NextOrderKnown
  <2> QED BY <1>1, <1>2, <1>4, <2>1 DEF InHandKnown
<1>5. CASE phase = "feed" /\ phase' = "feed"
  BY <1>2, <1>5 DEF InHandKnown
<1>6. CASE phase' = "send"
  BY <1>6 DEF InHandKnown
<1> QED BY <1>4, <1>5, <1>6

(***************************************************************************)
(* A match with a local order keeps the books in order and exact.          *)
(***************************************************************************)
LEMMA MatchLocalBooks == AccountsInv /\ BookInv /\ MatchLocal => BookInv'
<1> SUFFICES ASSUME AccountsInv, BookInv, MatchLocal PROVE BookInv'
  OBVIOUS
<1>1. TypeOK /\ NextOrderKnown /\ phase = "match" /\ phase' = "match" /\ against' = against
      /\ globalBook' = globalBook
  BY DEF AccountsInv, MatchLocal, Selected
<1>2. against \in Sides /\ level \in 1..Len(localBook[against])
      /\ pos \in 1..Len(localBook[against][level].ids)
  BY MatchLocalPlace, SelectedPlace DEF MatchLocal
<1>3. ExecuteLocalOrder(against, level, pos, BestLocal, "2")
  BY DEF MatchLocal
<1>4. BestLocal \in Nat
  BY BestLocalBounds DEF MatchLocal
<1>5. SidesExact'
  BY <1>1, <1>2, <1>3, <1>4, LocalExecutionBooks DEF BookInv
<1>6. InHandKnown'
  BY <1>1, <1>2, <1>3, <1>4, LocalExecutionInHand DEF BookInv
<1> QED BY <1>1, <1>5, <1>6 DEF BookInv, QuotesInOrder

(***************************************************************************)
(* So does a match of a quote or trade of the feed with a local order.     *)
(***************************************************************************)
LEMMA MatchFeedBooks == AccountsInv /\ BookInv /\ MatchFeed => BookInv'
<1> SUFFICES ASSUME AccountsInv, BookInv, MatchFeed PROVE BookInv'
  OBVIOUS
<1>1. TypeOK /\ NextOrderKnown /\ phase = "feed" /\ phase' = "feed" /\ against' = against
      /\ globalBook' = globalBook
  BY DEF AccountsInv, MatchFeed, cursor
<1>2. against \in Sides /\ 1 \in 1..Len(localBook[against]) /\ 1 \in 1..Len(localBook[against][1].ids)
  BY MatchFeedPlace
<1>3. PICK price \in Nat : ExecuteLocalOrder(against, 1, 1, price, "2")
  BY MatchFeedPlace
<1>4. SidesExact'
  BY <1>1, <1>2, <1>3, LocalExecutionBooks DEF BookInv
<1>5. InHandKnown'
  BY <1>1, <1>2, <1>3, LocalExecutionInHand DEF BookInv
<1> QED BY <1>1, <1>4, <1>5 DEF BookInv, QuotesInOrder

(***************************************************************************)
(* So does a cancellation.                                                 *)
(***************************************************************************)
LEMMA DoLocalCancelBooks == AccountsInv /\ BookInv /\ DoLocalCancel => BookInv'
<1> SUFFICES ASSUME AccountsInv, BookInv, DoLocalCancel PROVE BookInv'
  OBVIOUS
<1>1. TypeOK /\ phase' = "send" /\ globalBook' = globalBook /\ against \in Sides
  BY DEF AccountsInv, DoLocalCancel, TypeOK
<1>2. InHandKnown'
  BY <1>1 DEF InHandKnown
<1>3. SidesExact'
  <2>1. CASE UNCHANGED <<orders, localBook>>
    BY <2>1 DEF BookInv, SidesExact
  <2>2. CASE \E l \in 1..Len(localBook[against]) : \E i \in 1..Len(localBook[against][l].ids) :
                ExecuteLocalOrder(against, l, i, 0, "4")
    BY <1>1, <2>2, LocalExecutionBooks DEF BookInv
  <2> QED BY <2>1, <2>2, CancelPlace
<1> QED BY <1>1, <1>2, <1>3 DEF BookInv, QuotesInOrder

(***************************************************************************)
(* A new order is in hand, and not in the books.                           *)
(***************************************************************************)
LEMMA ReceiveOrderBooks ==
    ASSUME AccountsInv, BookInv, NEW kind, NEW s \in Sides, NEW t, NEW p, NEW q,
           ReceiveOrder(kind, s, t, p, q)
    PROVE  BookInv'
<1>0. PICK n, o : n = Len(orders) + 1 /\ o = NewOrder(kind, s, t, n, p, q, Shift)
  OBVIOUS
<1>1. /\ orders' = Append(orders, [o EXCEPT !.size = 0]) /\ nextOrder' = o
      /\ phase' = "match" /\ against' = Other(s) /\ localBook' = localBook /\ globalBook' = globalBook
  BY <1>0 DEF ReceiveOrder, Begin
<1>2. PICK e : e = [o EXCEPT !.size = 0]
  OBVIOUS
<1>3. o.id = n /\ o.side = s /\ e.size = 0 /\ e.side = s
  BY <1>0, <1>2 DEF NewOrder
<1>4. orders \in Seq(ClientOrder) /\ DOMAIN orders = 1..Len(orders) /\ Len(orders) \in Nat
  BY LenProperties DEF AccountsInv, TypeOK
<1>5. /\ Len(orders') = n /\ orders'[n] = e /\ DOMAIN orders' = 1..n
      /\ \A j \in 1..Len(orders) : orders'[j] = orders[j]
  <2>1. orders \in Seq(ClientOrder \cup {e}) /\ e \in ClientOrder \cup {e}
    BY <1>4, ElementOfSeq, SeqOfSubset
  <2>2. orders' = Append(orders, e)
    BY <1>1, <1>2
  <2> QED BY <1>0, <1>4, <2>1, <2>2, AppendProperties, LenProperties
<1>6. InHandKnown'
  BY <1>1, <1>3, <1>5 DEF InHandKnown
<1>7. ASSUME NEW u \in Sides
      PROVE  SideExact(orders', u, localBook'[u])
  <2>1. \A j \in DOMAIN orders : j \in DOMAIN orders' /\ orders'[j] = orders[j]
    BY <1>0, <1>4, <1>5
  <2>2. \A j \in DOMAIN orders' : orders'[j].size > 0 => j \in DOMAIN orders /\ orders'[j] = orders[j]
    <3>1. \A j \in DOMAIN orders' : j = n \/ j \in DOMAIN orders
      BY <1>0, <1>4, <1>5
    <3>2. ~(orders'[n].size > 0)
      BY <1>3, <1>5
    <3> QED BY <2>1, <3>1, <3>2
  <2>3. SideExact(orders, u, localBook[u]) /\ localBook'[u] = localBook[u]
    BY <1>1 DEF BookInv, SidesExact
  <2> QED BY <2>1, <2>2, <2>3, SideElsewhere
<1> QED BY <1>1, <1>6, <1>7 DEF BookInv, SidesExact, QuotesInOrder

(***************************************************************************)
(* What is left of the order in hand rests in the book.                    *)
(***************************************************************************)
LEMMA InsertLocalBooks == AccountsInv /\ BookInv /\ InsertLocal => BookInv'
<1> SUFFICES ASSUME AccountsInv, BookInv, InsertLocal PROVE BookInv'
  OBVIOUS
<1>0. PICK s, id, p, q : /\ s = nextOrder.side /\ id = nextOrder.id /\ q = nextOrder.size
                         /\ p = IF nextOrder.kind = "MARKET" THEN TopPrice(s) ELSE nextOrder.price
  OBVIOUS
<1>1. phase = "insert" /\ phase' = "send" /\ globalBook' = globalBook
  BY DEF InsertLocal
<1>2. /\ orders \in Seq(ClientOrder) /\ DOMAIN orders = 1..Len(orders) /\ Len(orders) \in Nat
      /\ localBook \in [Sides -> Seq(PriceLevel)]
  BY LenProperties DEF AccountsInv, TypeOK
<1>3. /\ id \in DOMAIN orders /\ id = Len(orders) /\ orders[id].size = 0 /\ orders[id].side = s
      /\ nextOrder \in ClientOrder /\ q > 0
  BY <1>0, <1>1 DEF AccountsInv, NextOrderKnown, BookInv, InHandKnown
<1>4. s \in Sides /\ q \in Nat /\ nextOrder.price \in Nat /\ orders[id] \in ClientOrder
  BY <1>0, <1>2, <1>3, ElementOfSeq DEF ClientOrder
<1>5. p \in Nat
  BY <1>0, <1>4, MarketAssumption DEF TopPrice
<1>6. orders' = [orders EXCEPT ![id] = [orders[id] EXCEPT !.price = p, !.size = q]]
      /\ localBook' = [localBook EXCEPT ![s] = Inserted(s, localBook[s], id, p, q)]
  <2>1. /\ orders' = [orders EXCEPT ![id].price = p, ![id].size = q]
        /\ localBook' = [localBook EXCEPT ![s] = Inserted(s, localBook[s], id, p, q)]
    BY <1>0 DEF InsertLocal
  <2> QED BY <1>2, <1>3, <2>1
<1>7. PICK rests : rests = [orders[id] EXCEPT !.price = p, !.size = q]
  OBVIOUS
<1>8. /\ rests \in ClientOrder /\ rests.size = q /\ rests.price = p /\ rests.side = s
  BY <1>3, <1>4, <1>5, <1>7 DEF ClientOrder
<1>9. /\ orders' \in Seq(ClientOrder) /\ Len(orders') = Len(orders) /\ orders'[id] = rests
      /\ \A j \in 1..Len(orders) : j # id => orders'[j] = orders[j]
  <2>1. orders' = [orders EXCEPT ![id] = rests] /\ id \in 1..Len(orders)
    BY <1>2, <1>3, <1>6, <1>7
  <2> QED BY <1>2, <1>8, <2>1, ExceptSeq
<1>10. DOMAIN orders' = DOMAIN orders
  BY <1>2, <1>9, LenProperties
<1>11. RestsNow(orders, orders', s, id, p, q)
  <2>1. \A j \in DOMAIN orders : j <= id
    BY <1>2, <1>3
  <2>2. \A j \in DOMAIN orders \ {id} : orders'[j] = orders[j]
    BY <1>2, <1>9
  <2>3. orders'[id].size = q /\ orders'[id].side = s /\ orders'[id].price = p
    BY <1>8, <1>9
  <2> QED BY <1>3, <1>4, <1>10, <2>1, <2>2, <2>3 DEF RestsNow
<1>12. ASSUME NEW t \in Sides
       PROVE  SideExact(orders', t, localBook'[t])
  <2>1. SideExact(orders, t, localBook[t])
    BY DEF BookInv, SidesExact
  <2>2. CASE t = s
    <3>1. PICK levels : levels = localBook[s]
      OBVIOUS
    <3>2. SideExact(orders, s, levels)
      BY <2>1, <2>2, <3>1
    <3>3. SideExact(orders', s, Inserted(s, levels, id, p, q))
      BY <1>2, <1>5, <1>9, <1>11, <3>2, SideInserted
    <3> QED BY <1>2, <1>4, <1>6, <2>2, <3>1, <3>3
  <2>3. CASE t # s
    <3>1. localBook'[t] = localBook[t]
      BY <1>2, <1>6, <2>3
    <3>2. \A j \in DOMAIN orders : orders[j].side = t /\ orders[j].size > 0 => j \in DOMAIN orders' /\ orders'[j] = orders[j]
      BY <1>11, <2>3 DEF RestsNow
    <3>3. \A j \in DOMAIN orders' : orders'[j].side = t /\ orders'[j].size > 0 => j \in DOMAIN orders /\ orders'[j] = orders[j]
      BY <1>11, <2>3 DEF RestsNow
    <3> QED BY <2>1, <3>1, <3>2, <3>3, SideElsewhere
  <2> QED BY <2>2, <2>3
<1> QED BY <1>1, <1>12 DEF BookInv, SidesExact, QuotesInOrder, InHandKnown

(***************************************************************************)
(* The best quote of a side is executed, in whole or in part.              *)
(***************************************************************************)
LEMMA MatchGlobalBooks == AccountsInv /\ BookInv /\ MatchGlobal => BookInv'
<1> SUFFICES ASSUME AccountsInv, BookInv, MatchGlobal PROVE BookInv'
  OBVIOUS
<1>0. PICK s, quotes, quote, left, n :
         /\ s = against /\ quotes = globalBook[s] /\ quote = quotes[1] /\ n = nextOrder.size
         /\ left = [quote EXCEPT !.size = Left(quote.size, n)]
  OBVIOUS
<1>1. /\ TypeOK /\ phase = "match" /\ phase' = "match" /\ against' = against
      /\ orders' = orders /\ localBook' = localBook
      /\ s \in Sides /\ quotes # <<>> /\ nextOrder \in Order /\ n \in Nat
  BY <1>0, MatchGlobalPlace DEF AccountsInv, TypeOK, MatchGlobal, Selected, cursor, Order
<1>2. nextOrder' = [nextOrder EXCEPT !.size = Left(n, quote.size)]
      /\ globalBook' = [globalBook EXCEPT ![s] = IF left.size = 0 THEN Tail(quotes) ELSE ReplaceAt(quotes, 1, left)]
  BY <1>0 DEF MatchGlobal, ExecuteGlobalOrder
<1>3. /\ quotes \in Seq(GlobalQuote) /\ quotes \in Seq(QuoteRec) /\ 1 \in 1..Len(quotes)
      /\ quote \in QuoteRec /\ QuotesOrdered(s, quotes)
  <2>1. quotes \in Seq(GlobalQuote) /\ 1 \in 1..Len(quotes) /\ quote \in GlobalQuote
    BY <1>0, <1>1, FirstQuote
  <2> QED BY <1>0, <1>1, <2>1, PricesAreNumbers, SeqOfSubset DEF BookInv, QuotesInOrder
<1>4. left \in QuoteRec /\ left.price = quote.price /\ left.dest = quote.dest
  <2>1. Left(quote.size, n) \in Nat
    BY <1>1, <1>3, ExecutionSize DEF QuoteRec
  <2> QED BY <1>0, <1>3, <2>1 DEF QuoteRec
<1>5. QuotesOrdered(s, ReplaceAt(quotes, 1, left))
  BY <1>0, <1>3, <1>4, ReplacedOrdered
<1>6. QuotesOrdered(s, Tail(quotes))
  <2>1. PICK rest : rest = Tail(quotes)
    OBVIOUS
  <2>2. /\ rest \in Seq(QuoteRec) /\ Len(rest) = Len(quotes) - 1
        /\ \A i \in 1..Len(rest) : rest[i] = quotes[i + 1]
    BY <1>1, <1>3, <2>1, HeadTailProperties
  <2>3. DOMAIN rest = 1..Len(rest) /\ DOMAIN quotes = 1..Len(quotes) /\ Len(quotes) \in Nat
    BY <1>3, <2>2, LenProperties
  <2>4. ASSUME NEW i \in DOMAIN rest, NEW j \in DOMAIN rest, i < j
        PROVE  Ahead(s, rest[i], rest[j])
    <3>1. i + 1 \in DOMAIN quotes /\ j + 1 \in DOMAIN quotes /\ i + 1 < j + 1
      BY <2>2, <2>3, <2>4
    <3>2. Ahead(s, quotes[i + 1], quotes[j + 1])
      BY <1>3, <3>1 DEF QuotesOrdered
    <3> QED BY <2>2, <2>3, <3>2
  <2> QED BY <2>1, <2>4 DEF QuotesOrdered
<1>7. ASSUME NEW t \in Sides
      PROVE  QuotesOrdered(t, globalBook'[t])
  <2>1. globalBook \in [Sides -> Seq(GlobalQuote)] /\ QuotesOrdered(t, globalBook[t])
    BY <1>1 DEF TypeOK, BookInv, QuotesInOrder
  <2>2. CASE t = s
    BY <1>1, <1>2, <1>5, <1>6, <2>1, <2>2
  <2>3. CASE t # s
    BY <1>2, <2>1, <2>3
  <2> QED BY <2>2, <2>3
<1>8. InHandKnown'
  <2>1. nextOrder'.id = nextOrder.id /\ nextOrder'.side = nextOrder.side
    BY <1>1, <1>2 DEF Order
  <2> QED BY <1>1, <2>1 DEF BookInv, InHandKnown
<1>9. SidesExact'
  BY <1>1 DEF BookInv, SidesExact
<1> QED BY <1>7, <1>8, <1>9 DEF BookInv, QuotesInOrder

(***************************************************************************)
(* A quote enters the global book.                                         *)
(***************************************************************************)
LEMMA UpdateGlobalBooks == AccountsInv /\ BookInv /\ UpdateGlobal => BookInv'
<1> SUFFICES ASSUME AccountsInv, BookInv, UpdateGlobal PROVE BookInv'
  OBVIOUS
<1>0. PICK s, quotes, o : s = nextOrder.side /\ quotes = globalBook[s] /\ o = nextOrder
  OBVIOUS
<1>1. /\ TypeOK /\ phase = "feed" /\ phase' = "send" /\ o \in FeedOrder
      /\ orders' = orders /\ localBook' = localBook
  BY <1>0 DEF AccountsInv, NextOrderKnown, UpdateGlobal
<1>2. s \in Sides /\ o.price \in Nat /\ o.size \in Nat /\ o.dest \in Dests
  BY <1>0, <1>1, MarketAssumption DEF FeedOrder
<1>3. globalBook' \in {globalBook, [globalBook EXCEPT ![s] = WithQuote(s, quotes, o)]}
  BY <1>0 DEF UpdateGlobal
<1>4. quotes \in Seq(QuoteRec) /\ QuotesOrdered(s, quotes)
  <2>1. quotes \in Seq(GlobalQuote)
    BY <1>0, <1>1, <1>2 DEF TypeOK
  <2> QED BY <1>0, <1>2, <2>1, PricesAreNumbers, SeqOfSubset DEF BookInv, QuotesInOrder
<1>5. QuotesOrdered(s, WithQuote(s, quotes, o))
  <2>1. PICK g, new : g = [price |-> o.price, size |-> o.size, dest |-> o.dest] /\ new = WithQuote(s, quotes, o)
    OBVIOUS
  <2>2. g \in QuoteRec
    BY <1>2, <2>1 DEF QuoteRec
  <2>3. QuotesOrdered(s, new)
    BY <1>4, <2>1, <2>2, WithQuoteOrdered
  <2> QED BY <2>1, <2>3
<1>6. ASSUME NEW t \in Sides
      PROVE  QuotesOrdered(t, globalBook'[t])
  <2>1. globalBook \in [Sides -> Seq(GlobalQuote)] /\ QuotesOrdered(t, globalBook[t])
    BY <1>1 DEF TypeOK, BookInv, QuotesInOrder
  <2>2. CASE t = s
    BY <1>2, <1>3, <1>5, <2>1, <2>2
  <2>3. CASE t # s
    BY <1>3, <2>1, <2>3
  <2> QED BY <2>2, <2>3
<1>7. SidesExact' /\ InHandKnown'
  BY <1>1 DEF BookInv, SidesExact, InHandKnown
<1> QED BY <1>6, <1>7 DEF BookInv, QuotesInOrder

(***************************************************************************)
(* The steps that touch neither the orders nor the books.                  *)
(***************************************************************************)
LEMMA OtherBooks ==
    ASSUME AccountsInv, BookInv,
           \/ NextPriceLevel \/ SkipOwnOrder \/ SkipHiddenLevel \/ StopMatching
           \/ TradeHitsBids \/ ReportTrade \/ Send \/ ReceiveFeed
           \/ \E id \in DOMAIN orders, q \in Sizes : ReceiveCancel(id, q)
           \/ \E q \in Quotes : DeliverQuote(q)
           \/ \E t \in Trades : DeliverTrade(t)
           \/ UNCHANGED vars
    PROVE  BookInv'
<1>1. orders' = orders /\ localBook' = localBook /\ globalBook' = globalBook
  BY DEF NextPriceLevel, SkipOwnOrder, SkipHiddenLevel, StopMatching, TradeHitsBids, ReportTrade, Send,
         ReceiveFeed, ReceiveCancel, DeliverQuote, DeliverTrade, vars, book
<1>2. SidesExact' /\ QuotesInOrder'
  BY <1>1 DEF BookInv, SidesExact, QuotesInOrder
<1>3. CASE NextPriceLevel \/ SkipOwnOrder \/ SkipHiddenLevel
  <2>1. phase = "match" /\ phase' = "match" /\ nextOrder' = nextOrder /\ against' = against
    BY <1>3 DEF NextPriceLevel, SkipOwnOrder, SkipHiddenLevel
  <2> QED BY <1>1, <1>2, <2>1 DEF BookInv, InHandKnown
<1>4. CASE StopMatching
  <2>1. /\ phase = "match" /\ phase' \in {"insert", "send"} /\ nextOrder' = nextOrder /\ against' = against
        /\ phase' = "insert" => nextOrder.size # 0
    BY <1>4 DEF StopMatching, cursor
  <2>2. nextOrder.size \in Nat
    BY DEF AccountsInv, TypeOK, Order
  <2> QED BY <1>1, <1>2, <2>1, <2>2 DEF BookInv, InHandKnown
<1>5. CASE TradeHitsBids
  <2>1. phase' = "feed" /\ nextOrder'.kind = "TRTH_TRADE"
    BY <1>5 DEF TradeHitsBids
  <2> QED BY <2>1 , <1>2 DEF BookInv, InHandKnown
<1>6. CASE ReportTrade \/ Send \/ \E id \in DOMAIN orders, q \in Sizes : ReceiveCancel(id, q)
  <2>1. phase' \in {"send", "idle", "cancel"}
    BY <1>6 DEF ReportTrade, Send, Begin, ReceiveCancel
  <2> QED BY <1>2, <2>1 DEF BookInv, InHandKnown
<1>7. CASE ReceiveFeed
  <2>1. CASE UNCHANGED <<nextOrder, phase, against>>
    BY <1>1, <1>2, <2>1 DEF BookInv, InHandKnown
  <2>2. CASE /\ phase' = "feed" /\ nextOrder' = Head(feed)
             /\ Head(feed).kind # "TRTH_TRADE" => against' = Other(Head(feed).side)
    BY <1>2, <2>2 DEF BookInv, InHandKnown
  <2> QED BY <1>7, <2>1, <2>2 DEF ReceiveFeed, Begin, cursor
<1>8. CASE \/ \E q \in Quotes : DeliverQuote(q)
           \/ \E t \in Trades : DeliverTrade(t)
           \/ UNCHANGED vars
  <2>1. UNCHANGED <<nextOrder, phase, against>>
    BY <1>8 DEF DeliverQuote, DeliverTrade, vars, cursor
  <2> QED BY <1>1, <1>2, <2>1 DEF BookInv, InHandKnown
<1> QED BY <1>3, <1>4, <1>5, <1>6, <1>7, <1>8

--------------------------------------------------------------------------------
(***************************************************************************)
(* The books are in order and exact, and the order in hand is the last one *)
(* that came in, on the side that is not matched.                          *)
(***************************************************************************)
THEOREM Books == Spec => []BookInv
<1>1. AccountsInv /\ BookInv /\ [Next]_vars => BookInv'
  <2> SUFFICES ASSUME AccountsInv, BookInv, [Next]_vars PROVE BookInv'
    OBVIOUS
  <2>1. CASE \/ \E s \in Sides, t \in Traders, p \in Prices, q \in Sizes : ReceiveOrder("LIMIT", s, t, p, q)
             \/ \E s \in Sides, t \in Traders, q \in Sizes : ReceiveOrder("MARKET", s, t, 0, q)
    BY <2>1, ReceiveOrderBooks
  <2>2. CASE MatchLocal
    BY <2>2, MatchLocalBooks
  <2>3. CASE MatchGlobal
    BY <2>3, MatchGlobalBooks
  <2>4. CASE InsertLocal
    BY <2>4, InsertLocalBooks
  <2>5. CASE DoLocalCancel
    BY <2>5, DoLocalCancelBooks
  <2>6. CASE MatchFeed
    BY <2>6, MatchFeedBooks
  <2>7. CASE UpdateGlobal
    BY <2>7, UpdateGlobalBooks
  <2>8. CASE \/ NextPriceLevel \/ SkipOwnOrder \/ SkipHiddenLevel \/ StopMatching
             \/ TradeHitsBids \/ ReportTrade \/ Send \/ ReceiveFeed
             \/ \E id \in DOMAIN orders, q \in Sizes : ReceiveCancel(id, q)
             \/ \E q \in Quotes : DeliverQuote(q)
             \/ \E t \in Trades : DeliverTrade(t)
             \/ UNCHANGED vars
    BY <2>8, OtherBooks
  <2> QED BY <2>1, <2>2, <2>3, <2>4, <2>5, <2>6, <2>7, <2>8 DEF Next, Handle
<1> QED BY <1>1, InitBooks, Accounts, PTL DEF Spec

(***************************************************************************)
(* Erasures, insertions and replacements keep the local levels strictly    *)
(* best first, and the quotes best first with one per price and            *)
(* destination: every loop of ContinuousStockMarket that stops at the      *)
(* first worse price sees all the better ones.                             *)
(***************************************************************************)
COROLLARY BooksStayOrdered == Spec => []BooksOrdered
<1>1. BookInv => BooksOrdered
  BY DEF BookInv, SidesExact, SideExact, Ordered, QuotesInOrder, QuotesOrdered, Ahead, BooksOrdered
<1> QED BY <1>1, Books, PTL

(***************************************************************************)
(* Every order with shares left rests in exactly one place of the local    *)
(* book, on its side and at its price; no order without shares does; and   *)
(* the size that executions, cancellations and insertions keep beside the  *)
(* orders of a level is the sum of theirs.                                 *)
(***************************************************************************)
COROLLARY LevelsStayExact == Spec => []LevelsExact
<1>1. AccountsInv /\ BookInv => LevelsExact
  <2> SUFFICES ASSUME AccountsInv, BookInv PROVE LevelsExact
    OBVIOUS
  <2>1. ASSUME NEW s \in Sides, NEW l \in DOMAIN localBook[s]
        PROVE  /\ localBook[s][l] \in LevelRec /\ localBook[s][l].ids \in Seq(Nat)
               /\ Exact(orders, s, localBook[s][l])
    <3>1. SideExact(orders, s, localBook[s])
      BY DEF BookInv, SidesExact
    <3>2. localBook[s] \in Seq(LevelRec)
      BY <3>1 DEF SideExact
    <3>3. localBook[s][l] \in LevelRec
      BY <3>2, LenProperties, ElementOfSeq
    <3> QED BY <3>1, <3>3 DEF SideExact, AllExact, LevelRec
  <2>2. ASSUME NEW s \in Sides, NEW lv \in Range(Levels(s))
        PROVE  /\ IsInjective(lv.ids)
               /\ \A id \in Range(lv.ids) :
                     orders[id].size > 0 /\ orders[id].side = s /\ orders[id].price = lv.price
               /\ lv.size = SumFunction([i \in DOMAIN lv.ids |-> orders[lv.ids[i]].size])
    <3>1. lv.ids \in Seq(Nat) /\ Exact(orders, s, lv)
      BY <2>1, <2>2 DEF Range, Levels
    <3>2. \A i, k \in DOMAIN lv.ids : i # k => lv.ids[i] # lv.ids[k]
      BY <3>1, AgesDiffer DEF Exact
    <3>3. IsInjective(lv.ids)
      BY <3>2 DEF IsInjective
    <3>4. \A id \in Range(lv.ids) : Rests(orders, s, lv.price, id)
      BY <3>1 DEF Exact, Range
    <3> QED BY <3>1, <3>3, <3>4 DEF Exact, SizesOf, Rests
  <2>3. ASSUME NEW id \in DOMAIN orders, orders[id].size > 0, NEW levels, levels = Levels(orders[id].side)
        PROVE  \E l \in DOMAIN levels : \A k \in DOMAIN levels : id \in Range(levels[k].ids) <=> k = l
    <3>1. PICK s : s = orders[id].side
      OBVIOUS
    <3>2. s \in Sides
      <4>1. orders \in Seq(ClientOrder)
        BY DEF AccountsInv, TypeOK
      <4>2. orders[id] \in ClientOrder
        BY <4>1, LenProperties, ElementOfSeq
      <4> QED BY <3>1, <4>2 DEF ClientOrder
    <3>3. SideExact(orders, s, levels)
      BY <2>3, <3>1, <3>2 DEF BookInv, SidesExact, Levels
    <3>4. PICK l \in DOMAIN levels : Holds(levels[l], id)
      BY <2>3, <3>1, <3>3 DEF SideExact, Listed
    <3>5. \A k \in DOMAIN levels : id \in Range(levels[k].ids) => levels[k].price = orders[id].price
      BY <3>3 DEF SideExact, AllExact, Exact, Rests, Range
    <3>6. id \in Range(levels[l].ids)
      BY <3>4 DEF Holds, Range
    <3>7. ASSUME NEW k \in DOMAIN levels, k # l
          PROVE  levels[k].price # levels[l].price
      <4>1. DOMAIN levels = 1..Len(levels) /\ levels[k] \in LevelRec /\ levels[l] \in LevelRec
        BY <3>3, LenProperties, ElementOfSeq DEF SideExact
      <4>2. Better(s, levels[k].price, levels[l].price) \/ Better(s, levels[l].price, levels[k].price)
        <5>1. k < l \/ l < k
          BY <3>7, <4>1
        <5> QED BY <3>3, <5>1 DEF SideExact, Ordered
      <4> QED BY <4>1, <4>2 DEF Better, LevelRec
    <3> QED BY <3>5, <3>6, <3>7
  <2> QED BY <2>2, <2>3 DEF LevelsExact
<1> QED BY <1>1, Books, Accounts, PTL

--------------------------------------------------------------------------------
(* What the handler has established, phase by phase. *)

\* A market order that rests has the price ahead of all limit orders.
MarketsHidden ==
    \A id \in DOMAIN orders :
        orders[id].size > 0 /\ orders[id].kind = "MARKET" => orders[id].price = TopPrice(orders[id].side)

\* The cursor has passed the i-th order of level l; and what it passes are orders that
\* nextOrder may not trade with.
Before(l, i) == l < level \/ (l = level /\ i < pos)
Passed ==
    phase = "match" =>
        \A l \in DOMAIN localBook[against] : \A i \in DOMAIN localBook[against][l].ids :
            Before(l, i) =>
                LET o == orders[Resting(against, l, i)]
                IN  \/ o.trader = nextOrder.trader
                    \/ AtEnd(against) /\ o.kind = "MARKET" /\ nextOrder.kind = "MARKET"

\* The order about to rest has met all that it could be matched with.
Harmless(o) == \/ o.trader = nextOrder.trader
               \/ o.kind = "MARKET" /\ nextOrder.kind = "MARKET"
OutOfReach(p) == nextOrder.kind = "LIMIT" /\ Better(against, nextOrder.price, p)
Unmatched ==
    phase = "insert" =>
        /\ \A id \in DOMAIN orders : orders[id].size > 0 /\ orders[id].side = against
              => Harmless(orders[id]) \/ OutOfReach(orders[id].price)
        /\ \A g \in DOMAIN globalBook[against] : OutOfReach(globalBook[against][g].price)

\* Nothing in the books crosses, whatever the phase.
NoneCross ==
    /\ \A b, a \in DOMAIN orders : ~Crossed(b, a)
    /\ \A s \in Sides : \A g \in DOMAIN globalBook[Other(s)] : \A id \in DOMAIN orders :
          orders[id].size > 0 /\ orders[id].side = s
              => Better(s, globalBook[Other(s)][g].price, orders[id].price)

MatchInv == MarketsHidden /\ Passed /\ Unmatched /\ NoneCross

--------------------------------------------------------------------------------
(* The places of the book. *)

(***************************************************************************)
(* A level of the book is not empty, and has a price.                      *)
(***************************************************************************)
LEMMA LevelKnown ==
    ASSUME TypeOK, NEW s \in Sides, NEW l \in DOMAIN localBook[s]
    PROVE  /\ localBook[s] \in Seq(PriceLevel) /\ DOMAIN localBook[s] = 1..Len(localBook[s])
           /\ Len(localBook[s]) \in Nat /\ l \in Nat
           /\ localBook[s][l].price \in Prices \cup {DblMin, DblMax} /\ localBook[s][l].price \in Nat
           /\ DOMAIN localBook[s][l].ids = 1..Len(localBook[s][l].ids)
           /\ Len(localBook[s][l].ids) \in Nat /\ 1 \in DOMAIN localBook[s][l].ids
<1>1. localBook[s] \in Seq(PriceLevel)
  BY DEF TypeOK
<1>2. DOMAIN localBook[s] = 1..Len(localBook[s]) /\ Len(localBook[s]) \in Nat
  BY <1>1, LenProperties
<1>3. PICK lv : lv = localBook[s][l]
  OBVIOUS
<1>4. lv \in PriceLevel
  BY <1>1, <1>2, <1>3, ElementOfSeq
<1>5. lv.price \in Prices \cup {DblMin, DblMax} /\ lv.ids \in Seq(DOMAIN orders) /\ lv.ids # <<>>
  BY <1>4 DEF PriceLevel
<1>6. lv.price \in Nat
  BY <1>5, PricesAreNumbers
<1>7. DOMAIN lv.ids = 1..Len(lv.ids) /\ Len(lv.ids) \in Nat
  BY <1>5, LenProperties
<1>8. 1 \in 1..Len(lv.ids)
  BY <1>5, EmptySeq
<1> QED BY <1>1, <1>2, <1>3, <1>5, <1>6, <1>7, <1>8

\* The order at a place of the book.
RestsAt(s, l, i) ==
    LET o == orders[Resting(s, l, i)]
    IN  /\ Resting(s, l, i) \in DOMAIN orders /\ o \in ClientOrder
        /\ o.size > 0 /\ o.side = s /\ o.price = localBook[s][l].price
        /\ o.kind = "LIMIT" => o.price \in Prices
        /\ o.kind = "MARKET" => o.price = TopPrice(s)

(***************************************************************************)
(* What rests at a place of the book is an order with shares left, on its  *)
(* side and at its price.                                                  *)
(***************************************************************************)
LEMMA RestingKnown ==
    ASSUME AccountsInv, BookInv, MarketsHidden,
           NEW s \in Sides, NEW l \in DOMAIN localBook[s], NEW i \in DOMAIN localBook[s][l].ids
    PROVE  RestsAt(s, l, i)
<1>0. PICK id : id = Resting(s, l, i)
  OBVIOUS
<1>1. Rests(orders, s, localBook[s][l].price, id)
  <2>1. Exact(orders, s, localBook[s][l])
    BY DEF BookInv, SidesExact, SideExact, AllExact
  <2> QED BY <1>0, <2>1 DEF Exact, Resting
<1>2. id \in DOMAIN orders /\ orders[id].size > 0 /\ orders[id].side = s
      /\ orders[id].price = localBook[s][l].price
  BY <1>1 DEF Rests
<1>3. orders[id] \in ClientOrder
  <2>1. orders \in Seq(ClientOrder)
    BY DEF AccountsInv, TypeOK
  <2> QED BY <1>2, <2>1, LenProperties, ElementOfSeq
<1>4. orders[id].kind = "LIMIT" => orders[id].price \in Prices
  BY <1>2 DEF AccountsInv, LimitsPriced
<1>5. orders[id].kind = "MARKET" => orders[id].price = TopPrice(s)
  BY <1>2 DEF MarketsHidden
<1> QED BY <1>0, <1>2, <1>3, <1>4, <1>5 DEF RestsAt

(***************************************************************************)
(* Each order with shares left has a place.                                *)
(***************************************************************************)
LEMMA HasPlace ==
    ASSUME AccountsInv, BookInv, NEW id \in DOMAIN orders, orders[id].size > 0
    PROVE  /\ orders[id].side \in Sides
           /\ \E l \in DOMAIN localBook[orders[id].side] : \E i \in DOMAIN localBook[orders[id].side][l].ids :
                 Resting(orders[id].side, l, i) = id
<1>0. PICK s : s = orders[id].side
  OBVIOUS
<1>1. s \in Sides
  <2>1. orders \in Seq(ClientOrder)
    BY DEF AccountsInv, TypeOK
  <2>2. orders[id] \in ClientOrder
    BY <2>1, LenProperties, ElementOfSeq
  <2> QED BY <1>0, <2>2 DEF ClientOrder
<1>2. PICK l \in DOMAIN localBook[s] : Holds(localBook[s][l], id)
  BY <1>0, <1>1 DEF BookInv, SidesExact, SideExact, Listed
<1> QED BY <1>0, <1>1, <1>2 DEF Holds, Resting

(***************************************************************************)
(* An order behind another in the book has a worse price, or came later.   *)
(***************************************************************************)
LEMMA BehindIsWorse ==
    ASSUME AccountsInv, BookInv, NEW s \in Sides,
           NEW l \in DOMAIN localBook[s], NEW i \in DOMAIN localBook[s][l].ids,
           NEW m \in DOMAIN localBook[s], NEW k \in DOMAIN localBook[s][m].ids
    PROVE  /\ l < m => Better(s, localBook[s][l].price, localBook[s][m].price)
           /\ l = m /\ i < k => Resting(s, l, i) < Resting(s, m, k)
<1>1. Ordered(s, localBook[s]) /\ Exact(orders, s, localBook[s][l])
  BY DEF BookInv, SidesExact, SideExact, AllExact
<1> QED BY <1>1 DEF Ordered, Exact, ByAge, Resting

(***************************************************************************)
(* Prices as numbers, whatever the side.                                   *)
(***************************************************************************)
LEMMA PriceOrder ==
    ASSUME NEW s \in Sides
    PROVE  /\ \A p \in Prices : p \in Nat /\ p # TopPrice(s) /\ p # NoPrice(s) /\ p # 0
                                /\ Better(s, TopPrice(s), p) /\ Better(s, p, NoPrice(s))
           /\ \A p \in Prices \cup {DblMin, DblMax} : ~Better(s, p, TopPrice(s))
           /\ TopPrice(s) \in Nat /\ NoPrice(s) \in Nat
<1>1. \A p \in Prices : p \in Nat /\ DblMin < p /\ p < DblMax
  BY MarketAssumption
<1>2. DblMin \in Nat /\ DblMax \in Nat /\ DblMin > 0 /\ DblMin < DblMax
  BY MarketAssumption
<1>3. CASE s = "bid"
  BY <1>1, <1>2, <1>3 DEF TopPrice, NoPrice, Other, Better
<1>4. CASE s = "ask"
  BY <1>1, <1>2, <1>4 DEF TopPrice, NoPrice, Other, Better
<1> QED BY <1>3, <1>4 DEF Sides

(***************************************************************************)
(* A level behind another one has the price of a limit order.              *)
(***************************************************************************)
LEMMA LaterLevelPriced ==
    ASSUME AccountsInv, BookInv, MarketsHidden, NEW s \in Sides,
           NEW l \in DOMAIN localBook[s], NEW m \in DOMAIN localBook[s], l < m
    PROVE  localBook[s][m].price \in Prices
<1>0. TypeOK
  BY DEF AccountsInv
<1>1. 1 \in DOMAIN localBook[s][l].ids /\ 1 \in DOMAIN localBook[s][m].ids
  BY <1>0, LevelKnown
<1>2. localBook[s][l].price \in Prices \cup {DblMin, DblMax}
  BY <1>0, LevelKnown
<1>3. RestsAt(s, m, 1)
  BY <1>1, RestingKnown
<1>4. Better(s, localBook[s][l].price, localBook[s][m].price)
  BY <1>1, BehindIsWorse
<1>5. localBook[s][m].price # TopPrice(s)
  BY <1>2, <1>4, PriceOrder
<1> QED BY <1>3, <1>5 DEF RestsAt, ClientOrder

(***************************************************************************)
(* The price at which a resting order trades is a real one.                *)
(***************************************************************************)
LEMMA LocalPriceIsPrice ==
    ASSUME AccountsInv, BookInv, MarketsHidden, NEW s \in Sides,
           NEW l \in DOMAIN localBook[s], NEW i \in DOMAIN localBook[s][l].ids,
           NEW o, o = orders[Resting(s, l, i)], NEW limit \in Nat,
           \/ limit \in Prices
           \/ limit = 0 /\ (o.kind = "MARKET" => l # Len(localBook[s]))
    PROVE  LocalPrice(s, l, o, limit) \in Prices
<1>1. RestsAt(s, l, i)
  BY RestingKnown
<1>2. CASE o.kind = "LIMIT"
  BY <1>1, <1>2 DEF RestsAt, LocalPrice
<1>3. CASE o.kind = "MARKET"
  <2>0. TypeOK
    BY DEF AccountsInv
  <2>1. DOMAIN localBook[s] = 1..Len(localBook[s]) /\ Len(localBook[s]) \in Nat
    BY <2>0, LevelKnown
  <2>2. LocalPrice(s, l, o, limit) = HiddenPrice(s, l, limit)
    BY <1>3 DEF LocalPrice
  <2>3. ASSUME l < Len(localBook[s])
        PROVE  localBook[s][l + 1].price \in Prices
    <3>1. l + 1 \in DOMAIN localBook[s] /\ l < l + 1
      BY <2>1, <2>3
    <3> QED BY <3>1, LaterLevelPriced
  <2>4. CASE l < Len(localBook[s])
    BY <2>2, <2>3, <2>4 DEF HiddenPrice, Levels
  <2>5. CASE ~(l < Len(localBook[s]))
    <3>1. limit \in Prices
      BY <1>3, <2>1, <2>5
    <3> QED BY <2>2, <2>5, <3>1 DEF HiddenPrice, Levels
  <2> QED BY <2>4, <2>5
<1> QED BY <1>1, <1>2, <1>3 DEF RestsAt, ClientOrder

(***************************************************************************)
(* A hidden order trades at a price that is at the limit or better, and    *)
(* that no limit order behind it betters.                                  *)
(***************************************************************************)
LEMMA HiddenPriceBounds ==
    ASSUME AccountsInv, BookInv, MarketsHidden, NEW s \in Sides,
           NEW l \in DOMAIN localBook[s], NEW limit \in Prices \cup {0}
    PROVE  /\ limit # 0 => ~Better(s, limit, HiddenPrice(s, l, limit))
           /\ \A m \in DOMAIN localBook[s] : l < m => ~Better(s, localBook[s][m].price, HiddenPrice(s, l, limit))
<1>0. TypeOK
  BY DEF AccountsInv
<1>1. DOMAIN localBook[s] = 1..Len(localBook[s]) /\ Len(localBook[s]) \in Nat
  BY <1>0, LevelKnown
<1>2. limit \in Nat
  BY PricesAreNumbers
<1>3. \A m \in DOMAIN localBook[s] : localBook[s][m].price \in Nat
  BY <1>0, LevelKnown
<1>4. limit # 0 => ~Better(s, limit, HiddenPrice(s, l, limit))
  <2>1. CASE l < Len(localBook[s]) /\ (limit = 0 \/ Better(s, localBook[s][l + 1].price, limit))
    <3>1. l + 1 \in DOMAIN localBook[s]
      BY <1>1, <2>1
    <3> QED BY <1>2, <1>3, <2>1, <3>1 DEF HiddenPrice, Levels, Better
  <2>2. CASE ~(l < Len(localBook[s]) /\ (limit = 0 \/ Better(s, localBook[s][l + 1].price, limit)))
    BY <1>2, <2>2 DEF HiddenPrice, Levels, Better
  <2> QED BY <2>1, <2>2
<1>5. ASSUME NEW m \in DOMAIN localBook[s], l < m
      PROVE  ~Better(s, localBook[s][m].price, HiddenPrice(s, l, limit))
  <2>1. l < Len(localBook[s]) /\ l + 1 \in DOMAIN localBook[s] /\ (m = l + 1 \/ l + 1 < m)
    BY <1>1, <1>5
  <2>2. ~Better(s, localBook[s][m].price, localBook[s][l + 1].price)
    <3>1. CASE m = l + 1
      BY <1>3, <2>1, <3>1 DEF Better
    <3>2. CASE l + 1 < m
      <4>1. Ordered(s, localBook[s])
        BY DEF BookInv, SidesExact, SideExact
      <4>2. Better(s, localBook[s][l + 1].price, localBook[s][m].price)
        BY <2>1, <3>2, <4>1 DEF Ordered
      <4> QED BY <1>3, <2>1, <4>2 DEF Better
    <3> QED BY <2>1, <3>1, <3>2
  <2>3. CASE limit = 0 \/ Better(s, localBook[s][l + 1].price, limit)
    BY <2>1, <2>2, <2>3 DEF HiddenPrice, Levels
  <2>4. CASE ~(limit = 0 \/ Better(s, localBook[s][l + 1].price, limit))
    <3>1. HiddenPrice(s, l, limit) = limit
      BY <2>4 DEF HiddenPrice, Levels
    <3>2. ~Better(s, localBook[s][l + 1].price, limit)
      BY <2>4
    <3> QED BY <1>2, <1>3, <2>1, <2>2, <3>1, <3>2 DEF Better
  <2> QED BY <2>3, <2>4
<1> QED BY <1>4, <1>5

--------------------------------------------------------------------------------
(* What a step does to the orders and quotes that are in the books. *)

SameOrder(j) ==
    /\ orders'[j].trader = orders[j].trader /\ orders'[j].kind = orders[j].kind
    /\ orders'[j].side = orders[j].side /\ orders'[j].price = orders[j].price

NoNewOrder ==
    \A j \in DOMAIN orders' :
        orders'[j].size > 0 => j \in DOMAIN orders /\ orders[j].size > 0 /\ SameOrder(j)
NoNewQuote ==
    \A s \in Sides : \A g \in DOMAIN globalBook'[s] : \E h \in DOMAIN globalBook[s] :
        globalBook'[s][g].price = globalBook[s][h].price

(***************************************************************************)
(* What takes orders and quotes from the books makes nothing cross.        *)
(***************************************************************************)
LEMMA NothingNew ==
    ASSUME MarketsHidden, NoneCross, NoNewOrder, NoNewQuote
    PROVE  MarketsHidden' /\ NoneCross'
<1>1. MarketsHidden'
  BY DEF MarketsHidden, NoNewOrder, SameOrder
<1>2. ASSUME NEW b \in DOMAIN orders', NEW a \in DOMAIN orders', Crossed(b, a)'
      PROVE  FALSE
  <2>1. /\ orders'[b].size > 0 /\ orders'[b].side = "bid"
        /\ orders'[a].size > 0 /\ orders'[a].side = "ask"
        /\ orders'[b].trader # orders'[a].trader
        /\ ~(orders'[b].kind = "MARKET" /\ orders'[a].kind = "MARKET")
        /\ orders'[b].price >= orders'[a].price
    BY <1>2 DEF Crossed
  <2>2. /\ b \in DOMAIN orders /\ orders[b].size > 0 /\ SameOrder(b)
        /\ a \in DOMAIN orders /\ orders[a].size > 0 /\ SameOrder(a)
    BY <2>1 DEF NoNewOrder
  <2>3. Crossed(b, a)
    BY <2>1, <2>2 DEF SameOrder, Crossed
  <2> QED BY <2>2, <2>3 DEF NoneCross
<1>3. ASSUME NEW s \in Sides, NEW g \in DOMAIN globalBook'[Other(s)], NEW id \in DOMAIN orders',
             orders'[id].size > 0, orders'[id].side = s
      PROVE  Better(s, globalBook'[Other(s)][g].price, orders'[id].price)
  <2>1. id \in DOMAIN orders /\ orders[id].size > 0 /\ SameOrder(id)
    BY <1>3 DEF NoNewOrder
  <2>2. Other(s) \in Sides
    BY DEF Other, Sides
  <2>3. PICK h \in DOMAIN globalBook[Other(s)] : globalBook'[Other(s)][g].price = globalBook[Other(s)][h].price
    BY <2>2 DEF NoNewQuote
  <2>4. Better(s, globalBook[Other(s)][h].price, orders[id].price)
    BY <1>3, <2>1 DEF NoneCross, SameOrder
  <2> QED BY <2>1, <2>3, <2>4 DEF SameOrder
<1>4. NoneCross'
  BY <1>2, <1>3 DEF NoneCross
<1> QED BY <1>1, <1>4

(***************************************************************************)
(* An execution or cancellation brings nothing new, and changes no more    *)
(* than sizes.                                                             *)
(***************************************************************************)
LEMMA LocalExecutionTakes ==
    ASSUME TypeOK, NEW s \in Sides, NEW l \in 1..Len(localBook[s]),
           NEW i \in 1..Len(localBook[s][l].ids), NEW price \in Nat,
           NEW decision \in {"2", "4"},
           ExecuteLocalOrder(s, l, i, price, decision)
    PROVE  /\ NoNewOrder /\ DOMAIN orders' = DOMAIN orders
           /\ \A j \in DOMAIN orders : SameOrder(j)
           /\ nextOrder' = [nextOrder EXCEPT !.size = nextOrder.size - Executed(s, l, i)]
<1>a. /\ Resting(s, l, i) \in 1..Len(orders) /\ Executed(s, l, i) \in Nat
      /\ Executed(s, l, i) <= orders[Resting(s, l, i)].size
      /\ orders' \in Seq(ClientOrder) /\ Len(orders') = Len(orders)
      /\ \A j \in 1..Len(orders) :
            orders'[j] = IF j = Resting(s, l, i) THEN [orders[Resting(s, l, i)] EXCEPT !.size = orders[Resting(s, l, i)].size - Executed(s, l, i)]
                         ELSE orders[j]
      /\ nextOrder' = [nextOrder EXCEPT !.size = nextOrder.size - Executed(s, l, i)]
  BY LocalExecution
<1>0. PICK id, q : id = Resting(s, l, i) /\ q = Executed(s, l, i)
  OBVIOUS
<1>1. orders \in Seq(ClientOrder) /\ DOMAIN orders = 1..Len(orders) /\ DOMAIN orders' = 1..Len(orders)
  BY <1>a, LenProperties DEF TypeOK
<1>2. \A j \in DOMAIN orders : orders[j] \in ClientOrder
  BY <1>1, ElementOfSeq
<1>3. ASSUME NEW j \in DOMAIN orders
      PROVE  SameOrder(j) /\ (orders'[j].size > 0 => orders[j].size > 0)
  <2>1. CASE j = id
    <3>1. orders'[j] = [orders[j] EXCEPT !.size = orders[j].size - q] /\ q \in Nat
      BY <1>a, <1>0, <1>1, <2>1
    <3>2. orders[j] \in ClientOrder /\ orders[j].size \in Nat
      BY <1>2 DEF ClientOrder
    <3>3. /\ orders'[j].trader = orders[j].trader /\ orders'[j].kind = orders[j].kind
          /\ orders'[j].side = orders[j].side /\ orders'[j].price = orders[j].price
          /\ orders'[j].size = orders[j].size - q
      BY <3>1, <3>2 DEF ClientOrder
    <3>4. orders'[j].size > 0 => orders[j].size > 0
      BY <3>1, <3>2, <3>3
    <3> QED BY <3>3, <3>4 DEF SameOrder
  <2>2. CASE j # id
    <3>1. orders'[j] = orders[j]
      BY <1>a, <1>0, <1>1, <2>2
    <3> QED BY <3>1 DEF SameOrder
  <2> QED BY <2>1, <2>2
<1>4. NoNewOrder
  BY <1>1, <1>3 DEF NoNewOrder
<1> QED BY <1>a, <1>1, <1>3, <1>4

--------------------------------------------------------------------------------
(* The loop of a local order. *)

(***************************************************************************)
(* The market starts with nothing to match.                                *)
(***************************************************************************)
LEMMA InitMatch == Init => MatchInv
<1> SUFFICES ASSUME Init PROVE MatchInv
  OBVIOUS
<1>1. phase = "idle" /\ orders = <<>>
  BY DEF Init
<1> QED BY <1>1 DEF MatchInv, MarketsHidden, Passed, Unmatched, NoneCross

(***************************************************************************)
(* A new order starts at the first place of the other side.                *)
(***************************************************************************)
LEMMA ReceiveOrderMatch ==
    ASSUME AccountsInv, BookInv, MatchInv, NEW kind, NEW s \in Sides, NEW t, NEW p, NEW q,
           ReceiveOrder(kind, s, t, p, q), TypeOK'
    PROVE  MatchInv'
<1>0. PICK n, o, e : /\ n = Len(orders) + 1 /\ o = NewOrder(kind, s, t, n, p, q, Shift)
                     /\ e = [o EXCEPT !.size = 0]
  OBVIOUS
<1>1. /\ orders' = Append(orders, e) /\ nextOrder' = o /\ level' = 1 /\ pos' = 1
      /\ phase' = "match" /\ against' = Other(s) /\ localBook' = localBook /\ globalBook' = globalBook
  BY <1>0 DEF ReceiveOrder, Begin
<1>2. e.size = 0
  BY <1>0 DEF NewOrder
<1>3. orders \in Seq(ClientOrder) /\ DOMAIN orders = 1..Len(orders) /\ Len(orders) \in Nat
  BY LenProperties DEF AccountsInv, TypeOK
<1>4. /\ orders'[n] = e /\ DOMAIN orders' = 1..n
      /\ \A j \in 1..Len(orders) : orders'[j] = orders[j]
  <2>1. orders \in Seq(ClientOrder \cup {e}) /\ e \in ClientOrder \cup {e}
    BY <1>3, ElementOfSeq, SeqOfSubset
  <2> QED BY <1>0, <1>1, <1>3, <2>1, AppendProperties, LenProperties
<1>5. NoNewOrder
  <2>1. ASSUME NEW j \in DOMAIN orders', orders'[j].size > 0
        PROVE  j \in DOMAIN orders /\ orders'[j] = orders[j]
    <3>1. j # n
      BY <1>2, <1>4, <2>1
    <3>2. j \in 1..Len(orders)
      BY <1>0, <1>3, <1>4, <3>1
    <3> QED BY <1>3, <1>4, <3>2
  <2> QED BY <2>1 DEF NoNewOrder, SameOrder
<1>6. NoNewQuote
  BY <1>1 DEF NoNewQuote
<1>7. MarketsHidden' /\ NoneCross'
  BY <1>5, <1>6, NothingNew DEF MatchInv
<1>8. Passed'
  <2>1. ASSUME NEW l \in DOMAIN localBook[Other(s)], NEW i \in DOMAIN localBook[Other(s)][l].ids
        PROVE  ~(l < 1 \/ (l = 1 /\ i < 1))
    <3>1. Other(s) \in Sides /\ TypeOK
      BY DEF Other, Sides, AccountsInv
    <3>2. /\ DOMAIN localBook[Other(s)] = 1..Len(localBook[Other(s)]) /\ Len(localBook[Other(s)]) \in Nat
          /\ DOMAIN localBook[Other(s)][l].ids = 1..Len(localBook[Other(s)][l].ids)
          /\ Len(localBook[Other(s)][l].ids) \in Nat
      BY <3>1, LevelKnown
    <3> QED BY <3>2
  <2> QED BY <1>1, <2>1 DEF Passed, Before
<1>9. Unmatched'
  BY <1>1 DEF Unmatched
<1> QED BY <1>7, <1>8, <1>9 DEF MatchInv

(***************************************************************************)
(* The cursor moves on only behind orders that the order in hand may not   *)
(* trade with.                                                             *)
(***************************************************************************)
LEMMA CursorMatch ==
    ASSUME AccountsInv, BookInv, MatchInv, NextPriceLevel \/ SkipOwnOrder \/ SkipHiddenLevel
    PROVE  MatchInv'
<1>0. PICK levels, n : levels = localBook[against] /\ n = Len(levels)
  OBVIOUS
<1>1. /\ orders' = orders /\ localBook' = localBook /\ globalBook' = globalBook
      /\ nextOrder' = nextOrder /\ against' = against /\ phase = "match" /\ phase' = "match"
      /\ ~AtEnd(against)
  BY DEF NextPriceLevel, SkipOwnOrder, SkipHiddenLevel, book
<1>2. TypeOK /\ against \in Sides /\ level \in Nat /\ pos \in Nat /\ level > 0 /\ pos > 0
  BY DEF AccountsInv, TypeOK
<1>3. /\ levels \in Seq(PriceLevel) /\ DOMAIN levels = 1..n /\ n \in Nat /\ level \in DOMAIN levels
  <2>1. levels \in Seq(PriceLevel)
    BY <1>0, <1>2 DEF TypeOK
  <2>2. DOMAIN levels = 1..n /\ n \in Nat
    BY <1>0, <2>1, LenProperties
  <2> QED BY <1>0, <1>1, <1>2, <2>1, <2>2 DEF AtEnd, Levels
<1>4. MarketsHidden' /\ NoneCross' /\ Unmatched'
  BY <1>1 DEF MatchInv, MarketsHidden, NoneCross, Unmatched, Crossed
<1>5. ASSUME NEW l \in DOMAIN levels, NEW i \in DOMAIN levels[l].ids, Before(l, i)
      PROVE  orders[Resting(against, l, i)].trader = nextOrder.trader
  BY <1>0, <1>1, <1>5 DEF MatchInv, Passed
<1>6. ASSUME NEW l \in DOMAIN levels
      PROVE  l \in Nat /\ DOMAIN levels[l].ids = 1..Len(levels[l].ids) /\ Len(levels[l].ids) \in Nat
  BY <1>0, <1>2, <1>3, LevelKnown
<1>7. CASE NextPriceLevel
  <2>1. level' = level + 1 /\ pos' = 1 /\ pos > Len(levels[level].ids)
    BY <1>0, <1>7 DEF NextPriceLevel, LevelDone, Levels
  <2>2. ASSUME NEW l \in DOMAIN levels, NEW i \in DOMAIN levels[l].ids, Before(l, i)'
        PROVE  Before(l, i)
    <3>1. l < level + 1 \/ (l = level + 1 /\ i < 1)
      BY <2>1, <2>2 DEF Before
    <3>2. l < level + 1
      BY <1>6, <3>1
    <3>3. l < level \/ l = level
      BY <1>2, <1>6, <3>2
    <3>4. l = level => i < pos
      BY <1>2, <1>6, <2>1
    <3> QED BY <3>3, <3>4 DEF Before
  <2> QED BY <1>0, <1>1, <1>4, <1>5, <2>2 DEF MatchInv, Passed, Resting
<1>8. CASE SkipOwnOrder
  <2>1. level' = level /\ pos' = pos + 1 /\ orders[Resting(against, level, pos)].trader = nextOrder.trader
    BY <1>8 DEF SkipOwnOrder, NextInLevel, OwnOrder, Candidate, Levels, Resting
  <2>2. ASSUME NEW l \in DOMAIN levels, NEW i \in DOMAIN levels[l].ids, Before(l, i)'
        PROVE  Before(l, i) \/ (l = level /\ i = pos)
    <3>1. l < level \/ (l = level /\ i < pos + 1)
      BY <2>1, <2>2 DEF Before
    <3>2. i < pos + 1 => i < pos \/ i = pos
      BY <1>2, <1>6
    <3> QED BY <3>1, <3>2 DEF Before
  <2>3. ASSUME NEW l \in DOMAIN levels, NEW i \in DOMAIN levels[l].ids, Before(l, i)'
        PROVE  orders[Resting(against, l, i)].trader = nextOrder.trader
    BY <1>5, <2>1, <2>2, <2>3
  <2>4. \A s, l, i : Resting(s, l, i)' = Resting(s, l, i)
    BY <1>1, Zenon DEF Resting
  <2>5. Passed'
    BY <1>0, <1>1, <2>3, <2>4 DEF Passed
  <2> QED BY <1>1, <1>4, <2>5 DEF MatchInv
<1>9. CASE SkipHiddenLevel
  <2>1. /\ level' = n + 1 /\ pos' = pos /\ level = n /\ nextOrder.kind = "MARKET"
        /\ orders[Resting(against, level, pos)].kind = "MARKET" /\ pos <= Len(levels[level].ids)
    <3>1. ~LevelDone(against)
      BY <1>9 DEF SkipHiddenLevel
    <3>2. pos <= Len(levels[level].ids)
      BY <1>0, <1>2, <1>3, <1>6, <3>1 DEF LevelDone, Levels
    <3> QED BY <1>0, <1>9, <3>2 DEF SkipHiddenLevel, NoPriceForMarket, Candidate, Levels, Resting
  <2>2. pos \in DOMAIN levels[level].ids
    BY <1>2, <1>3, <1>6, <2>1
  <2>3. levels[level].price = TopPrice(against)
    <3>1. RestsAt(against, level, pos)
      BY <1>0, <1>2, <1>3, <2>2, RestingKnown DEF MatchInv
    <3> QED BY <1>0, <2>1, <3>1 DEF RestsAt
  <2>4. ASSUME NEW i \in DOMAIN levels[level].ids
        PROVE  orders[Resting(against, level, i)].kind = "MARKET"
    <3>1. RestsAt(against, level, i)
      BY <1>0, <1>2, <1>3, RestingKnown DEF MatchInv
    <3>2. TopPrice(against) \notin Prices
      BY <1>2, PriceOrder
    <3> QED BY <1>0, <2>3, <3>1, <3>2 DEF RestsAt, ClientOrder
  <2>5. ASSUME NEW l \in DOMAIN levels, NEW i \in DOMAIN levels[l].ids
        PROVE  Before(l, i) \/ l = level
    BY <1>3, <2>1 DEF Before
  <2>6. AtEnd(against)'
    BY <1>0, <1>1, <1>3, <2>1 DEF AtEnd, Levels
  <2> QED BY <1>0, <1>1, <1>4, <1>5, <2>1, <2>4, <2>5, <2>6 DEF MatchInv, Passed, Resting
<1> QED BY <1>7, <1>8, <1>9

\* The order that the loop has found, and the price it offers.
Found ==
    /\ against \in Sides /\ level \in DOMAIN localBook[against]
    /\ pos \in DOMAIN localBook[against][level].ids
    /\ BestLocal = LocalPrice(against, level, orders[Resting(against, level, pos)], nextOrder.price)
    /\ BestLocal \in Prices
    /\ orders[Resting(against, level, pos)].trader # nextOrder.trader
    /\ nextOrder.kind \in {"LIMIT", "MARKET"}
    /\ nextOrder.kind = "LIMIT" => nextOrder.price \in Prices
    /\ nextOrder.kind = "MARKET" => nextOrder.price = 0
(***************************************************************************)
(* When the loop has selected a local order the cursor is at it, and it is *)
(* offered at a real price.                                                *)
(***************************************************************************)
LEMMA SelectedFound ==
    ASSUME AccountsInv, BookInv, MarketsHidden, Selected, ~AtEnd(against)
    PROVE  Found
<1>0. PICK o : o = orders[Resting(against, level, pos)]
  OBVIOUS
<1>1. /\ against \in Sides /\ level \in 1..Len(localBook[against])
      /\ pos \in 1..Len(localBook[against][level].ids) /\ Candidate(against) = o
      /\ o.trader # nextOrder.trader
  BY <1>0, SelectedPlace
<1>2. TypeOK /\ phase = "match"
  BY DEF AccountsInv, Selected
<1>3. localBook[against] \in Seq(PriceLevel)
  BY <1>1, <1>2 DEF TypeOK
<1>4. level \in DOMAIN localBook[against]
  BY <1>1, <1>3, LenProperties
<1>5. pos \in DOMAIN localBook[against][level].ids
  BY <1>1, <1>2, <1>4, LevelKnown
<1>6. /\ nextOrder.kind \in {"LIMIT", "MARKET"}
      /\ nextOrder.kind = "LIMIT" => nextOrder.price \in Prices
      /\ nextOrder.kind = "MARKET" => nextOrder.price = 0
  <2>1. nextOrder \in ClientOrder
    BY <1>2 DEF AccountsInv, NextOrderKnown
  <2>2. /\ nextOrder.kind = "LIMIT" => nextOrder.price \in Prices
        /\ nextOrder.kind = "MARKET" => nextOrder.price = 0
    BY <1>2 DEF AccountsInv, NextOrderKnown
  <2> QED BY <2>1, <2>2 DEF ClientOrder
<1>7. nextOrder.kind = "MARKET" /\ o.kind = "MARKET" => level # Len(localBook[against])
  BY <1>1 DEF Selected, NoPriceForMarket, Levels
<1>8. BestLocal = LocalPrice(against, level, o, nextOrder.price)
  BY <1>1 DEF BestLocal
<1>9. nextOrder.price \in Nat
  BY <1>2 DEF TypeOK, Order
<1>10. LocalPrice(against, level, o, nextOrder.price) \in Prices
  BY <1>0, <1>1, <1>4, <1>5, <1>6, <1>7, <1>9, LocalPriceIsPrice
<1> QED BY <1>0, <1>1, <1>4, <1>5, <1>6, <1>8, <1>10 DEF Found

(***************************************************************************)
(* A match with a local order leaves the cursor where it was, or behind    *)
(* the levels that are still before it.                                    *)
(***************************************************************************)
LEMMA MatchLocalMatch ==
    ASSUME AccountsInv, BookInv, MatchInv, MatchLocal
    PROVE  MatchInv'
<1>0. PICK levels, lv, id, q, lw, book2 :
         /\ levels = localBook[against] /\ lv = levels[level] /\ id = Resting(against, level, pos)
         /\ q = Executed(against, level, pos) /\ lw = After(orders, lv, pos, q)
         /\ book2 = BookAfter(levels, level, lw)
  OBVIOUS
<1>1. /\ phase = "match" /\ phase' = "match" /\ against' = against /\ level' = level
      /\ globalBook' = globalBook /\ Selected /\ TypeOK
  BY DEF MatchLocal, Selected, AccountsInv
<1>2. ~AtEnd(against) /\ against \in Sides /\ level \in 1..Len(levels) /\ pos \in 1..Len(lv.ids)
  BY <1>0, MatchLocalPlace, SelectedPlace DEF MatchLocal
<1>3. ExecuteLocalOrder(against, level, pos, BestLocal, "2") /\ BestLocal \in Nat
  BY BestLocalBounds DEF MatchLocal
<1>4. /\ NoNewOrder /\ DOMAIN orders' = DOMAIN orders /\ \A j \in DOMAIN orders : SameOrder(j)
      /\ nextOrder' = [nextOrder EXCEPT !.size = nextOrder.size - q]
  <2>1. level \in 1..Len(localBook[against]) /\ pos \in 1..Len(localBook[against][level].ids)
    BY <1>0, <1>2
  <2>2. /\ NoNewOrder /\ DOMAIN orders' = DOMAIN orders /\ \A j \in DOMAIN orders : SameOrder(j)
        /\ nextOrder' = [nextOrder EXCEPT !.size = nextOrder.size - Executed(against, level, pos)]
    BY <1>1, <1>2, <1>3, <2>1, LocalExecutionTakes
  <2> QED BY <1>0, <2>2
<1>5. nextOrder'.trader = nextOrder.trader
  BY <1>1, <1>4 DEF TypeOK, Order
<1>6. MarketsHidden' /\ NoneCross'
  <2>1. NoNewQuote
    BY <1>1 DEF NoNewQuote
  <2> QED BY <1>4, <2>1, NothingNew DEF MatchInv
<1>7. levels \in Seq(LevelRec) /\ DOMAIN levels = 1..Len(levels) /\ Len(levels) \in Nat
  BY <1>0, <1>2, LenProperties DEF BookInv, SidesExact, SideExact
<1>8. lv \in LevelRec /\ lv.ids \in Seq(Nat) /\ DOMAIN lv.ids = 1..Len(lv.ids) /\ Len(lv.ids) \in Nat
  <2>1. lv \in LevelRec
    BY <1>0, <1>2, <1>7, ElementOfSeq
  <2>2. lv.ids \in Seq(Nat)
    BY <2>1 DEF LevelRec
  <2> QED BY <2>1, <2>2, LenProperties
<1>9. q \in Nat
  BY <1>0, <1>1, <1>2, PlaceType
<1>10. lw \in LevelRec /\ lw.ids = IF orders[id].size <= q THEN RemoveAt(lv.ids, pos) ELSE lv.ids
  <2>1. lw \in LevelRec
    BY <1>0, <1>2, <1>8, <1>9, AfterRecord
  <2> QED BY <2>1, <1>0 DEF After, Resting
<1>11. book2 \in Seq(LevelRec) /\ AfterChange(levels, level, lw, book2)
  BY <1>0, <1>2, <1>7, <1>10, BookAfterLevels
<1>12. localBook'[against] = book2 /\ pos' = (IF lw.ids = <<>> THEN 1 ELSE pos)
  <2>1. LevelAfter(lv, pos, q) = lw
    BY SMTT(60), <1>0 DEF LevelAfter, After
  <2>2. q = Least(orders[lv.ids[pos]].size, nextOrder.size)
    <3>1. Resting(against, level, pos) = lv.ids[pos]
      BY Zenon, <1>0 DEF Resting
    <3>2. q = Least(orders[Resting(against, level, pos)].size, nextOrder.size)
      BY Zenon, <1>0 DEF Executed
    <3> QED BY Zenon, <3>1, <3>2
  <2>3. localBook' = [localBook EXCEPT ![against] = BookAfter(levels, level, LevelAfter(lv, pos, q))]
    BY Zenon, <1>0, <1>3, <2>2 DEF ExecuteLocalOrder, Levels
  <2>4. localBook \in [Sides -> Seq(PriceLevel)]
    BY <1>1 DEF TypeOK
  <2>5. localBook'[against] = BookAfter(levels, level, lw)
    BY SMTT(60), <1>2, <2>1, <2>3, <2>4
  <2>6. pos' = IF LevelAfter(lv, pos, q).ids = <<>> THEN 1 ELSE pos
    BY Zenon, <1>0, <2>2 DEF MatchLocal, Levels, Candidate
  <2> QED BY <1>0, <2>1, <2>5, <2>6
<1>13. ASSUME NEW l \in DOMAIN book2, NEW i \in DOMAIN book2[l].ids, Before(l, i)'
       PROVE  /\ l \in DOMAIN levels /\ i \in DOMAIN levels[l].ids /\ Before(l, i)
              /\ book2[l].ids[i] = levels[l].ids[i]
  <2>1. DOMAIN book2 = 1..Len(book2) /\ l \in Nat /\ book2[l] \in LevelRec
    BY <1>11, LenProperties, ElementOfSeq
  <2>2. book2[l].ids \in Seq(Nat)
    BY <2>1 DEF LevelRec
  <2>3. i \in Nat /\ i >= 1
    BY <2>2, LenProperties
  <2>4. l < level \/ (l = level /\ i < pos')
    BY <1>1, <1>13 DEF Before
  <2>5. CASE lw.ids = <<>>
    <3>1. Erased(levels, level, book2) /\ l < level
      BY <1>11, <1>12, <2>3, <2>4, <2>5 DEF AfterChange
    <3>2. l \in DOMAIN levels /\ book2[l] = levels[l]
      BY <1>2, <1>7, <2>1, <3>1 DEF Erased
    <3> QED BY <1>13, <3>1, <3>2 DEF Before
  <2>6. CASE lw.ids # <<>>
    <3>1. Changed(levels, level, lw, book2) /\ pos' = pos
      BY <1>11, <1>12, <2>6 DEF AfterChange
    <3>2. l \in DOMAIN levels /\ book2[l] = IF l = level THEN lw ELSE levels[l]
      BY <1>7, <2>1, <3>1 DEF Changed
    <3>3. CASE l < level
      <4>1. l # level
        BY <1>2, <1>7, <3>2, <3>3
      <4> QED BY <1>13, <3>2, <3>3, <4>1 DEF Before
    <3>4. CASE l = level /\ i < pos
      <4>1. book2[l].ids = lw.ids /\ levels[l] = lv
        BY <1>0, <3>2, <3>4
      <4>2. i \in DOMAIN lv.ids /\ i \in 1..Len(lv.ids) - 1
        BY <1>2, <1>8, <2>3, <3>4
      <4>3. RemoveAt(lv.ids, pos)[i] = lv.ids[i]
        BY <1>2, <1>8, <4>2, <3>4, RemoveAtProperties
      <4>4. lw.ids[i] = lv.ids[i]
        BY <1>10, <4>3
      <4> QED BY <3>2, <3>4, <4>1, <4>2, <4>4 DEF Before
    <3> QED BY <2>4, <3>1, <3>3, <3>4
  <2> QED BY <2>5, <2>6
<1>14. ASSUME NEW l \in DOMAIN levels, NEW i \in DOMAIN levels[l].ids, Before(l, i)
       PROVE  orders'[levels[l].ids[i]].trader = nextOrder'.trader
  <2>1. orders[Resting(against, l, i)].trader = nextOrder.trader
    BY <1>0, <1>1, <1>2, <1>14 DEF MatchInv, Passed
  <2>2. RestsAt(against, l, i)
    BY <1>0, <1>2, RestingKnown DEF MatchInv
  <2> QED BY <1>0, <1>4, <1>5, <2>1, <2>2 DEF RestsAt, SameOrder, Resting
<1>15. Passed'
  <2>1. ASSUME NEW l \in DOMAIN book2, NEW i \in DOMAIN book2[l].ids, Before(l, i)'
        PROVE  orders'[book2[l].ids[i]].trader = nextOrder'.trader
    BY <1>13, <1>14, <2>1
  <2> QED BY <1>1, <1>12, <2>1 DEF Passed, Resting
<1>16. Unmatched'
  BY <1>1 DEF Unmatched
<1> QED BY <1>6, <1>15, <1>16 DEF MatchInv

(***************************************************************************)
(* A match with the best quote leaves the local book and the cursor alone. *)
(***************************************************************************)
LEMMA MatchGlobalMatch ==
    ASSUME AccountsInv, BookInv, MatchInv, MatchGlobal
    PROVE  MatchInv'
<1>0. PICK s, quotes, quote, left :
         /\ s = against /\ quotes = globalBook[s] /\ quote = quotes[1]
         /\ left = [quote EXCEPT !.size = Left(quote.size, nextOrder.size)]
  OBVIOUS
<1>1. /\ TypeOK /\ phase = "match" /\ phase' = "match"
      /\ orders' = orders /\ localBook' = localBook
      /\ against' = against /\ level' = level /\ pos' = pos
      /\ s \in Sides /\ quotes # <<>>
  BY <1>0, MatchGlobalPlace DEF AccountsInv, MatchGlobal, Selected, cursor
<1>2. nextOrder'.trader = nextOrder.trader /\ nextOrder'.kind = nextOrder.kind
  <2>1. nextOrder' = [nextOrder EXCEPT !.size = Left(nextOrder.size, quote.size)]
    BY <1>0 DEF MatchGlobal, ExecuteGlobalOrder
  <2> QED BY <1>1, <2>1 DEF TypeOK, Order
<1>3. globalBook' = [globalBook EXCEPT ![s] = IF left.size = 0 THEN Tail(quotes) ELSE ReplaceAt(quotes, 1, left)]
  BY <1>0 DEF MatchGlobal, ExecuteGlobalOrder
<1>4. /\ quotes \in Seq(GlobalQuote) /\ 1 \in 1..Len(quotes) /\ quote \in GlobalQuote
      /\ globalBook \in [Sides -> Seq(GlobalQuote)] /\ DOMAIN quotes = 1..Len(quotes) /\ Len(quotes) \in Nat
  BY <1>0, <1>1, FirstQuote, LenProperties DEF TypeOK
<1>5. NoNewQuote
  <2>1. ASSUME NEW g \in DOMAIN Tail(quotes)
        PROVE  \E h \in DOMAIN quotes : Tail(quotes)[g].price = quotes[h].price
    <3>1. PICK rest : rest = Tail(quotes)
      OBVIOUS
    <3>2. /\ rest \in Seq(GlobalQuote) /\ Len(rest) = Len(quotes) - 1
          /\ \A i \in 1..Len(rest) : rest[i] = quotes[i + 1]
      BY <1>1, <1>4, <3>1, HeadTailProperties
    <3>3. DOMAIN rest = 1..Len(rest)
      BY <3>2, LenProperties
    <3>4. g + 1 \in DOMAIN quotes /\ rest[g] = quotes[g + 1]
      BY <1>4, <2>1, <3>1, <3>2, <3>3
    <3> QED BY <3>1, <3>4
  <2>2. ASSUME NEW g \in DOMAIN ReplaceAt(quotes, 1, left)
        PROVE  \E h \in DOMAIN quotes : ReplaceAt(quotes, 1, left)[g].price = quotes[h].price
    <3>1. left.price = quote.price
      BY <1>0, <1>4 DEF GlobalQuote
    <3>2. ReplaceAt(quotes, 1, left) = [quotes EXCEPT ![1] = left]
      BY DEF ReplaceAt
    <3> QED BY ZenonT(60), <1>0, <1>4, <2>2, <3>1, <3>2
  <2>3. ASSUME NEW t \in Sides, NEW g \in DOMAIN globalBook'[t]
        PROVE  \E h \in DOMAIN globalBook[t] : globalBook'[t][g].price = globalBook[t][h].price
    <3>1. CASE t # s
      BY <1>3, <1>4, <2>3, <3>1
    <3>2. CASE t = s
      <4>1. globalBook'[t] = IF left.size = 0 THEN Tail(quotes) ELSE ReplaceAt(quotes, 1, left)
        BY <1>1, <1>3, <1>4, <3>2
      <4>2. globalBook[t] = quotes
        BY <1>0, <3>2
      <4>3. CASE left.size = 0
        BY <2>1, <2>3, <4>1, <4>2, <4>3
      <4>4. CASE left.size # 0
        BY <2>2, <2>3, <4>1, <4>2, <4>4
      <4> QED BY <4>3, <4>4
    <3> QED BY <3>1, <3>2
  <2> QED BY <2>3 DEF NoNewQuote
<1>6. NoNewOrder
  BY <1>1 DEF NoNewOrder, SameOrder
<1>7. MarketsHidden' /\ NoneCross'
  BY <1>5, <1>6, NothingNew DEF MatchInv
<1>8. Passed'
  BY <1>1, <1>2 DEF MatchInv, Passed, Before, Resting, AtEnd, Levels
<1>9. Unmatched'
  BY <1>1 DEF Unmatched
<1> QED BY <1>7, <1>8, <1>9 DEF MatchInv

(***************************************************************************)
(* The loop ends when there is nothing left that the order may trade with. *)
(***************************************************************************)
LEMMA StopMatchingMatch ==
    ASSUME AccountsInv, BookInv, MatchInv, StopMatching
    PROVE  MatchInv'
<1>0. PICK s, limit : s = against /\ limit = nextOrder.price
  OBVIOUS
<1>1. /\ phase = "match" /\ orders' = orders /\ localBook' = localBook /\ globalBook' = globalBook
      /\ nextOrder' = nextOrder /\ against' = against /\ phase' \in {"send", "insert"}
      /\ TypeOK /\ s \in Sides
  BY <1>0 DEF StopMatching, book, cursor, AccountsInv, TypeOK
<1>2. MarketsHidden' /\ NoneCross' /\ Passed'
  BY <1>1 DEF MatchInv, MarketsHidden, NoneCross, Crossed, Passed
<1>3. CASE phase' = "send"
  BY <1>2, <1>3 DEF MatchInv, Unmatched
<1>4. CASE phase' = "insert"
  <2>1. Selected /\ NoMatch
    BY <1>4 DEF StopMatching
  <2>2. /\ nextOrder.kind \in {"LIMIT", "MARKET"} /\ limit \in Nat
        /\ nextOrder.kind = "LIMIT" => limit \in Prices
        /\ nextOrder.kind = "MARKET" => limit = 0
    <3>1. nextOrder \in ClientOrder
      BY <1>1 DEF AccountsInv, NextOrderKnown
    <3>2. /\ nextOrder.kind = "LIMIT" => limit \in Prices
          /\ nextOrder.kind = "MARKET" => limit = 0
      BY <1>0, <1>1 DEF AccountsInv, NextOrderKnown
    <3> QED BY <1>0, <3>1, <3>2 DEF ClientOrder
  <2>3. ~AtEnd(s) => BestLocal # NoPrice(s)
    <3>1. ~AtEnd(s) => BestLocal \in Prices
      BY <1>0, <2>1, SelectedFound DEF MatchInv, Found
    <3> QED BY <1>1, <3>1, PriceOrder
  <2>4. ASSUME NEW id \in DOMAIN orders, orders[id].size > 0, orders[id].side = s
        PROVE  Harmless(orders[id]) \/ OutOfReach(orders[id].price)
    <3>1. PICK l \in DOMAIN localBook[s] : \E i \in DOMAIN localBook[s][l].ids : Resting(s, l, i) = id
      BY <2>4, HasPlace
    <3>2. PICK i \in DOMAIN localBook[s][l].ids : Resting(s, l, i) = id
      BY <3>1
    <3>3. CASE Before(l, i)
      BY <1>0, <1>1, <3>2, <3>3 DEF MatchInv, Passed, Harmless
    <3>4. CASE ~Before(l, i)
      <4>1. /\ DOMAIN localBook[s] = 1..Len(localBook[s]) /\ Len(localBook[s]) \in Nat /\ l \in Nat
            /\ localBook[s][l].price \in Nat /\ level \in Nat
        BY <1>1, LevelKnown DEF TypeOK
      <4>2. ~AtEnd(s)
        BY <3>4, <4>1 DEF Before, AtEnd, Levels
      <4>3. Found
        BY <1>0, <2>1, <4>2, SelectedFound DEF MatchInv
      <4>4. level \in DOMAIN localBook[s] /\ pos \in DOMAIN localBook[s][level].ids
        BY <1>0, <4>3 DEF Found
      <4>5. RestsAt(s, level, pos) /\ RestsAt(s, l, i) /\ localBook[s][level].price \in Nat
        BY <1>1, <4>4, RestingKnown, LevelKnown DEF MatchInv
      <4>6. ~Better(s, localBook[s][l].price, localBook[s][level].price)
        <5>1. l = level \/ level < l
          BY <3>4, <4>1 DEF Before
        <5>2. CASE l = level
          BY <4>1, <5>2 DEF Better
        <5>3. CASE level < l
          <6>1. Better(s, localBook[s][level].price, localBook[s][l].price)
            BY <1>1, <3>2, <4>4, <5>3, BehindIsWorse
          <6> QED BY <4>1, <4>5, <6>1 DEF Better
        <5> QED BY <5>1, <5>2, <5>3
      <4>7. /\ nextOrder.kind = "LIMIT" /\ Better(s, limit, BestLocal)
        BY <1>0, <2>1, <2>3, <4>2 DEF NoMatch
      <4>8. limit \in Prices /\ limit \in Nat /\ limit # 0
        BY <1>1, <2>2, <4>7, PriceOrder
      <4>9. PICK o : o = orders[Resting(s, level, pos)]
        OBVIOUS
      <4>10. BestLocal = LocalPrice(s, level, o, limit)
        BY <1>0, <4>3, <4>9 DEF Found
      <4>11. o.kind = "LIMIT"
        <5>1. ASSUME o.kind = "MARKET"
              PROVE  FALSE
          <6>1. BestLocal = HiddenPrice(s, level, limit)
            BY <4>10, <5>1 DEF LocalPrice
          <6>2. ~Better(s, limit, HiddenPrice(s, level, limit))
            BY <1>1, <4>4, <4>8, HiddenPriceBounds DEF MatchInv
          <6> QED BY <4>7, <6>1, <6>2
        <5> QED BY <4>5, <4>9, <5>1 DEF RestsAt, ClientOrder
      <4>12. BestLocal = localBook[s][level].price
        BY <4>5, <4>9, <4>10, <4>11 DEF LocalPrice, RestsAt
      <4>13. Better(s, limit, localBook[s][l].price)
        BY <4>1, <4>5, <4>6, <4>7, <4>8, <4>12 DEF Better
      <4> QED BY <1>0, <3>2, <4>5, <4>7, <4>13 DEF RestsAt, OutOfReach
    <3> QED BY <3>3, <3>4
  <2>5. ASSUME NEW g \in DOMAIN globalBook[s]
        PROVE  OutOfReach(globalBook[s][g].price)
    <3>1. PICK quotes : quotes = globalBook[s]
      OBVIOUS
    <3>2. quotes \in Seq(GlobalQuote) /\ QuotesOrdered(s, quotes)
      BY <1>1, <3>1 DEF TypeOK, BookInv, QuotesInOrder
    <3>3. DOMAIN quotes = 1..Len(quotes) /\ Len(quotes) \in Nat /\ quotes # <<>>
      BY <2>5, <3>1, <3>2, LenProperties
    <3>4. 1 \in DOMAIN quotes /\ g \in DOMAIN quotes
      BY <2>5, <3>1, <3>3
    <3>5. quotes[1] \in GlobalQuote /\ quotes[g] \in GlobalQuote
      BY <3>2, <3>3, <3>4, ElementOfSeq
    <3>6. quotes[1].price \in Prices /\ quotes[1].price \in Nat /\ quotes[g].price \in Nat
      BY <3>5, PricesAreNumbers DEF GlobalQuote
    <3>7. ~Better(s, quotes[g].price, quotes[1].price)
      <4>1. g = 1 \/ 1 < g
        BY <3>3, <3>4
      <4>2. 1 < g => Ahead(s, quotes[1], quotes[g])
        BY <3>2, <3>4 DEF QuotesOrdered
      <4> QED BY <3>6, <4>1, <4>2 DEF Ahead, Better
    <3>8. BestGlobal = quotes[1].price
      BY <1>0, <3>1, <3>3 DEF BestGlobal
    <3>9. BestGlobal # NoPrice(s)
      BY <1>1, <3>6, <3>8, PriceOrder
    <3>10. nextOrder.kind = "LIMIT" /\ Better(s, limit, quotes[1].price)
      BY <1>0, <2>1, <3>8, <3>9 DEF NoMatch
    <3>11. Better(s, limit, quotes[g].price)
      BY <2>2, <3>6, <3>7, <3>10 DEF Better
    <3> QED BY <1>0, <3>1, <3>10, <3>11 DEF OutOfReach
  <2>6. Unmatched'
    BY <1>0, <1>1, <2>4, <2>5 DEF Unmatched, Harmless, OutOfReach
  <2> QED BY <1>2, <2>6 DEF MatchInv
<1> QED BY <1>1, <1>3, <1>4

--------------------------------------------------------------------------------
(* The other handlers. *)

(***************************************************************************)
(* The feed takes from the orders that rest.                               *)
(***************************************************************************)
LEMMA MatchFeedMatch ==
    ASSUME AccountsInv, BookInv, MatchInv, MatchFeed
    PROVE  MatchInv'
<1>1. TypeOK /\ phase' = "feed" /\ globalBook' = globalBook
  BY DEF AccountsInv, MatchFeed
<1>2. against \in Sides /\ 1 \in 1..Len(localBook[against]) /\ 1 \in 1..Len(localBook[against][1].ids)
  BY MatchFeedPlace
<1>3. PICK price \in Nat : ExecuteLocalOrder(against, 1, 1, price, "2")
  BY MatchFeedPlace
<1>4. NoNewOrder
  BY <1>1, <1>2, <1>3, LocalExecutionTakes
<1>5. NoNewQuote
  BY <1>1 DEF NoNewQuote
<1>6. MarketsHidden' /\ NoneCross'
  BY <1>4, <1>5, NothingNew DEF MatchInv
<1> QED BY <1>1, <1>6 DEF MatchInv, Passed, Unmatched

(***************************************************************************)
(* So does a cancellation.                                                 *)
(***************************************************************************)
LEMMA DoLocalCancelMatch ==
    ASSUME AccountsInv, BookInv, MatchInv, DoLocalCancel
    PROVE  MatchInv'
<1>1. TypeOK /\ phase' = "send" /\ globalBook' = globalBook /\ against \in Sides
  BY DEF AccountsInv, DoLocalCancel, TypeOK
<1>2. NoNewOrder
  <2>1. CASE UNCHANGED <<orders, localBook>>
    BY <2>1 DEF NoNewOrder, SameOrder
  <2>2. CASE \E l \in 1..Len(localBook[against]) : \E i \in 1..Len(localBook[against][l].ids) :
                ExecuteLocalOrder(against, l, i, 0, "4")
    BY <1>1, <2>2, LocalExecutionTakes
  <2> QED BY <2>1, <2>2, CancelPlace
<1>3. NoNewQuote
  BY <1>1 DEF NoNewQuote
<1>4. MarketsHidden' /\ NoneCross'
  BY <1>2, <1>3, NothingNew DEF MatchInv
<1> QED BY SMTT(60), <1>1, <1>4 DEF MatchInv, Passed, Unmatched

(***************************************************************************)
(* What came to rest was matched with all that it could be matched with.   *)
(***************************************************************************)
LEMMA InsertLocalMatch ==
    ASSUME AccountsInv, BookInv, MatchInv, InsertLocal
    PROVE  MatchInv'
<1>0. PICK s, id, p, q : /\ s = nextOrder.side /\ id = nextOrder.id /\ q = nextOrder.size
                         /\ p = IF nextOrder.kind = "MARKET" THEN TopPrice(s) ELSE nextOrder.price
  OBVIOUS
<1>1. phase = "insert" /\ phase' = "send" /\ globalBook' = globalBook /\ TypeOK
  BY DEF InsertLocal, AccountsInv
<1>2. orders \in Seq(ClientOrder) /\ DOMAIN orders = 1..Len(orders) /\ Len(orders) \in Nat
  BY <1>1, LenProperties DEF TypeOK
<1>3. /\ id \in DOMAIN orders /\ orders[id].side = s /\ nextOrder \in ClientOrder
      /\ orders[id].kind = nextOrder.kind /\ orders[id].trader = nextOrder.trader
      /\ against = Other(s)
  BY <1>0, <1>1 DEF AccountsInv, NextOrderKnown, BookInv, InHandKnown
<1>4. s \in Sides /\ q \in Nat /\ nextOrder.kind \in {"LIMIT", "MARKET"}
  BY <1>0, <1>3 DEF ClientOrder
<1>5. PICK rests : rests = [orders[id] EXCEPT !.price = p, !.size = q]
  OBVIOUS
<1>6. orders[id] \in ClientOrder
  BY <1>2, <1>3, ElementOfSeq
<1>7. /\ rests.size = q /\ rests.price = p /\ rests.side = s
      /\ rests.kind = nextOrder.kind /\ rests.trader = nextOrder.trader
  BY <1>3, <1>5, <1>6 DEF ClientOrder
<1>8. orders' = [orders EXCEPT ![id] = rests]
  <2>1. orders' = [orders EXCEPT ![id].price = p, ![id].size = q]
    BY <1>0 DEF InsertLocal
  <2> QED BY <1>2, <1>3, <1>5, <2>1
<1>9. DOMAIN orders' = DOMAIN orders /\ orders'[id] = rests
      /\ \A j \in DOMAIN orders : j # id => orders'[j] = orders[j]
  BY <1>2, <1>3, <1>8
<1>10. MarketsHidden'
  BY <1>0, <1>7, <1>9 DEF MatchInv, MarketsHidden
<1>11. /\ \A j \in DOMAIN orders : orders[j].size > 0 /\ orders[j].side = Other(s)
             => Harmless(orders[j]) \/ OutOfReach(orders[j].price)
       /\ \A g \in DOMAIN globalBook[Other(s)] : OutOfReach(globalBook[Other(s)][g].price)
  BY <1>1, <1>3 DEF MatchInv, Unmatched
<1>12. \A j \in DOMAIN orders : orders[j].price \in Nat /\ orders[j].side \in Sides
  <2>1. \A j \in DOMAIN orders : orders[j] \in ClientOrder
    BY <1>2, ElementOfSeq
  <2> QED BY <2>1 DEF ClientOrder
<1>13. nextOrder.price \in Nat
  BY <1>3 DEF ClientOrder
<1>14. ASSUME NEW j \in DOMAIN orders, j # id, orders[j].size > 0, orders[j].side = Other(s)
       PROVE  \/ orders[j].trader = nextOrder.trader
              \/ orders[j].kind = "MARKET" /\ nextOrder.kind = "MARKET"
              \/ p = nextOrder.price /\ Better(Other(s), p, orders[j].price)
  <2>1. Harmless(orders[j]) \/ OutOfReach(orders[j].price)
    BY <1>11, <1>14
  <2>2. OutOfReach(orders[j].price) => p = nextOrder.price /\ Better(Other(s), p, orders[j].price)
    BY <1>0, <1>3 DEF OutOfReach
  <2> QED BY <2>1, <2>2 DEF Harmless
<1>15. ASSUME NEW b \in DOMAIN orders', NEW a \in DOMAIN orders', Crossed(b, a)'
       PROVE  FALSE
  <2>1. /\ orders'[b].size > 0 /\ orders'[b].side = "bid"
        /\ orders'[a].size > 0 /\ orders'[a].side = "ask"
        /\ orders'[b].trader # orders'[a].trader
        /\ ~(orders'[b].kind = "MARKET" /\ orders'[a].kind = "MARKET")
        /\ orders'[b].price >= orders'[a].price
    BY <1>15 DEF Crossed
  <2>2. CASE b # id /\ a # id
    <3>1. Crossed(b, a)
      BY <1>9, <2>1, <2>2 DEF Crossed
    <3> QED BY <1>9, <3>1 DEF MatchInv, NoneCross
  <2>3. CASE b = id
    <3>1. s = "bid" /\ Other(s) = "ask" /\ a # id
      BY <1>7, <1>9, <2>1, <2>3 DEF Other
    <3>2. orders'[a] = orders[a] /\ a \in DOMAIN orders
      BY <1>9, <3>1
    <3>3. p = nextOrder.price /\ Better("ask", p, orders[a].price)
      BY <1>7, <1>9, <1>14, <2>1, <2>3, <3>1, <3>2
    <3>4. p >= orders[a].price
      BY <1>7, <1>9, <2>1, <2>3, <3>2
    <3> QED BY <1>12, <1>13, <3>2, <3>3, <3>4 DEF Better
  <2>4. CASE a = id
    <3>1. s = "ask" /\ Other(s) = "bid" /\ b # id
      BY <1>7, <1>9, <2>1, <2>4 DEF Other
    <3>2. orders'[b] = orders[b] /\ b \in DOMAIN orders
      BY <1>9, <3>1
    <3>3. p = nextOrder.price /\ Better("bid", p, orders[b].price)
      BY <1>7, <1>9, <1>14, <2>1, <2>4, <3>1, <3>2
    <3>4. orders[b].price >= p
      BY <1>7, <1>9, <2>1, <2>4, <3>2
    <3> QED BY <1>12, <1>13, <3>2, <3>3, <3>4 DEF Better
  <2> QED BY <2>2, <2>3, <2>4
<1>16. ASSUME NEW t \in Sides, NEW g \in DOMAIN globalBook[Other(t)], NEW j \in DOMAIN orders',
              orders'[j].size > 0, orders'[j].side = t
       PROVE  Better(t, globalBook[Other(t)][g].price, orders'[j].price)
  <2>1. CASE j # id
    BY <1>9, <1>16, <2>1 DEF MatchInv, NoneCross
  <2>2. CASE j = id
    <3>1. t = s /\ orders'[j].price = p
      BY <1>7, <1>9, <1>16, <2>2
    <3>2. OutOfReach(globalBook[Other(s)][g].price)
      BY <1>11, <1>16, <3>1
    <3>3. p = nextOrder.price /\ Better(Other(s), p, globalBook[Other(s)][g].price)
      BY <1>0, <1>3, <3>2 DEF OutOfReach
    <3>4. Better(Other(s), p, globalBook[Other(s)][g].price) => Better(s, globalBook[Other(s)][g].price, p)
      BY <1>4 DEF Better, Other, Sides
    <3> QED BY <3>1, <3>3, <3>4
  <2> QED BY <2>1, <2>2
<1>17. NoneCross'
  BY <1>1, <1>15, <1>16 DEF NoneCross
<1> QED BY <1>1, <1>10, <1>17 DEF MatchInv, Passed, Unmatched

(***************************************************************************)
(* A quote that enters the global book took all that rests at its price.   *)
(***************************************************************************)
LEMMA UpdateGlobalMatch ==
    ASSUME AccountsInv, BookInv, MatchInv, UpdateGlobal
    PROVE  MatchInv'
<1>0. PICK s, quotes, o : s = nextOrder.side /\ quotes = globalBook[s] /\ o = nextOrder
  OBVIOUS
<1>1. /\ TypeOK /\ phase = "feed" /\ phase' = "send" /\ o \in FeedOrder /\ o.kind = "TRTH_QUOTE"
      /\ orders' = orders /\ localBook' = localBook /\ ~FeedMatches
  BY <1>0 DEF AccountsInv, NextOrderKnown, UpdateGlobal
<1>2. s \in Sides /\ o.price \in Nat /\ o.size \in Nat /\ o.dest \in Dests /\ against = Other(s)
  BY <1>0, <1>1, MarketAssumption DEF FeedOrder, BookInv, InHandKnown
<1>3. \/ globalBook' = globalBook
      \/ o.size > 0 /\ globalBook' = [globalBook EXCEPT ![s] = WithQuote(s, quotes, o)]
  BY <1>0 DEF UpdateGlobal
<1>4. MarketsHidden'
  BY <1>1 DEF MatchInv, MarketsHidden
<1>5. ASSUME NEW id \in DOMAIN orders, orders[id].size > 0, orders[id].side = Other(s), o.size > 0
      PROVE  Better(Other(s), o.price, orders[id].price)
  <2>0. PICK t, levels : t = Other(s) /\ levels = localBook[t]
    OBVIOUS
  <2>1. PICK l \in DOMAIN levels : \E i \in DOMAIN levels[l].ids : Resting(t, l, i) = id
    BY <1>5, <2>0, HasPlace
  <2>2. PICK i \in DOMAIN levels[l].ids : Resting(t, l, i) = id
    BY <2>1
  <2>3. t \in Sides
    BY <1>2, <2>0 DEF Other, Sides
  <2>4. /\ DOMAIN levels = 1..Len(levels) /\ Len(levels) \in Nat /\ l \in Nat /\ l >= 1
        /\ levels[l].price \in Nat /\ 1 \in DOMAIN levels
    BY <1>1, <2>0, <2>3, LevelKnown
  <2>5. levels[1].price \in Nat
    BY <1>1, <2>0, <2>3, <2>4, LevelKnown
  <2>6. levels # <<>>
    BY <2>4
  <2>7. Better(t, o.price, levels[1].price)
    BY <1>0, <1>1, <1>2, <1>5, <2>0, <2>6 DEF FeedMatches, Levels
  <2>8. l = 1 \/ Better(t, levels[1].price, levels[l].price)
    <3>1. Ordered(t, levels)
      BY <2>0, <2>3 DEF BookInv, SidesExact, SideExact
    <3>2. l = 1 \/ 1 < l
      BY <2>4
    <3> QED BY <2>4, <3>1, <3>2 DEF Ordered
  <2>9. RestsAt(t, l, i)
    BY <2>0, <2>2, <2>3, RestingKnown DEF MatchInv
  <2>10. orders[id].price = levels[l].price
    BY <2>0, <2>2, <2>9 DEF RestsAt
  <2>11. Better(t, o.price, levels[l].price)
    BY <1>2, <2>4, <2>5, <2>7, <2>8 DEF Better
  <2> QED BY <2>0, <2>10, <2>11
<1>6. ASSUME NEW g \in DOMAIN globalBook'[s]
      PROVE  \/ o.size > 0 /\ globalBook'[s][g].price = o.price
             \/ \E h \in DOMAIN globalBook[s] : globalBook'[s][g].price = globalBook[s][h].price
  <2>1. CASE globalBook' = globalBook
    BY <1>6, <2>1
  <2>2. CASE o.size > 0 /\ globalBook' = [globalBook EXCEPT ![s] = WithQuote(s, quotes, o)]
    <3>1. PICK e, new : e = [price |-> o.price, size |-> o.size, dest |-> o.dest] /\ new = WithQuote(s, quotes, o)
      OBVIOUS
    <3>2. e \in QuoteRec /\ e.price = o.price
      BY <1>2, <3>1 DEF QuoteRec
    <3>3. quotes \in Seq(QuoteRec) /\ QuotesOrdered(s, quotes)
      <4>1. quotes \in Seq(GlobalQuote)
        BY <1>0, <1>1, <1>2 DEF TypeOK
      <4> QED BY <1>0, <1>2, <4>1, PricesAreNumbers, SeqOfSubset DEF BookInv, QuotesInOrder
    <3>4. MadeOf(new, e, quotes)
      BY <3>1, <3>2, <3>3, WithQuoteOrdered
    <3>5. globalBook'[s] = new
      BY <1>1, <1>2, <2>2, <3>1 DEF TypeOK
    <3> QED BY <1>0, <1>6, <2>2, <3>2, <3>4, <3>5 DEF MadeOf
  <2> QED BY <1>3, <2>1, <2>2
<1>7. \A b, a \in DOMAIN orders' : ~Crossed(b, a)'
  BY <1>1 DEF MatchInv, NoneCross, Crossed
<1>8. ASSUME NEW t \in Sides, NEW g \in DOMAIN globalBook'[Other(t)], NEW id \in DOMAIN orders',
             orders'[id].size > 0, orders'[id].side = t
      PROVE  Better(t, globalBook'[Other(t)][g].price, orders'[id].price)
  <2>0. Other(t) \in Sides /\ id \in DOMAIN orders /\ orders[id].size > 0 /\ orders[id].side = t
    BY <1>1, <1>8 DEF Other, Sides
  <2>1. CASE \E h \in DOMAIN globalBook[Other(t)] : globalBook'[Other(t)][g].price = globalBook[Other(t)][h].price
    BY <1>1, <2>0, <2>1 DEF MatchInv, NoneCross
  <2>2. CASE Other(t) = s
    <3>1. t = Other(s)
      BY <1>2, <1>8, <2>2 DEF Other, Sides
    <3>2. CASE o.size > 0 /\ globalBook'[s][g].price = o.price
      BY <1>1, <1>5, <2>0, <2>2, <3>1, <3>2
    <3> QED BY <1>6, <1>8, <2>1, <2>2, <3>2
  <2>3. CASE Other(t) # s
    <3>1. globalBook'[Other(t)] = globalBook[Other(t)]
      BY <1>1, <1>3, <2>0, <2>3 DEF TypeOK
    <3> QED BY <1>8, <2>1, <3>1
  <2> QED BY <2>2, <2>3
<1>9. NoneCross'
  BY <1>7, <1>8 DEF NoneCross
<1> QED BY <1>1, <1>4, <1>9 DEF MatchInv, Passed, Unmatched

(***************************************************************************)
(* The steps that leave orders and books alone.                            *)
(***************************************************************************)
LEMMA OtherMatch ==
    ASSUME AccountsInv, BookInv, MatchInv,
           \/ TradeHitsBids \/ ReportTrade \/ Send \/ ReceiveFeed
           \/ \E id \in DOMAIN orders, q \in Sizes : ReceiveCancel(id, q)
           \/ \E q \in Quotes : DeliverQuote(q)
           \/ \E t \in Trades : DeliverTrade(t)
           \/ UNCHANGED vars
    PROVE  MatchInv'
<1>1. orders' = orders /\ localBook' = localBook /\ globalBook' = globalBook
  BY DEF TradeHitsBids, ReportTrade, Send, ReceiveFeed, ReceiveCancel, DeliverQuote, DeliverTrade, vars, book
<1>2. \/ phase' \notin {"match", "insert"}
      \/ UNCHANGED <<nextOrder, phase, against, level, pos>>
  BY DEF TradeHitsBids, ReportTrade, Send, ReceiveFeed, ReceiveCancel, DeliverQuote, DeliverTrade, vars,
         Begin, cursor
<1>3. MarketsHidden' /\ NoneCross'
  BY <1>1 DEF MatchInv, MarketsHidden, NoneCross, Crossed
<1>4. CASE phase' \notin {"match", "insert"}
  BY <1>3, <1>4 DEF MatchInv, Passed, Unmatched
<1>5. CASE UNCHANGED <<nextOrder, phase, against, level, pos>>
  <2>1. Passed'
    BY <1>1, <1>5 DEF MatchInv, Passed, Before, Resting, AtEnd, Levels
  <2>2. Unmatched'
    BY <1>1, <1>5 DEF MatchInv, Unmatched, Harmless, OutOfReach
  <2> QED BY <1>3, <2>1, <2>2 DEF MatchInv
<1> QED BY <1>2, <1>4, <1>5

--------------------------------------------------------------------------------
(***************************************************************************)
(* The order in hand has passed only orders that it may not trade with, an *)
(* order that is about to rest is matched with all it could be, and        *)
(* nothing in the books crosses.                                           *)
(***************************************************************************)
THEOREM Matching == Spec => []MatchInv
<1>1. AccountsInv /\ AccountsInv' /\ BookInv /\ MatchInv /\ [Next]_vars => MatchInv'
  <2> SUFFICES ASSUME AccountsInv, AccountsInv', BookInv, MatchInv, [Next]_vars PROVE MatchInv'
    OBVIOUS
  <2>0. TypeOK'
    BY DEF AccountsInv
  <2>1. CASE \/ \E s \in Sides, t \in Traders, p \in Prices, q \in Sizes : ReceiveOrder("LIMIT", s, t, p, q)
             \/ \E s \in Sides, t \in Traders, q \in Sizes : ReceiveOrder("MARKET", s, t, 0, q)
    BY <2>0, <2>1, ReceiveOrderMatch
  <2>2. CASE NextPriceLevel \/ SkipOwnOrder \/ SkipHiddenLevel
    BY <2>2, CursorMatch
  <2>3. CASE MatchLocal
    BY <2>3, MatchLocalMatch
  <2>4. CASE MatchGlobal
    BY <2>4, MatchGlobalMatch
  <2>5. CASE StopMatching
    BY <2>5, StopMatchingMatch
  <2>6. CASE InsertLocal
    BY <2>6, InsertLocalMatch
  <2>7. CASE DoLocalCancel
    BY <2>7, DoLocalCancelMatch
  <2>8. CASE MatchFeed
    BY <2>8, MatchFeedMatch
  <2>9. CASE UpdateGlobal
    BY <2>9, UpdateGlobalMatch
  <2>10. CASE \/ TradeHitsBids \/ ReportTrade \/ Send \/ ReceiveFeed
              \/ \E id \in DOMAIN orders, q \in Sizes : ReceiveCancel(id, q)
              \/ \E q \in Quotes : DeliverQuote(q)
              \/ \E t \in Trades : DeliverTrade(t)
              \/ UNCHANGED vars
    BY <2>10, OtherMatch
  <2> QED BY <2>1, <2>2, <2>3, <2>4, <2>5, <2>6, <2>7, <2>8, <2>9, <2>10 DEF Next, Handle
<1> QED BY <1>1, InitMatch, Accounts, Books, PTL DEF Spec

(***************************************************************************)
(* Between two handlers no two orders of different traders cross, unless   *)
(* both are hidden market orders, and no order crosses the quotes of the   *)
(* other side: the matching loops of ContinuousStockMarket leave nothing   *)
(* behind.                                                                 *)
(***************************************************************************)
COROLLARY NothingMissed == Spec => []NoMissedMatch
<1>1. MatchInv => NoMissedMatch
  BY DEF MatchInv, NoneCross, NoMissedMatch
<1> QED BY <1>1, Matching, PTL

--------------------------------------------------------------------------------
(* What an execution is worth. *)

(***************************************************************************)
(* The last report is the one that is added.                               *)
(***************************************************************************)
LEMMA LastReported ==
    ASSUME TypeOK, NEW price, NEW size, NEW id1, NEW id2, NEW decision,
           AddExecutionReport(price, size, id1, id2, decision)
    PROVE  /\ Last(reports') = [price |-> price, size |-> size, id1 |-> id1, id2 |-> id2, decision |-> decision]
           /\ Len(reports') > Len(reports)
<1>1. PICK r : r = [price |-> price, size |-> size, id1 |-> id1, id2 |-> id2, decision |-> decision]
  OBVIOUS
<1>2. reports' = Append(reports, r)
  BY <1>1 DEF AddExecutionReport
<1>3. reports \in Seq(Report \cup {r}) /\ r \in Report \cup {r} /\ Len(reports) \in Nat
  <2>1. reports \in Seq(Report)
    BY DEF TypeOK
  <2> QED BY <2>1, SeqOfSubset, LenProperties
<1>4. Len(reports') = Len(reports) + 1 /\ reports'[Len(reports) + 1] = r
  BY <1>2, <1>3, AppendProperties
<1> QED BY <1>1, <1>3, <1>4 DEF Last

(***************************************************************************)
(* Only the matching of an order, or of the feed, with a book is an        *)
(* execution.                                                              *)
(***************************************************************************)
LEMMA WhoExecutes ==
    ASSUME AccountsInv, Next, Executes
    PROVE  MatchLocal \/ MatchGlobal \/ MatchFeed
<1>1. TypeOK /\ Len(reports) \in Nat
  BY LenProperties DEF AccountsInv, TypeOK
<1>2. Len(reports') > Len(reports) /\ Last(reports').decision = "2"
  BY DEF Executes
<1>3. reports' # reports /\ reports' # <<>>
  BY <1>1, <1>2, EmptySeq
<1>4. ASSUME DoLocalCancel PROVE FALSE
  <2>1. PICK price, q, id1 : AddExecutionReport(price, q, id1, nextOrder.id, "4")
    BY Zenon, <1>3, <1>4 DEF DoLocalCancel, ExecuteLocalOrder, output
  <2>2. Last(reports') = [price |-> price, size |-> q, id1 |-> id1, id2 |-> nextOrder.id, decision |-> "4"]
    BY <1>1, <2>1, LastReported
  <2> QED BY <1>2, <2>2
<1>5. ASSUME ReportTrade PROVE FALSE
  <2>1. AddExecutionReport(nextOrder.price, nextOrder.size, 0, 0, "5")
    BY <1>3, <1>5 DEF ReportTrade
  <2>2. Last(reports') = [price |-> nextOrder.price, size |-> nextOrder.size, id1 |-> 0, id2 |-> 0, decision |-> "5"]
    BY <1>1, <2>1, LastReported
  <2> QED BY <1>2, <2>2
<1>6. /\ ~NextPriceLevel /\ ~SkipOwnOrder /\ ~SkipHiddenLevel /\ ~StopMatching /\ ~InsertLocal
      /\ ~TradeHitsBids /\ ~UpdateGlobal /\ ~Send /\ ~ReceiveFeed
  BY <1>3 DEF NextPriceLevel, SkipOwnOrder, SkipHiddenLevel, StopMatching, InsertLocal,
              TradeHitsBids, UpdateGlobal, Send, ReceiveFeed, output
<1>7. /\ \A kind, s, t, p, q : ~ReceiveOrder(kind, s, t, p, q)
      /\ \A id, q : ~ReceiveCancel(id, q)
      /\ \A q : ~DeliverQuote(q) /\ ~DeliverTrade(q)
  BY <1>3 DEF ReceiveOrder, ReceiveCancel, DeliverQuote, DeliverTrade, output
<1> QED BY <1>4, <1>5, <1>6, <1>7 DEF Next, Handle

\* Before a place of side s there are only own orders.
AllBehind(s, l, i) ==
    \A m \in DOMAIN localBook[s] : \A k \in DOMAIN localBook[s][m].ids :
        (m < l \/ (m = l /\ k < i)) => orders[Resting(s, m, k)].trader = nextOrder.trader

(***************************************************************************)
(* The order at a place before which there are only own orders is the      *)
(* first eligible one.                                                     *)
(***************************************************************************)
LEMMA FirstTaken ==
    ASSUME AccountsInv, BookInv, MarketsHidden, against \in Sides,
           NEW l \in DOMAIN localBook[against], NEW i \in DOMAIN localBook[against][l].ids,
           AllBehind(against, l, i), NEW id, id = Resting(against, l, i),
           orders[id].trader # nextOrder.trader
    PROVE  /\ id \in Eligible /\ id # 0
           /\ \A x \in Eligible \ {id} : \/ Better(against, orders[id].price, orders[x].price)
                                         \/ orders[id].price = orders[x].price /\ id < x
<1>1. RestsAt(against, l, i) /\ TypeOK
  BY RestingKnown DEF AccountsInv
<1>2. id \in DOMAIN orders /\ DOMAIN orders = 1..Len(orders)
  BY <1>1, LenProperties DEF RestsAt, TypeOK
<1>3. id \in Eligible /\ orders[id].price = localBook[against][l].price
  BY <1>1 DEF RestsAt, Eligible
<1>4. ASSUME NEW x \in Eligible, x # id
      PROVE  \/ Better(against, orders[id].price, orders[x].price)
             \/ orders[id].price = orders[x].price /\ id < x
  <2>1. x \in DOMAIN orders /\ orders[x].size > 0 /\ orders[x].side = against /\ orders[x].trader # nextOrder.trader
    BY <1>4 DEF Eligible
  <2>2. PICK m \in DOMAIN localBook[against] : \E k \in DOMAIN localBook[against][m].ids : Resting(against, m, k) = x
    BY <2>1, HasPlace
  <2>3. PICK k \in DOMAIN localBook[against][m].ids : Resting(against, m, k) = x
    BY <2>2
  <2>4. RestsAt(against, m, k)
    BY RestingKnown
  <2>5. orders[x].price = localBook[against][m].price
    BY <2>3, <2>4 DEF RestsAt
  <2>6. ~(m < l \/ (m = l /\ k < i))
    BY <2>1, <2>3 DEF AllBehind
  <2>7. l < m \/ (l = m /\ i < k)
    <3>1. /\ l \in Nat /\ m \in Nat
          /\ DOMAIN localBook[against][l].ids = 1..Len(localBook[against][l].ids) /\ Len(localBook[against][l].ids) \in Nat
      BY <1>1, LevelKnown
    <3>2. CASE l = m
      <4>1. k # i
        BY <1>4, <2>3, <3>2
      <4> QED BY <2>6, <3>1, <3>2, <4>1
    <3> QED BY <2>6, <3>1, <3>2
  <2>8. CASE l < m
    BY <1>3, <2>5, <2>8, BehindIsWorse
  <2>9. CASE l = m /\ i < k
    <3>1. id < x
      BY <2>3, <2>9, BehindIsWorse
    <3> QED BY <1>3, <2>5, <2>9, <3>1
  <2> QED BY <2>7, <2>8, <2>9
<1>5. id # 0
  BY <1>2
<1> QED BY <1>3, <1>4, <1>5

(***************************************************************************)
(* No limit order that the cursor has not passed is better than the price  *)
(* that is offered.                                                        *)
(***************************************************************************)
LEMMA OfferedIsBest ==
    ASSUME AccountsInv, BookInv, MarketsHidden, Found,
           NEW l \in DOMAIN localBook[against], NEW i \in DOMAIN localBook[against][l].ids,
           ~Before(l, i), orders[Resting(against, l, i)].kind = "LIMIT"
    PROVE  ~Better(against, localBook[against][l].price, BestLocal)
<1>0. PICK s, o, limit : s = against /\ o = orders[Resting(s, level, pos)] /\ limit = nextOrder.price
  OBVIOUS
<1>1. /\ s \in Sides /\ level \in DOMAIN localBook[s] /\ pos \in DOMAIN localBook[s][level].ids
      /\ BestLocal = LocalPrice(s, level, o, limit) /\ limit \in Prices \cup {0}
  BY <1>0 DEF Found
<1>2. TypeOK
  BY DEF AccountsInv
<1>3. /\ DOMAIN localBook[s] = 1..Len(localBook[s]) /\ l \in Nat /\ level \in Nat
      /\ localBook[s][l].price \in Nat /\ localBook[s][level].price \in Nat
  BY <1>0, <1>1, <1>2, LevelKnown
<1>4. RestsAt(s, level, pos) /\ RestsAt(s, l, i)
  BY <1>0, <1>1, RestingKnown
<1>5. l = level \/ level < l
  BY <1>3 DEF Before
<1>6. CASE o.kind = "LIMIT"
  <2>1. BestLocal = localBook[s][level].price
    BY <1>0, <1>1, <1>4, <1>6 DEF LocalPrice, RestsAt
  <2>2. CASE l = level
    BY <1>0, <1>3, <2>1, <2>2 DEF Better
  <2>3. CASE level < l
    <3>1. Better(s, localBook[s][level].price, localBook[s][l].price)
      BY <1>0, <1>1, <2>3, BehindIsWorse
    <3> QED BY <1>0, <1>3, <2>1, <3>1 DEF Better
  <2> QED BY <1>5, <2>2, <2>3
<1>7. CASE o.kind = "MARKET"
  <2>1. BestLocal = HiddenPrice(s, level, limit)
    BY <1>1, <1>7 DEF LocalPrice
  <2>2. localBook[s][level].price = TopPrice(s) /\ localBook[s][l].price \in Prices
    BY <1>0, <1>4, <1>7 DEF RestsAt
  <2>3. l # level
    BY <1>1, <2>2, PriceOrder
  <2>4. ~Better(s, localBook[s][l].price, HiddenPrice(s, level, limit))
    BY <1>0, <1>1, <1>5, <2>3, HiddenPriceBounds
  <2> QED BY <1>0, <2>1, <2>4
<1> QED BY <1>0, <1>4, <1>6, <1>7 DEF RestsAt, ClientOrder

(***************************************************************************)
(* The best price of the two books is within the limit of the order.       *)
(***************************************************************************)
LEMMA WithinLimit ==
    ASSUME AccountsInv, Selected, ~NoMatch, nextOrder.kind # "MARKET",
           NEW best, \/ best = BestLocal /\ LocalFirst
                     \/ best = BestGlobal /\ ~LocalFirst
    PROVE  ~Better(against, nextOrder.price, best)
<1>1. nextOrder.kind = "LIMIT" /\ nextOrder.price \in Nat /\ against \in Sides
  <2>1. nextOrder \in ClientOrder /\ against \in Sides
    BY DEF Selected, AccountsInv, NextOrderKnown, TypeOK
  <2> QED BY <2>1 DEF ClientOrder
<1>2. BestLocal \in Nat
  BY BestLocalBounds
<1>3. BestGlobal \in Nat
  <2>1. CASE globalBook[against] = <<>>
    BY <1>1, <2>1, PriceOrder DEF BestGlobal
  <2>2. CASE globalBook[against] # <<>>
    <3>1. globalBook[against][1] \in GlobalQuote
      BY <1>1, <2>2, FirstQuote DEF AccountsInv
    <3> QED BY <2>2, <3>1, PricesAreNumbers DEF BestGlobal, GlobalQuote
  <2> QED BY <2>1, <2>2
<1>4. ~Better(against, nextOrder.price, BestLocal) \/ ~Better(against, nextOrder.price, BestGlobal)
  BY <1>1 DEF NoMatch
<1> QED BY <1>1, <1>2, <1>3, <1>4 DEF LocalFirst, Better

(***************************************************************************)
(* A match with a local order takes the first one, at a price within the   *)
(* limits.                                                                 *)
(***************************************************************************)
LEMMA MatchLocalExecutes ==
    ASSUME AccountsInv, BookInv, MatchInv, MatchLocal, NEW r, r = Last(reports')
    PROVE  TakesTheFirst(r) /\ PriceAgreed(r)
<1>0. PICK id, o : id = Resting(against, level, pos) /\ o = orders[id]
  OBVIOUS
<1>1. TypeOK /\ MarketsHidden /\ phase = "match" /\ Selected /\ ~NoMatch /\ LocalFirst
  BY DEF AccountsInv, MatchInv, MatchLocal, Selected
<1>2. ~AtEnd(against)
  BY MatchLocalPlace
<1>3. Found
  BY <1>1, <1>2, SelectedFound
<1>4. /\ against \in Sides /\ level \in DOMAIN localBook[against] /\ pos \in DOMAIN localBook[against][level].ids
      /\ BestLocal = LocalPrice(against, level, o, nextOrder.price) /\ BestLocal \in Prices
      /\ o.trader # nextOrder.trader
  BY <1>0, <1>3 DEF Found
<1>5. r.price = BestLocal /\ r.id1 = id
  <2>1. PICK q : AddExecutionReport(BestLocal, q, id, nextOrder.id, "2")
    BY <1>0 DEF MatchLocal, ExecuteLocalOrder, Levels, Resting
  <2>2. r = [price |-> BestLocal, size |-> q, id1 |-> id, id2 |-> nextOrder.id, decision |-> "2"]
    BY <1>1, <2>1, LastReported
  <2> QED BY SMTT(60), <2>2
<1>6. AllBehind(against, level, pos)
  BY <1>1, <1>2, <1>4 DEF MatchInv, Passed, Before, AllBehind
<1>7. /\ id \in Eligible /\ id # 0
      /\ \A x \in Eligible \ {id} : \/ Better(against, orders[id].price, orders[x].price)
                                    \/ orders[id].price = orders[x].price /\ id < x
  BY <1>0, <1>1, <1>4, <1>6, FirstTaken
<1>8. globalBook[against] # <<>> => ~Better(against, globalBook[against][1].price, r.price)
  BY <1>1, <1>5 DEF LocalFirst, BestGlobal
<1>9. nextOrder.kind # "MARKET" => ~Better(against, nextOrder.price, r.price)
  BY <1>1, <1>5, WithinLimit
<1>10. orders[r.id1].kind = "MARKET" \/ r.price = orders[r.id1].price
  BY <1>0, <1>4, <1>5 DEF LocalPrice
<1>11. TakesTheFirst(r)
  BY <1>5, <1>7, <1>8 DEF TakesTheFirst
<1> QED BY <1>4, <1>5, <1>9, <1>10, <1>11 DEF PriceAgreed

(***************************************************************************)
(* A match with the best quote is better than any limit order, at a price  *)
(* within the limits.                                                      *)
(***************************************************************************)
LEMMA MatchGlobalExecutes ==
    ASSUME AccountsInv, BookInv, MatchInv, MatchGlobal, NEW r, r = Last(reports')
    PROVE  TakesTheFirst(r) /\ PriceAgreed(r)
<1>1. TypeOK /\ MarketsHidden /\ phase = "match" /\ Selected /\ ~NoMatch /\ ~LocalFirst
  BY DEF AccountsInv, MatchInv, MatchGlobal, Selected
<1>2. against \in Sides /\ globalBook[against] # <<>>
  BY MatchGlobalPlace
<1>3. r.price = BestGlobal /\ r.id1 = 0
  <2>1. PICK q : AddExecutionReport(BestGlobal, q, 0, nextOrder.id, "2")
    BY DEF MatchGlobal, ExecuteGlobalOrder
  <2>2. r = [price |-> BestGlobal, size |-> q, id1 |-> 0, id2 |-> nextOrder.id, decision |-> "2"]
    BY <1>1, <2>1, LastReported
  <2> QED BY <2>2
<1>4. BestGlobal \in Prices /\ BestGlobal \in Nat
  <2>1. globalBook[against][1] \in GlobalQuote
    BY <1>1, <1>2, FirstQuote
  <2> QED BY <1>2, <2>1, PricesAreNumbers DEF BestGlobal, GlobalQuote
<1>5. ASSUME NEW x \in Eligible, orders[x].kind = "LIMIT"
      PROVE  Better(against, BestGlobal, orders[x].price)
  <2>1. x \in DOMAIN orders /\ orders[x].size > 0 /\ orders[x].side = against /\ orders[x].trader # nextOrder.trader
    BY <1>5 DEF Eligible
  <2>2. PICK l \in DOMAIN localBook[against] : \E i \in DOMAIN localBook[against][l].ids : Resting(against, l, i) = x
    BY <2>1, HasPlace
  <2>3. PICK i \in DOMAIN localBook[against][l].ids : Resting(against, l, i) = x
    BY <2>2
  <2>4. RestsAt(against, l, i)
    BY <1>1, <1>2, RestingKnown
  <2>5. orders[x].price = localBook[against][l].price
    BY <2>3, <2>4 DEF RestsAt
  <2>6. ~Before(l, i)
    BY <1>1, <1>5, <2>1, <2>3 DEF MatchInv, Passed
  <2>7. /\ DOMAIN localBook[against] = 1..Len(localBook[against]) /\ Len(localBook[against]) \in Nat
        /\ localBook[against][l].price \in Nat /\ l \in Nat /\ level \in Nat
    BY <1>1, <1>2, LevelKnown DEF TypeOK
  <2>8. ~AtEnd(against)
    BY <2>6, <2>7 DEF Before, AtEnd, Levels
  <2>9. Found
    BY <1>1, <2>8, SelectedFound
  <2>10. ~Better(against, localBook[against][l].price, BestLocal)
    BY <1>1, <1>5, <2>3, <2>6, <2>9, OfferedIsBest
  <2>11. BestLocal \in Nat /\ Better(against, BestGlobal, BestLocal)
    BY <1>1, BestLocalBounds DEF LocalFirst
  <2> QED BY <1>4, <2>5, <2>7, <2>10, <2>11 DEF Better
<1>6. nextOrder.kind # "MARKET" => ~Better(against, nextOrder.price, r.price)
  BY <1>1, <1>3, WithinLimit
<1> QED BY <1>3, <1>4, <1>5, <1>6 DEF TakesTheFirst, PriceAgreed

(***************************************************************************)
(* The feed takes the first order of the first level, at a price within    *)
(* the limits.                                                             *)
(***************************************************************************)
LEMMA MatchFeedExecutes ==
    ASSUME AccountsInv, BookInv, MatchInv, MatchFeed, NEW r, r = Last(reports')
    PROVE  TakesTheFirst(r) /\ PriceAgreed(r)
<1>0. PICK s, id, o, limit, p :
         /\ s = against /\ id = Resting(s, 1, 1) /\ o = orders[id] /\ limit = nextOrder.price
         /\ p = LocalPrice(s, 1, o, limit)
  OBVIOUS
<1>1. TypeOK /\ MarketsHidden /\ nextOrder \in FeedOrder
  BY DEF AccountsInv, NextOrderKnown, MatchInv, MatchFeed
<1>2. nextOrder.trader = Feed /\ limit \in Prices /\ limit \in Nat
  BY <1>0, <1>1, PricesAreNumbers DEF FeedOrder
<1>3. s \in Sides /\ 1 \in DOMAIN localBook[s] /\ 1 \in DOMAIN localBook[s][1].ids
  <2>1. s \in Sides /\ 1 \in 1..Len(localBook[s])
    BY <1>0, MatchFeedPlace
  <2>2. localBook[s] \in Seq(PriceLevel)
    BY <1>1, <2>1 DEF TypeOK
  <2>3. 1 \in DOMAIN localBook[s]
    BY <2>1, <2>2, LenProperties
  <2> QED BY <1>1, <2>1, <2>3, LevelKnown
<1>4. r.price = p /\ r.id1 = id
  <2>1. PICK q : AddExecutionReport(p, q, id, nextOrder.id, "2")
    BY Zenon, <1>0 DEF MatchFeed, ExecuteLocalOrder, Levels, Resting
  <2>2. r = [price |-> p, size |-> q, id1 |-> id, id2 |-> nextOrder.id, decision |-> "2"]
    BY <1>1, <2>1, LastReported
  <2> QED BY SMTT(60), <2>2
<1>5. RestsAt(s, 1, 1)
  BY <1>1, <1>3, RestingKnown
<1>6. o.trader # nextOrder.trader
  BY <1>0, <1>2, <1>5, MarketAssumption DEF RestsAt, ClientOrder
<1>7. AllBehind(s, 1, 1)
  <2>1. ASSUME NEW m \in DOMAIN localBook[s], NEW k \in DOMAIN localBook[s][m].ids
        PROVE  m \in Nat /\ m >= 1 /\ k \in Nat /\ k >= 1
    <3>1. /\ DOMAIN localBook[s] = 1..Len(localBook[s]) /\ m \in Nat
          /\ DOMAIN localBook[s][m].ids = 1..Len(localBook[s][m].ids) /\ Len(localBook[s][m].ids) \in Nat
      BY <1>1, <1>3, LevelKnown
    <3> QED BY <3>1
  <2> QED BY <2>1 DEF AllBehind
<1>8. /\ id \in Eligible /\ id # 0
      /\ \A x \in Eligible \ {id} : \/ Better(against, orders[id].price, orders[x].price)
                                    \/ orders[id].price = orders[x].price /\ id < x
  BY <1>0, <1>1, <1>3, <1>6, <1>7, FirstTaken
<1>9. p \in Prices
  BY <1>0, <1>1, <1>2, <1>3, LocalPriceIsPrice
<1>10. ~Better(s, limit, p)
  <2>1. CASE o.kind = "MARKET"
    <3>1. limit # 0 /\ p = HiddenPrice(s, 1, limit)
      BY SMTT(60), <1>0, <1>2, <1>3, <2>1, PriceOrder DEF LocalPrice
    <3> QED BY <1>1, <1>2, <1>3, <3>1, HiddenPriceBounds
  <2>2. CASE o.kind # "MARKET"
    <3>1. p = localBook[s][1].price
      BY <1>0, <1>5, <2>2 DEF LocalPrice, RestsAt
    <3> QED BY <1>0, <3>1 DEF MatchFeed, FeedMatches, Levels
  <2> QED BY <2>1, <2>2
<1>11. orders[r.id1].kind = "MARKET" \/ r.price = orders[r.id1].price
  BY <1>0, <1>4 DEF LocalPrice
<1> QED BY <1>0, <1>2, <1>4, <1>8, <1>9, <1>10, <1>11 DEF TakesTheFirst, PriceAgreed

(***************************************************************************)
(* Every execution is in the order of priority and within the limits.      *)
(***************************************************************************)
LEMMA ExecutionSound ==
    ASSUME AccountsInv, BookInv, MatchInv, Next, Executes
    PROVE  TakesTheFirst(Last(reports')) /\ PriceAgreed(Last(reports'))
BY WhoExecutes, MatchLocalExecutes, MatchGlobalExecutes, MatchFeedExecutes

(***************************************************************************)
(* Price-time priority in every execution of ContinuousStockMarket: the    *)
(* eligible order of the best price and, among those, the one submitted    *)
(* first; local orders before quotes of the same price, and no better      *)
(* quote passed over.                                                      *)
(***************************************************************************)
THEOREM BestFirst == Spec => PriceTimePriority
<1>1. AccountsInv /\ BookInv /\ MatchInv /\ [Next]_vars
        => [Executes => TakesTheFirst(Last(reports'))]_vars
  BY ExecutionSound
<1> QED BY <1>1, Accounts, Books, Matching, PTL DEF Spec, PriceTimePriority

(***************************************************************************)
(* Every execution has a real price, that of the resting limit order or    *)
(* quote it takes, at the limit of the incoming order or better, hidden    *)
(* market orders included.                                                 *)
(***************************************************************************)
THEOREM FairPrices == Spec => PricesWithinLimits
<1>1. AccountsInv /\ BookInv /\ MatchInv /\ [Next]_vars
        => [Executes => PriceAgreed(Last(reports'))]_vars
  BY ExecutionSound
<1> QED BY <1>1, Accounts, Books, Matching, PTL DEF Spec, PricesWithinLimits
===============================================================================
