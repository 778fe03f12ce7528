---------------------------- MODULE WebClientProofs ----------------------------
(***************************************************************************)
(* What WebClient promises, for every list of stocks, every number of tabs *)
(* and every set of lists: the theorems about its pages and what the pages *)
(* show.                                                                   *)
(***************************************************************************)
EXTENDS WebClient, DataLemmas

--------------------------------------------------------------------------------
(* The inductive invariant. *)

(* The topic of the submitted orders. *)
Submitted == Topic("submittedOrders", "user")

(* What the push server may have stored. *)
Stores == {store \in UNION {[D -> Data] : D \in SUBSET Topics} :
              \A x \in DOMAIN store : store[x].topic = x /\ Kept(store[x])}

(* What a tab holds of the symbol, whichever of its sessions are open. *)
Follows(t) ==
    LET r == tab[t]
    IN  events[t] = 0 /\ ~r.ignored =>
            /\ r.select = curSymbol
            /\ r.conn.open => r.conn.topics = {curSymbol}
            /\ r.page = "orderbook" =>
                  /\ r.title = curSymbol
                  /\ r.main.open => r.main.topics = {Topic("orderBook", curSymbol)}

(* The table shows the stored list, or the last list on its way to it will be. *)
ShownBy(queue, rows, store) ==
    Submitted \in DOMAIN store =>
        /\ (\A i \in DOMAIN queue : queue[i].topic # Submitted)
              => rows = OrEmpty(store[Submitted].rows)
        /\ \A i \in DOMAIN queue :
              /\ queue[i].topic = Submitted
              /\ \A j \in DOMAIN queue : j > i => queue[j].topic # Submitted
              => queue[i].rows = store[Submitted].rows

Shown(t) ==
    Submitted \in tab[t].main.topics
        => ShownBy(inbox[t], tables[t]["submittedOrders"], stored)

WebInv == TypeOK /\ \A t \in Tabs : Follows(t) /\ Shown(t)

--------------------------------------------------------------------------------
(* Rows, lists and messages. *)

\* A table that is written over and cut holds the new list, whatever rows it had.
LEMMA CutOverwritten ==
    ASSUME NEW S, NEW rows \in Seq(S), NEW data \in Seq(S)
    PROVE  /\ Overwritten(rows, data) \in Seq(S)
           /\ Cut(Overwritten(rows, data), data) = data
<1> DEFINE over == Overwritten(rows, data)
           n == IF Len(rows) > Len(data) THEN Len(rows) ELSE Len(data)
<1>1. /\ n \in Nat /\ n >= Len(data) /\ n >= Len(rows) /\ Len(data) \in Nat
      /\ (n = Len(rows) \/ n = Len(data))
  OBVIOUS
<1>2. \A i \in 1..n : (IF i <= Len(data) THEN data[i] ELSE rows[i]) \in S
  BY <1>1, ElementOfSeq
<1>3. over \in [1..n -> S]
  BY <1>2 DEF Overwritten
<1>4. over \in Seq(S) /\ Len(over) = n
  BY <1>1, <1>3
<1>5. \A i \in 1..Len(data) : over[i] = data[i]
  BY <1>1 DEF Overwritten
<1> HIDE DEF n, over
<1>6. (IF Len(over) < Len(data) THEN Len(over) ELSE Len(data)) = Len(data)
  BY <1>1, <1>4
<1>7. Cut(over, data) = SubSeq(over, 1, Len(data))
  BY <1>6 DEF Cut
<1>8. /\ SubSeq(over, 1, Len(data)) \in Seq(S)
      /\ Len(SubSeq(over, 1, Len(data))) = Len(data)
      /\ \A i \in 1..Len(data) : SubSeq(over, 1, Len(data))[i] = over[i]
  BY <1>1, <1>4, SubSeqProperties
<1>9. SubSeq(over, 1, Len(data)) = data
  BY <1>5, <1>8, SeqEqual
<1> QED BY <1>4, <1>7, <1>9 DEF over

\* A list of the user or of a book is a sequence of the entries or levels.
LEMMA ListsAreSequences ==
    /\ UserLists \subseteq Seq(Entries)
    /\ \A l \in Books : Zero \notin Range(l) => l \in Seq(Levels)
    /\ Books \cup {<<Zero>>} \subseteq Seq(Levels \cup {Zero})
<1>1. ASSUME NEW l, NEW S, l \in Seq(Range(l)), Range(l) \subseteq S PROVE l \in Seq(S)
  <2> DEFINE R == Range(l)
  <2> HIDE DEF R
  <2>1. l \in Seq(R) /\ R \subseteq S
    BY <1>1 DEF R
  <2>2. Len(l) \in Nat /\ l \in [1..Len(l) -> R]
    BY <2>1
  <2>3. l \in [1..Len(l) -> S]
    BY <2>1, <2>2
  <2> QED BY <2>2, <2>3
<1>2. ASSUME NEW l \in UserLists PROVE l \in Seq(Entries)
  <2>1. Range(l) \in {Range(k) : k \in UserLists}
    OBVIOUS
  <2>2. Range(l) \subseteq Entries
    BY <2>1, Zenon DEF Entries
  <2> QED BY <1>1, <2>2, WebAssumption
<1>3. ASSUME NEW l \in Books, Zero \notin Range(l) PROVE l \in Seq(Levels)
  <2>1. Range(l) \in {Range(k) : k \in Books}
    OBVIOUS
  <2>2. Range(l) \subseteq Levels
    BY <1>3, <2>1, Zenon DEF Levels
  <2> QED BY <1>1, <2>2, WebAssumption
<1>4. ASSUME NEW l \in Books PROVE l \in Seq(Levels \cup {Zero})
  <2>1. Range(l) \in {Range(k) : k \in Books}
    OBVIOUS
  <2>2. Range(l) \subseteq Levels \cup {Zero}
    BY <2>1, Zenon DEF Levels
  <2> QED BY <1>1, <2>2, WebAssumption
<1>5. <<Zero>> \in Seq(Levels \cup {Zero})
  OBVIOUS
<1>6. Books \cup {<<Zero>>} \subseteq Seq(Levels \cup {Zero})
  BY <1>4, <1>5, Zenon
<1> QED BY <1>2, <1>3, <1>6, Zenon

\* What a handler leaves of the rows, for a list of entries.
LEMMA HandlersKeepEntries ==
    ASSUME NEW rows \in Seq(Entries), NEW data \in Seq(Entries)
    PROVE  /\ SubmittedRows(rows, data) = OrEmpty(data)
           /\ SubmittedRows(rows, data) \in Seq(Entries)
           /\ PortfolioRows(rows, data) \in Seq(Entries)
           /\ WaitingRows(rows, data) \in Seq(Entries)
<1> DEFINE old == WithoutEmpty(rows, data)
<1>1. old \in Seq(Entries)
  BY DEF WithoutEmpty
<1>2. \A l \in Seq(Entries) : OrEmpty(l) \in Seq(Entries)
  <2>1. Empty \in Entries
    BY DEF Entries
  <2> QED BY <2>1 DEF OrEmpty
<1> HIDE DEF old
<1>3. Overwritten(old, data) \in Seq(Entries) /\ Cut(Overwritten(old, data), data) = data
  BY <1>1, CutOverwritten
<1>4. SubmittedRows(rows, data) = OrEmpty(data)
  BY <1>3 DEF SubmittedRows, old
<1>5. PortfolioRows(rows, data) \in Seq(Entries)
  BY <1>2, <1>3 DEF PortfolioRows, old
<1>6. WaitingRows(rows, data) \in Seq(Entries)
  BY <1>1, <1>2, <1>3 DEF WaitingRows, old
<1> QED BY <1>2, <1>4, <1>5, <1>6

\* What the handler of an order book leaves of the rows.
LEMMA BookHandlerKeepsLevels ==
    ASSUME NEW rows \in Seq(Levels), NEW data \in Books \cup {<<Zero>>}
    PROVE  BookRows(rows, data) \in Seq(Levels)
<1>1. CASE Zero \in Range(data)
  BY <1>1 DEF BookRows
<1>2. CASE Zero \notin Range(data)
  <2>1. data # <<Zero>>
    BY <1>2 DEF Range
  <2>2. data \in Seq(Levels)
    BY <1>2, <2>1, ListsAreSequences
  <2>3. Cut(Overwritten(rows, data), data) = data
    BY <2>2, CutOverwritten
  <2> QED BY <1>2, <2>2, <2>3 DEF BookRows
<1> QED BY <1>1, <1>2

\* A message changes the rows of its table only into rows of that table.
LEMMA RowsTyped ==
    ASSUME NEW m \in Data, NEW rows \in Seq(IF m.table \in BookTypes THEN Levels ELSE Entries)
    PROVE  /\ m.table \in Tables
           /\ Rows(m, rows) \in Seq(IF m.table \in BookTypes THEN Levels ELSE Entries)
           /\ m.topic = Submitted => /\ m.table = "submittedOrders"
                                     /\ Rows(m, rows) = OrEmpty(m.rows)
           /\ m.table = "submittedOrders" => m.topic = Submitted
<1>1. CASE m \in BookData
  <2>1. /\ m.topic.list = "orderBook" /\ m.table \in BookTypes
        /\ m.rows \in Books \cup {<<Zero>>}
    BY <1>1 DEF BookData
  <2>2. m.table # "submittedOrders" /\ m.topic # Submitted
    BY <2>1, WebAssumption DEF Lists, Submitted, Topic
  <2>3. Rows(m, rows) = BookRows(rows, m.rows)
    BY <2>1 DEF Rows
  <2>4. BookRows(rows, m.rows) \in Seq(Levels)
    BY <2>1, BookHandlerKeepsLevels
  <2> QED BY <2>1, <2>2, <2>3, <2>4 DEF Tables
<1>2. CASE m \in ListData /\ m.table = m.topic.list
  <2>1. /\ m.topic \in [list : Lists, symbol : {"user"}] /\ m.table \in Lists
        /\ m.rows \in UserLists /\ m.table = m.topic.list
    BY <1>2 DEF ListData
  <2>2. m.table \notin BookTypes
    BY <2>1, WebAssumption
  <2>3. rows \in Seq(Entries) /\ m.rows \in Seq(Entries)
    BY <2>1, <2>2, ListsAreSequences
  <2>4. m.topic = Submitted <=> m.table = "submittedOrders"
    BY <2>1 DEF Submitted, Topic
  <2>5. /\ m.table = "submittedOrders" => Rows(m, rows) = SubmittedRows(rows, m.rows)
        /\ m.table = "portfolio" => Rows(m, rows) = PortfolioRows(rows, m.rows)
        /\ m.table = "waitingList" => Rows(m, rows) = WaitingRows(rows, m.rows)
    BY <2>1 DEF Rows
  <2>6. /\ SubmittedRows(rows, m.rows) = OrEmpty(m.rows)
        /\ SubmittedRows(rows, m.rows) \in Seq(Entries)
        /\ PortfolioRows(rows, m.rows) \in Seq(Entries)
        /\ WaitingRows(rows, m.rows) \in Seq(Entries)
    BY <2>3, HandlersKeepEntries
  <2>7. Rows(m, rows) \in Seq(Entries)
    BY <2>1, <2>5, <2>6 DEF Lists
  <2>8. m.topic = Submitted => Rows(m, rows) = OrEmpty(m.rows)
    BY <2>4, <2>5, <2>6
  <2> QED BY <2>1, <2>2, <2>4, <2>7, <2>8 DEF Tables
<1> QED BY <1>1, <1>2 DEF Data

\* SetToSeq gives a sequence of the elements of a finite set.
LEMMA SetToSeqType ==
    ASSUME NEW S, IsFiniteSet(S)
    PROVE  /\ SetToSeq(S) \in Seq(S)
           /\ S = {} => SetToSeq(S) = <<>>
           /\ \A e : S = {e} => SetToSeq(S) = <<e>>
<1>1. PICK f \in Bijection(1..Cardinality(S), S) : TRUE
  BY FS_CardinalityType DEF ExistsBijection
<1>2. Cardinality(S) \in Nat
  BY FS_CardinalityType
<1>3. f \in [1..Cardinality(S) -> S] /\ IsInjective(f)
  BY <1>1 DEF Bijection, Injection
<1>4. SetToSeq(S) \in [1..Cardinality(S) -> S]
  BY <1>3 DEF SetToSeq
<1>5. SetToSeq(S) \in Seq(S) /\ Len(SetToSeq(S)) = Cardinality(S)
  BY <1>2, <1>4
<1>6. ASSUME S = {} PROVE SetToSeq(S) = <<>>
  BY <1>5, <1>6, FS_EmptySet
<1>7. ASSUME NEW e, S = {e} PROVE SetToSeq(S) = <<e>>
  <2>1. Cardinality(S) = 1
    BY <1>7, FS_Singleton
  <2>2. SetToSeq(S) \in [1..1 -> {e}]
    BY <1>4, <1>7, <2>1
  <2> DEFINE q == SetToSeq(S)
  <2> HIDE DEF q
  <2>3. q \in [1..1 -> {e}]
    BY <2>2 DEF q
  <2>4. q[1] = e
    BY <2>3
  <2>5. q \in Seq({e}) /\ Len(q) = 1
    BY <1>5, <1>7, <2>1 DEF q
  <2>6. <<e>> \in Seq({e}) /\ Len(<<e>>) = 1 /\ <<e>>[1] = e
    OBVIOUS
  <2>7. q = <<e>>
    BY <2>4, <2>5, <2>6, SeqEqual
  <2> QED BY <2>7 DEF q
<1> QED BY <1>5, <1>6, <1>7

(* The value after each of n steps from "first". *)
Steps(S, n) == [1..n -> [S -> S]]
Trail(g, S, n, first, step) ==
    /\ g \in [0..n -> S] /\ g[0] = first
    /\ \A k \in 1..n : g[k] = step[k][g[k - 1]]

\* The functions that follow a sequence of messages one by one exist.
LEMMA StepsExist ==
    ASSUME NEW S, NEW n \in Nat, NEW first \in S, NEW step \in Steps(S, n)
    PROVE  \E g : Trail(g, S, n, first, step)
<1> USE DEF Steps
<1> DEFINE Good(g, k) == /\ g \in [0..n -> S] /\ g[0] = first
                         /\ \A j \in 1..k : g[j] = step[j][g[j - 1]]
           P == {k \in Nat : k <= n => \E g : Good(g, k)}
<1>1. 0 \in P
  <2>1. Good([k \in 0..n |-> first], 0)
    OBVIOUS
  <2> QED BY <2>1
<1>2. ASSUME NEW k \in P PROVE k + 1 \in P
  <2>1. SUFFICES ASSUME k + 1 <= n PROVE \E g : Good(g, k + 1)
    OBVIOUS
  <2>2. PICK g : Good(g, k)
    BY <2>1
  <2> DEFINE h == [g EXCEPT ![k + 1] = step[k + 1][g[k]]]
  <2>3. k + 1 \in 1..n /\ k \in 0..n /\ k + 1 \in 0..n /\ g[k] \in S
    BY <2>1, <2>2
  <2>4. step[k + 1][g[k]] \in S
    BY <2>3
  <2>5. /\ h \in [0..n -> S] /\ h[k + 1] = step[k + 1][g[k]]
        /\ \A j \in 0..k : h[j] = g[j]
    BY <2>2, <2>3, <2>4
  <2> HIDE DEF h
  <2>6. h[0] = first
    BY <2>2, <2>5
  <2>7. ASSUME NEW j \in 1..(k + 1) PROVE h[j] = step[j][h[j - 1]]
    <3>1. CASE j = k + 1
      BY <2>5, <3>1
    <3>2. CASE j # k + 1
      <4>1. j \in 1..k /\ j - 1 \in 0..k /\ j \in 0..k
        BY <3>2
      <4> QED BY <2>2, <2>5, <4>1
    <3> QED BY <3>1, <3>2
  <2>8. Good(h, k + 1)
    BY <2>5, <2>6, <2>7
  <2> QED BY <2>8
<1>3. n \in P
  <2> HIDE DEF P
  <2>1. P \in SUBSET Nat
    BY DEF P
  <2> QED BY <1>1, <1>2, <2>1, NatInductionBySet
<1> QED BY <1>3 DEF Trail

\* A message has a topic.
LEMMA DataTopics == \A m \in Data : m.topic \in Topics
BY DEF Data, BookData, ListData, Topics

\* What a message leaves in the push server.
LEMMA AfterDataTyped ==
    ASSUME NEW store \in Stores, NEW m \in Data
    PROVE  AfterData(store, m) \in Stores
<1>1. CASE ~Kept(m)
  BY <1>1 DEF AfterData
<1>2. CASE Kept(m)
  <2> DEFINE D == DOMAIN store \cup {m.topic}
             new == [x \in D |-> IF x = m.topic THEN m ELSE store[x]]
  <2>1. PICK E \in SUBSET Topics : store \in [E -> Data]
    BY DEF Stores
  <2>2. D \in SUBSET Topics
    BY <2>1, DataTopics
  <2>3. \A x \in D : x # m.topic => x \in DOMAIN store /\ store[x] \in Data
    BY <2>1
  <2>4. new \in [D -> Data]
    BY <2>3
  <2>5. \A x \in D : new[x].topic = x /\ Kept(new[x])
    BY <1>2, <2>3 DEF Stores
  <2>6. DOMAIN new = D
    OBVIOUS
  <2> HIDE DEF new
  <2>7. new \in UNION {[F -> Data] : F \in SUBSET Topics}
    BY <2>2, <2>4
  <2>8. new \in Stores
    BY <2>5, <2>6, <2>7 DEF Stores
  <2> QED BY <1>2, <2>8 DEF AfterData, new
<1> QED BY <1>1, <1>2

\* StoredAfter follows the messages one by one.
LEMMA StoredAfterSteps ==
    ASSUME stored \in Stores, NEW messages \in Seq(Data)
    PROVE  \E a \in [0..Len(messages) -> Stores] :
              /\ a[0] = stored
              /\ \A k \in 1..Len(messages) : a[k] = AfterData(a[k - 1], messages[k])
              /\ StoredAfter(messages) = a[Len(messages)]
<1> DEFINE n == Len(messages)
           Eq(f) == f = [k \in 0..n |-> IF k = 0 THEN stored
                                        ELSE AfterData(f[k - 1], messages[k])]
           a == CHOOSE f : Eq(f)
           step == [k \in 1..n |-> [s \in Stores |-> AfterData(s, messages[k])]]
<1>1. n \in Nat /\ \A k \in 1..n : messages[k] \in Data
  BY ElementOfSeq
<1>2. step \in [1..n -> [Stores -> Stores]]
  BY <1>1, AfterDataTyped
<1>3. PICK g \in [0..n -> Stores] :
          g[0] = stored /\ \A k \in 1..n : g[k] = step[k][g[k - 1]]
  <2>1. n \in Nat /\ stored \in Stores /\ step \in Steps(Stores, n)
    BY <1>1, <1>2 DEF Steps
  <2> HIDE DEF step, n
  <2>2. PICK g : Trail(g, Stores, n, stored, step)
    BY <2>1, StepsExist
  <2> QED BY <2>2 DEF Trail
<1>4. \A k \in 1..n : g[k - 1] \in Stores /\ g[k] = AfterData(g[k - 1], messages[k])
  <2>1. \A k \in 1..n : k - 1 \in 0..n
    BY <1>1
  <2> QED BY <1>3, <2>1
<1>5. Eq(g)
  <2>1. \A k \in 0..n : k = 0 \/ k \in 1..n
    BY <1>1
  <2>2. \A k \in 0..n : g[k] = IF k = 0 THEN stored ELSE AfterData(g[k - 1], messages[k])
    BY <1>3, <1>4, <2>1
  <2> QED BY <1>3, <2>2
<1>6. Eq(a)
  BY <1>5
<1> HIDE DEF a
<1>7. /\ a[0] = stored
      /\ \A k \in 1..n : a[k] = AfterData(a[k - 1], messages[k])
      /\ DOMAIN a = 0..n /\ a = [k \in 0..n |-> a[k]]
  BY <1>1, <1>6
<1> DEFINE P == {k \in Nat : k <= n => a[k] \in Stores}
<1>8. 0 \in P
  <2>1. a[0] \in Stores
    BY <1>7, Zenon
  <2> HIDE DEF n
  <2> QED BY <2>1
<1>9. ASSUME NEW k \in P PROVE k + 1 \in P
  <2>1. ASSUME k + 1 <= n PROVE a[k + 1] \in Stores
    <3>1. a[k] \in Stores /\ k + 1 \in 1..n /\ messages[k + 1] \in Data
      BY <1>1, <2>1
    <3>2. (k + 1) - 1 = k
      OBVIOUS
    <3>3. a[k + 1] = AfterData(a[(k + 1) - 1], messages[k + 1])
      BY <1>7, <3>1, Zenon
    <3>4. a[k + 1] = AfterData(a[k], messages[k + 1])
      BY <3>2, <3>3, Zenon
    <3> QED BY <3>1, <3>4, AfterDataTyped
  <2> QED BY <2>1
<1>10. P = Nat
  <2> HIDE DEF P
  <2>1. P \in SUBSET Nat
    BY DEF P
  <2> QED BY <1>8, <1>9, <2>1, NatInductionBySet
<1>11. \A k \in 0..n : a[k] \in Stores
  BY <1>1, <1>10
<1>12. a \in [0..n -> Stores]
  BY <1>7, <1>11
<1>13. StoredAfter(messages) = a[n]
  BY DEF StoredAfter, a
<1> QED BY <1>7, <1>12, <1>13

\* PassedOn follows the messages one by one.
LEMMA PassedOnSteps ==
    ASSUME NEW t, NEW messages \in Seq(Data)
    PROVE  \E a \in [0..Len(messages) -> Seq(Data)] :
              /\ a[0] = <<>>
              /\ \A k \in 1..Len(messages) :
                    a[k] = IF messages[k].topic \in tab[t].main.topics
                           THEN Append(a[k - 1], messages[k]) ELSE a[k - 1]
              /\ PassedOn(t, messages) = a[Len(messages)]
<1> DEFINE n == Len(messages)
           To(q, k) == IF messages[k].topic \in tab[t].main.topics
                       THEN Append(q, messages[k]) ELSE q
           Eq(f) == f = [k \in 0..n |-> IF k = 0 THEN <<>> ELSE To(f[k - 1], k)]
           a == CHOOSE f : Eq(f)
           step == [k \in 1..n |-> [q \in Seq(Data) |-> To(q, k)]]
<1>1. n \in Nat /\ \A k \in 1..n : messages[k] \in Data
  BY ElementOfSeq
<1>2. \A k \in 1..n : \A q \in Seq(Data) : To(q, k) \in Seq(Data)
  BY <1>1
<1>3. PICK g \in [0..n -> Seq(Data)] :
          g[0] = <<>> /\ \A k \in 1..n : g[k] = step[k][g[k - 1]]
  <2> HIDE DEF To
  <2>1. n \in Nat /\ <<>> \in Seq(Data) /\ step \in Steps(Seq(Data), n)
    BY <1>1, <1>2 DEF Steps
  <2> HIDE DEF step, n
  <2>2. PICK g : Trail(g, Seq(Data), n, <<>>, step)
    BY <2>1, StepsExist
  <2> QED BY <2>2 DEF Trail
<1> HIDE DEF To
<1>4. \A k \in 1..n : g[k - 1] \in Seq(Data) /\ g[k] = To(g[k - 1], k)
  <2>1. \A k \in 1..n : k - 1 \in 0..n
    BY <1>1
  <2> QED BY <1>3, <2>1
<1>5. Eq(g)
  <2>1. \A k \in 0..n : k = 0 \/ k \in 1..n
    BY <1>1
  <2>2. \A k \in 0..n : g[k] = IF k = 0 THEN <<>> ELSE To(g[k - 1], k)
    BY <1>3, <1>4, <2>1
  <2> QED BY <1>3, <2>2
<1>6. Eq(a)
  BY <1>5
<1> HIDE DEF a
<1>7. /\ a[0] = <<>>
      /\ \A k \in 1..n : a[k] = To(a[k - 1], k)
      /\ DOMAIN a = 0..n /\ a = [k \in 0..n |-> a[k]]
  <2>1. a = [k \in 0..n |-> IF k = 0 THEN <<>> ELSE To(a[k - 1], k)]
    BY <1>6
  <2>2. 0 \in 0..n /\ \A k \in 1..n : k \in 0..n /\ k # 0
    BY <1>1
  <2> HIDE DEF n
  <2>3. DOMAIN a = 0..n
    BY <2>1
  <2>4. \A k \in 0..n : a[k] = IF k = 0 THEN <<>> ELSE To(a[k - 1], k)
    BY <2>1, Zenon
  <2>5. a = [k \in 0..n |-> a[k]]
    BY <2>1, <2>3
  <2> QED BY <2>2, <2>3, <2>4, <2>5
<1>8. a[0] = <<>>
  BY <1>7
<1>9. \A k \in 1..n : a[k] = IF messages[k].topic \in tab[t].main.topics
                              THEN Append(a[k - 1], messages[k]) ELSE a[k - 1]
  BY <1>7 DEF To
<1> DEFINE P == {k \in Nat : k <= n => a[k] \in Seq(Data)}
<1>10. 0 \in P
  <2>1. <<>> \in Seq(Data)
    OBVIOUS
  <2>2. a[0] \in Seq(Data)
    BY <1>8, <2>1, Zenon
  <2> HIDE DEF n
  <2> QED BY <2>2
<1>11. ASSUME NEW k \in P PROVE k + 1 \in P
  <2>1. ASSUME k + 1 <= n PROVE a[k + 1] \in Seq(Data)
    <3>1. a[k] \in Seq(Data) /\ k + 1 \in 1..n /\ messages[k + 1] \in Data
      BY <1>1, <2>1
    <3>2. a[k + 1] = IF messages[k + 1].topic \in tab[t].main.topics
                     THEN Append(a[k], messages[k + 1]) ELSE a[k]
      BY <1>9, <3>1
    <3> QED BY <3>1, <3>2
  <2> QED BY <2>1
<1>12. P = Nat
  <2> HIDE DEF P
  <2>1. P \in SUBSET Nat
    BY DEF P
  <2> QED BY <1>10, <1>11, <2>1, NatInductionBySet
<1>13. \A k \in 0..n : a[k] \in Seq(Data)
  BY <1>1, <1>12
<1>14. a \in [0..n -> Seq(Data)]
  BY <1>7, <1>13
<1>15. PassedOn(t, messages) = a[n]
  BY DEF PassedOn, a, To
<1> QED BY <1>8, <1>9, <1>14, <1>15

\* A message that reaches the store and the tab keeps what the tab will show.
LEMMA ShownPassed ==
    ASSUME NEW store \in Stores, NEW queue \in Seq(Data), NEW rows, NEW m \in Data,
           ShownBy(queue, rows, store)
    PROVE  ShownBy(Append(queue, m), rows, AfterData(store, m))
<1> DEFINE new == AfterData(store, m)
           q == Append(queue, m)
<1>1. /\ Len(queue) \in Nat /\ Len(q) = Len(queue) + 1
      /\ DOMAIN queue = 1..Len(queue) /\ DOMAIN q = 1..(Len(queue) + 1)
      /\ \A i \in 1..Len(queue) : q[i] = queue[i]
      /\ q[Len(queue) + 1] = m
  OBVIOUS
<1> HIDE DEF q
<1>2. SUFFICES ASSUME Submitted \in DOMAIN new PROVE ShownBy(q, rows, new)
  BY DEF ShownBy, q
<1>3. CASE m.topic = Submitted
  <2>1. Kept(m)
    BY <1>3 DEF Kept, Submitted, Topic
  <2>2. new[Submitted] = m
    BY <1>3, <2>1 DEF AfterData
  <2>3. ASSUME NEW i \in DOMAIN q, q[i].topic = Submitted,
               \A j \in DOMAIN q : j > i => q[j].topic # Submitted
        PROVE  q[i].rows = new[Submitted].rows
    <3>1. ~(i < Len(queue) + 1)
      BY <1>1, <1>3, <2>3
    <3>2. i = Len(queue) + 1
      BY <1>1, <3>1
    <3> QED BY <1>1, <2>2, <3>2
  <2>4. ~(\A i \in DOMAIN q : q[i].topic # Submitted)
    BY <1>1, <1>3
  <2> HIDE DEF new
  <2> QED BY <2>3, <2>4 DEF ShownBy
<1>4. CASE m.topic # Submitted
  <2>1. Submitted \in DOMAIN store /\ new[Submitted] = store[Submitted]
    BY <1>2, <1>4 DEF AfterData
  <2> HIDE DEF new
  <2>2. ASSUME \A i \in DOMAIN q : q[i].topic # Submitted
        PROVE  rows = OrEmpty(new[Submitted].rows)
    <3>1. \A i \in DOMAIN queue : queue[i].topic # Submitted
      BY <1>1, <2>2
    <3> QED BY <2>1, <3>1 DEF ShownBy
  <2>3. ASSUME NEW i \in DOMAIN q, q[i].topic = Submitted,
               \A j \in DOMAIN q : j > i => q[j].topic # Submitted
        PROVE  q[i].rows = new[Submitted].rows
    <3>1. i \in DOMAIN queue /\ q[i] = queue[i]
      BY <1>1, <1>4, <2>3
    <3>2. \A j \in DOMAIN queue : j > i => queue[j].topic # Submitted
      BY <1>1, <2>3
    <3> QED BY <2>1, <2>3, <3>1, <3>2 DEF ShownBy
  <2> QED BY <2>2, <2>3 DEF ShownBy
<1> QED BY <1>3, <1>4

\* A message about something else that does not reach the tab changes nothing for it.
LEMMA ShownSkipped ==
    ASSUME NEW store \in Stores, NEW queue, NEW rows, NEW m \in Data,
           m.topic # Submitted, ShownBy(queue, rows, store)
    PROVE  ShownBy(queue, rows, AfterData(store, m))
<1>1. Submitted \in DOMAIN AfterData(store, m)
         => Submitted \in DOMAIN store /\ AfterData(store, m)[Submitted] = store[Submitted]
  BY DEF AfterData
<1> QED BY <1>1 DEF ShownBy

\* To append to the second of two sequences is to append to both.
LEMMA ConcatAppend ==
    ASSUME NEW S, NEW q \in Seq(S), NEW p \in Seq(S), NEW m \in S
    PROVE  q \o Append(p, m) = Append(q \o p, m)
<1> DEFINE a == q \o Append(p, m)
           b == Append(q \o p, m)
<1>1. /\ Len(q) \in Nat /\ Len(p) \in Nat /\ Append(p, m) \in Seq(S)
      /\ Len(Append(p, m)) = Len(p) + 1 /\ q \o p \in Seq(S)
      /\ Len(q \o p) = Len(q) + Len(p)
  OBVIOUS
<1>2. a \in Seq(S) /\ Len(a) = Len(q) + Len(p) + 1
  BY <1>1
<1>3. b \in Seq(S) /\ Len(b) = Len(q) + Len(p) + 1
  BY <1>1
<1>4. ASSUME NEW i \in 1..(Len(q) + Len(p) + 1) PROVE a[i] = b[i]
  <2>1. CASE i <= Len(q)
    BY <1>1, <2>1
  <2>2. CASE i > Len(q)
    BY <1>1, <2>2
  <2> QED BY <1>1, <2>1, <2>2
<1> HIDE DEF a, b
<1>5. a = b
  BY <1>2, <1>3, <1>4, SeqEqual
<1> QED BY <1>5 DEF a, b

\* What may be stored, as the type invariant says it.
LEMMA StoresTyped ==
    ASSUME NEW store
    PROVE  store \in Stores
             <=> /\ store \in [DOMAIN store -> Data]
                 /\ \A x \in DOMAIN store : store[x].topic = x /\ Kept(store[x])
<1>1. ASSUME store \in [DOMAIN store -> Data],
             \A x \in DOMAIN store : store[x].topic = x /\ Kept(store[x])
      PROVE  store \in Stores
  <2>1. DOMAIN store \in SUBSET Topics
    BY <1>1, DataTopics
  <2>2. store \in UNION {[D -> Data] : D \in SUBSET Topics}
    BY <1>1, <2>1
  <2> QED BY <1>1, <2>2 DEF Stores
<1>2. ASSUME store \in Stores
      PROVE  /\ store \in [DOMAIN store -> Data]
             /\ \A x \in DOMAIN store : store[x].topic = x /\ Kept(store[x])
  <2>1. PICK D \in SUBSET Topics : store \in [D -> Data]
    BY <1>2 DEF Stores
  <2> QED BY <1>2, <2>1 DEF Stores
<1> QED BY <1>1, <1>2

\* The push server may pass on and store any messages.
LEMMA OnDataKept ==
    ASSUME WebInv, NEW messages \in Seq(Data), OnData(messages), UNCHANGED <<ticker, tables>>
    PROVE  /\ inbox' \in [Tabs -> Seq(Data)]
           /\ stored' \in Stores
           /\ \A t \in Tabs : Shown(t)'
<1>1. stored \in Stores /\ inbox \in [Tabs -> Seq(Data)]
  BY StoresTyped DEF WebInv, TypeOK
<1>2. Len(messages) \in Nat /\ \A k \in 1..Len(messages) : messages[k] \in Data
  BY ElementOfSeq
<1>3. PICK a \in [0..Len(messages) -> Stores] :
              /\ a[0] = stored
              /\ \A k \in 1..Len(messages) : a[k] = AfterData(a[k - 1], messages[k])
              /\ StoredAfter(messages) = a[Len(messages)]
  BY <1>1, StoredAfterSteps
<1>4. stored' = a[Len(messages)] /\ stored' \in Stores
  BY <1>2, <1>3 DEF OnData
<1>5. ASSUME NEW t \in Tabs
      PROVE  inbox[t] \o PassedOn(t, messages) \in Seq(Data) /\ Shown(t)'
  <2>1. PICK p \in [0..Len(messages) -> Seq(Data)] :
              /\ p[0] = <<>>
              /\ \A k \in 1..Len(messages) :
                    p[k] = IF messages[k].topic \in tab[t].main.topics
                           THEN Append(p[k - 1], messages[k]) ELSE p[k - 1]
              /\ PassedOn(t, messages) = p[Len(messages)]
    BY PassedOnSteps
  <2>2. PassedOn(t, messages) \in Seq(Data)
    BY <1>2, <2>1
  <2>3. PICK q : q = inbox[t] /\ q \in Seq(Data)
    BY <1>1
  <2>4. PICK rows : rows = tables[t]["submittedOrders"]
    OBVIOUS
  <2>5. inbox'[t] = q \o p[Len(messages)]
    BY <2>1, <2>3 DEF OnData
  <2>6. ASSUME Submitted \in tab[t].main.topics
        PROVE  ShownBy(inbox'[t], rows, stored')
    <3> DEFINE P == {k \in Nat : k <= Len(messages) => ShownBy(q \o p[k], rows, a[k])}
    <3>1. ShownBy(q, rows, stored)
      BY <2>3, <2>4, <2>6 DEF WebInv, Shown
    <3>2. q \o p[0] = q
      BY <2>1, <2>3
    <3>3. 0 \in P
      BY <1>3, <3>1, <3>2
    <3>4. ASSUME NEW k \in P PROVE k + 1 \in P
      <4>1. SUFFICES ASSUME k + 1 <= Len(messages)
                     PROVE  ShownBy(q \o p[k + 1], rows, a[k + 1])
        OBVIOUS
      <4>2. PICK m \in Data : m = messages[k + 1]
        BY <1>2, <4>1
      <4>3. k \in 0..Len(messages) /\ k + 1 \in 1..Len(messages) /\ (k + 1) - 1 = k
        BY <1>2, <4>1
      <4>4. ShownBy(q \o p[k], rows, a[k])
        BY <4>3
      <4>5. a[k] \in Stores /\ p[k] \in Seq(Data) /\ q \o p[k] \in Seq(Data)
        BY <2>3, <4>3
      <4>6. a[k + 1] = AfterData(a[k], m)
        BY <1>3, <4>2, <4>3
      <4>7. CASE m.topic \in tab[t].main.topics
        <5>1. p[k + 1] = Append(p[k], m)
          BY <2>1, <4>2, <4>3, <4>7
        <5>2. q \o Append(p[k], m) = Append(q \o p[k], m)
          <6>1. PICK s : s = p[k] /\ s \in Seq(Data)
            BY <4>5
          <6>2. q \in Seq(Data)
            BY <2>3
          <6>3. q \o Append(s, m) = Append(q \o s, m)
            BY <6>1, <6>2, ConcatAppend
          <6> QED BY <6>1, <6>3
        <5>3. ShownBy(Append(q \o p[k], m), rows, AfterData(a[k], m))
          BY <4>4, <4>5, ShownPassed
        <5> QED BY <4>6, <5>1, <5>2, <5>3
      <4>8. CASE m.topic \notin tab[t].main.topics
        <5>1. p[k + 1] = p[k]
          BY <2>1, <4>2, <4>3, <4>8
        <5>2. m.topic # Submitted
          BY <2>6, <4>8
        <5>3. ShownBy(q \o p[k], rows, AfterData(a[k], m))
          BY <4>4, <4>5, <5>2, ShownSkipped
        <5> QED BY <4>6, <5>1, <5>3
      <4> QED BY <4>7, <4>8
    <3>5. P = Nat
      <4> HIDE DEF P
      <4>1. P \in SUBSET Nat
        BY DEF P
      <4> QED BY <3>3, <3>4, <4>1, NatInductionBySet
    <3>6. ShownBy(q \o p[Len(messages)], rows, a[Len(messages)])
      BY <1>2, <3>5
    <3> QED BY <1>4, <2>5, <3>6
  <2>7. tab' = tab /\ tables' = tables
    BY DEF ticker
  <2>8. Shown(t)'
    BY <2>4, <2>6, <2>7 DEF Shown
  <2> QED BY <1>1, <2>2, <2>8
<1>6. inbox' \in [Tabs -> Seq(Data)]
  BY <1>5 DEF OnData
<1> QED BY <1>4, <1>5, <1>6

\* The messages that the backend sends for a category, or in a second.
LEMMA MessagesTyped ==
    ASSUME TypeOK
    PROVE  /\ BookMessages \in Seq(Data)
           /\ \A l \in Lists : \A rows \in UserLists :
                 [ListMessage(l) EXCEPT !.rows = rows] \in Data
           /\ \A l \in Lists : ListMessage(l) \in Data
           /\ \A c \in Lists \cup {"orderBook"} : Messages(c) \in Seq(Data)
<1>1. BookMessages \in Seq(Data)
  <2> DEFINE pairs == Symbols \X BookTypes
             all == SetToSeq(pairs)
             rows(x) == IF books[x] = <<>> THEN <<Zero>> ELSE books[x]
             msg(i) == Message(Topic("orderBook", all[i][1]), all[i][2], rows(all[i]))
  <2>1. IsFiniteSet(Symbols)
    <3>1. Len(StockList) \in Nat /\ StockList \in [1..Len(StockList) -> Symbols]
      BY WebAssumption
    <3>2. IsFiniteSet(1..Len(StockList))
      BY <3>1, FS_Interval
    <3>3. StockList \in Surjection(1..Len(StockList), Symbols)
      BY <3>1 DEF Surjection, Symbols, Range
    <3> QED BY <3>2, <3>3, FS_Surjection
  <2>2. IsFiniteSet(pairs)
    BY <2>1, FS_Product, WebAssumption
  <2> HIDE DEF pairs
  <2>3. all \in Seq(pairs)
    BY <2>2, SetToSeqType
  <2> HIDE DEF all
  <2>4. Len(all) \in Nat /\ \A i \in 1..Len(all) : all[i] \in pairs
    BY <2>3, ElementOfSeq
  <2>5. ASSUME NEW i \in 1..Len(all) PROVE msg(i) \in Data
    <3>1. PICK s \in Symbols, b \in BookTypes : all[i] = <<s, b>>
      BY <2>4 DEF pairs
    <3>2. rows(all[i]) \in Books \cup {<<Zero>>}
      <4>1. books[all[i]] \in Books
        BY <3>1 DEF TypeOK
      <4> QED BY <4>1
    <3> HIDE DEF rows
    <3>3. msg(i) = Message(Topic("orderBook", s), b, rows(all[i]))
      BY <3>1
    <3> QED BY <3>2, <3>3 DEF Message, Topic, Data, BookData
  <2>6. BookMessages = [i \in 1..Len(all) |-> msg(i)]
    BY <2>3 DEF BookMessages, all, pairs
  <2> HIDE DEF msg
  <2> QED BY <2>4, <2>5, <2>6
<1>2. ASSUME NEW l \in Lists, NEW rows \in UserLists
      PROVE  /\ [ListMessage(l) EXCEPT !.rows = rows] \in Data
             /\ ListMessage(l) \in Data
  <2>1. lists[l] \in UserLists
    BY DEF TypeOK
  <2> QED BY <2>1 DEF ListMessage, Message, Topic, Data, ListData
<1>3. \A l \in Lists : ListMessage(l) \in Data
  BY <1>2, WebAssumption
<1>4. ASSUME NEW c \in Lists \cup {"orderBook"} PROVE Messages(c) \in Seq(Data)
  <2>1. CASE c = "orderBook"
    BY <1>1, <2>1 DEF Messages
  <2>2. CASE c # "orderBook"
    <3>1. ListMessage(c) \in Data
      BY <1>3, <2>2
    <3>2. <<ListMessage(c)>> \in Seq(Data)
      BY <3>1
    <3> QED BY <2>2, <3>2 DEF Messages
  <2> QED BY <2>1, <2>2
<1> QED BY <1>1, <1>2, <1>3, <1>4

--------------------------------------------------------------------------------
(* The tabs. *)

\* A page that was just loaded, and its tables.
LEMMA LoadedTyped ==
    ASSUME NEW page \in Pages, NEW s \in Symbols
    PROVE  /\ Loaded(page, s) \in Tab
           /\ NoRows \in [Tables -> Seq(Levels \cup Entries)]
           /\ \A n \in Tables : NoRows[n] \in Seq(IF n \in BookTypes THEN Levels ELSE Entries)
<1>1. NoSession \in Session(Symbols) /\ NoSession \in Session(Topics)
  BY DEF NoSession, Session
<1>2. Loaded(page, s) \in Tab
  BY <1>1 DEF Loaded, Tab
<1>3. \A S : <<>> \in Seq(S)
  OBVIOUS
<1> QED BY <1>2, <1>3 DEF NoRows, Tables

\* A change of symbol in a page that goes on: a page that is not locked ignores it.
LEMMA FollowTyped ==
    ASSUME NEW r \in Tab, NEW s \in Symbols
    PROVE  /\ Follow(r, s) \in Tab
           /\ Follow(r, s).page = r.page /\ Follow(r, s).main = r.main
           /\ r.locked => Follow(r, s).select = s /\ ~Follow(r, s).conn.open
           /\ ~r.locked => Follow(r, s).ignored
<1>1. NoSession \in Session(Symbols) /\ ~NoSession.open
  BY DEF NoSession, Session
<1>2. CASE r.locked
  <2> DEFINE k == IF r.conn.open THEN r.leaked ELSE r.leaked + 1
  <2>1. k \in Nat
    BY DEF Tab
  <2>2. Restarted(r) = [r EXCEPT !.conn = NoSession, !.leaked = k]
    BY DEF Restarted, Tab
  <2> HIDE DEF k
  <2>3. Follow(r, s) = [r EXCEPT !.conn = NoSession, !.leaked = k, !.select = s, !.ignored = FALSE]
    BY <1>2, <2>2 DEF Follow, Tab
  <2> QED BY <1>1, <1>2, <2>1, <2>3 DEF Tab
<1>3. CASE ~r.locked
  <2>1. Follow(r, s) = [r EXCEPT !.ignored = TRUE]
    BY <1>3 DEF Follow
  <2> QED BY <1>3, <2>1 DEF Tab
<1> QED BY <1>2, <1>3

\* The neighbours of a symbol are symbols.
LEMMA NeighboursTyped ==
    ASSUME curSymbol \in Symbols
    PROVE  NextSymbol \in Symbols /\ PreSymbol \in Symbols
<1>1. PICK n \in Nat : /\ DOMAIN StockList = 1..n /\ n = Len(StockList) /\ n >= 1
                       /\ \A i \in 1..n : StockList[i] \in Symbols
  BY WebAssumption
<1>2. \E i \in DOMAIN StockList : StockList[i] = curSymbol
  BY DEF Symbols, Range
<1>3. Place \in 1..n
  BY <1>1, <1>2 DEF Place
<1> QED BY <1>1, <1>3 DEF NextSymbol, PreSymbol

\* What is unchanged keeps what is shown.
LEMMA ShownStays ==
    ASSUME WebInv, UNCHANGED <<tables, inbox, stored>>,
           \A u \in Tabs : tab'[u].main = tab[u].main
    PROVE  \A u \in Tabs : Shown(u)'
BY DEF WebInv, Shown

\* A page that is loaded again has no session yet.
LEMMA ReloadKept ==
    ASSUME WebInv, NEW t \in Tabs, NEW s \in Symbols, Reloads(t, s), UNCHANGED server
    PROVE  /\ tab' \in [Tabs -> Tab]
           /\ tab'[t] = Loaded(tab[t].page, s) /\ \A u \in Tabs \ {t} : tab'[u] = tab[u]
           /\ tables' \in [Tabs -> [Tables -> Seq(Levels \cup Entries)]]
           /\ \A u \in Tabs, n \in Tables :
                 tables'[u][n] \in Seq(IF n \in BookTypes THEN Levels ELSE Entries)
           /\ inbox' \in [Tabs -> Seq(Data)]
           /\ \A u \in Tabs : Shown(u)'
<1>1. tab \in [Tabs -> Tab] /\ tab[t].page \in Pages
  BY DEF WebInv, TypeOK, Tab
<1>2. Loaded(tab[t].page, s) \in Tab
  BY <1>1, LoadedTyped
<1>3. /\ tab' \in [Tabs -> Tab]
      /\ tab'[t] = Loaded(tab[t].page, s) /\ \A u \in Tabs \ {t} : tab'[u] = tab[u]
  BY <1>1, <1>2 DEF Reloads
<1>4. /\ NoRows \in [Tables -> Seq(Levels \cup Entries)]
      /\ \A n \in Tables : NoRows[n] \in Seq(IF n \in BookTypes THEN Levels ELSE Entries)
  BY <1>1, LoadedTyped
<1>5. /\ tables' \in [Tabs -> [Tables -> Seq(Levels \cup Entries)]]
      /\ tables'[t] = NoRows /\ \A u \in Tabs \ {t} : tables'[u] = tables[u]
  BY <1>4 DEF Reloads, WebInv, TypeOK
<1>6. \A u \in Tabs, n \in Tables :
         tables'[u][n] \in Seq(IF n \in BookTypes THEN Levels ELSE Entries)
  BY <1>4, <1>5 DEF WebInv, TypeOK
<1>7. /\ inbox' \in [Tabs -> Seq(Data)]
      /\ \A u \in Tabs \ {t} : inbox'[u] = inbox[u]
  BY DEF Reloads, WebInv, TypeOK
<1>8. Submitted \notin tab'[t].main.topics
  BY <1>3 DEF Loaded, NoSession
<1>9. ASSUME NEW u \in Tabs PROVE Shown(u)'
  <2>1. CASE u = t
    BY <1>8, <2>1 DEF Shown
  <2>2. CASE u # t
    BY <1>3, <1>5, <1>7, <2>2 DEF Shown, WebInv, server
  <2> QED BY <2>1, <2>2
<1> QED BY <1>3, <1>5, <1>6, <1>7, <1>9

\* A page that goes on keeps its session, tables and messages.
LEMMA GoesKept ==
    ASSUME WebInv, NEW t \in Tabs, NEW r \in Tab, r.main = tab[t].main, Goes(t, r),
           UNCHANGED server
    PROVE  /\ tab' \in [Tabs -> Tab]
           /\ tab'[t] = r /\ \A u \in Tabs \ {t} : tab'[u] = tab[u]
           /\ UNCHANGED <<tables, inbox>>
           /\ \A u \in Tabs : Shown(u)'
<1>1. /\ tab' \in [Tabs -> Tab]
      /\ tab'[t] = r /\ \A u \in Tabs \ {t} : tab'[u] = tab[u]
      /\ UNCHANGED <<tables, inbox>>
  BY DEF Goes, WebInv, TypeOK
<1>2. \A u \in Tabs : tab'[u].main = tab[u].main
  BY <1>1
<1> QED BY <1>1, <1>2, ShownStays DEF server

\* What the backend and the push server hold, when they do nothing, stays of its type.
LEMMA ServerStays ==
    ASSUME TypeOK, UNCHANGED server
    PROVE  /\ books' \in [Symbols \X BookTypes -> Books]
           /\ lists' \in [Lists -> UserLists]
           /\ requests' \subseteq Lists \cup {"orderBook"}
           /\ stored' \in [DOMAIN stored' -> Data]
           /\ \A x \in DOMAIN stored' : stored'[x].topic = x /\ Kept(stored'[x])
BY DEF TypeOK, server

--------------------------------------------------------------------------------
(* The steps. *)

\* A change of symbol: the tab follows it at once or lets it pass, the others get an event.
LEMMA RefreshSymbolKept ==
    ASSUME WebInv, NEW t \in Tabs, NEW s \in Symbols, NEW form \in BOOLEAN,
           RefreshSymbol(t, s, form)
    PROVE  WebInv'
<1> DEFINE reload == tab[t].page = "orderbook"
           chosen == IF form THEN [tab[t] EXCEPT !.select = s] ELSE tab[t]
<1>1. /\ curSymbol' = s /\ UNCHANGED server /\ inputs' = inputs + 1
      /\ reload => Reloads(t, s)
      /\ ~reload => Goes(t, Follow(chosen, s))
      /\ events' = [u \in Tabs |-> IF u = t THEN (IF reload THEN 0 ELSE events[u])
                                   ELSE IF s # curSymbol THEN events[u] + 1 ELSE events[u]]
  BY DEF RefreshSymbol, Input
<1>2. TypeOK
  BY DEF WebInv
<1>3. tab[t] \in Tab /\ chosen \in Tab /\ chosen.page = tab[t].page /\ chosen.main = tab[t].main
  <2>1. PICK r \in Tab : r = tab[t]
    BY <1>2 DEF TypeOK
  <2>2. /\ [r EXCEPT !.select = s] \in Tab
        /\ [r EXCEPT !.select = s].page = r.page /\ [r EXCEPT !.select = s].main = r.main
    BY DEF Tab
  <2> QED BY <2>1, <2>2
<1>4. events' \in [Tabs -> Nat] /\ inputs' \in Nat
  <2>1. \A u \in Tabs : events[u] \in Nat /\ inputs \in Nat
    BY <1>2 DEF TypeOK
  <2> QED BY <1>1, <2>1
<1> HIDE DEF chosen
<1>5. /\ Follow(chosen, s) \in Tab
      /\ Follow(chosen, s).page = tab[t].page /\ Follow(chosen, s).main = tab[t].main
      /\ \/ Follow(chosen, s).select = s /\ ~Follow(chosen, s).conn.open
         \/ Follow(chosen, s).ignored
  <2>1. chosen.locked \in BOOLEAN
    BY <1>3 DEF Tab
  <2> QED BY <1>3, <2>1, FollowTyped
<1>6. /\ tab' \in [Tabs -> Tab]
      /\ \A u \in Tabs \ {t} : tab'[u] = tab[u]
      /\ reload => tab'[t] = Loaded(tab[t].page, s)
      /\ ~reload => tab'[t] = Follow(chosen, s)
      /\ tables' \in [Tabs -> [Tables -> Seq(Levels \cup Entries)]]
      /\ \A u \in Tabs, n \in Tables :
            tables'[u][n] \in Seq(IF n \in BookTypes THEN Levels ELSE Entries)
      /\ inbox' \in [Tabs -> Seq(Data)]
      /\ \A u \in Tabs : Shown(u)'
  <2>1. CASE reload
    BY <1>1, <2>1, ReloadKept
  <2>2. CASE ~reload
    <3>1. PICK r \in Tab : r = Follow(chosen, s)
      BY <1>5
    <3>2. Goes(t, r) /\ r.main = tab[t].main
      BY <1>1, <1>5, <2>2, <3>1
    <3>3. /\ tab' \in [Tabs -> Tab]
          /\ tab'[t] = r /\ \A u \in Tabs \ {t} : tab'[u] = tab[u]
          /\ UNCHANGED <<tables, inbox>>
          /\ \A u \in Tabs : Shown(u)'
      BY <1>1, <3>2, GoesKept
    <3> QED BY <1>2, <2>2, <3>1, <3>3 DEF TypeOK
  <2> QED BY <2>1, <2>2
<1>7. TypeOK'
  BY <1>1, <1>2, <1>4, <1>6, ServerStays DEF TypeOK
<1>8. ASSUME NEW u \in Tabs PROVE Follows(u)'
  <2>1. CASE u = t /\ reload
    BY <1>1, <1>6, <2>1 DEF Follows, Loaded, NoSession
  <2>2. CASE u = t /\ ~reload
    BY <1>1, <1>5, <1>6, <2>2 DEF Follows
  <2>3. CASE u # t /\ s # curSymbol
    <3>1. events'[u] = events[u] + 1 /\ events[u] \in Nat
      BY <1>1, <1>2, <2>3 DEF TypeOK
    <3> QED BY <3>1 DEF Follows
  <2>4. CASE u # t /\ s = curSymbol
    <3>1. events'[u] = events[u] /\ tab'[u] = tab[u] /\ curSymbol' = curSymbol
      BY <1>1, <1>6, <2>4
    <3> QED BY <3>1 DEF Follows, WebInv
  <2> QED BY <2>1, <2>2, <2>3, <2>4
<1> QED BY <1>6, <1>7, <1>8 DEF WebInv

\* An event arrives: the page loads itself again, follows the symbol or lets it pass.
LEMMA StorageEventKept ==
    ASSUME WebInv, NEW t \in Tabs, StorageEvent(t) PROVE WebInv'
<1> DEFINE reload == tab[t].page = "orderbook" /\ tab[t].locked
<1>1. /\ curSymbol' = curSymbol /\ UNCHANGED server /\ inputs' = inputs
      /\ events[t] > 0 /\ events' = [events EXCEPT ![t] = IF reload THEN 0 ELSE events[t] - 1]
      /\ reload => Reloads(t, curSymbol)
      /\ ~reload => Goes(t, Follow(tab[t], curSymbol))
  BY DEF StorageEvent
<1>2. TypeOK
  BY DEF WebInv
<1>3. tab[t] \in Tab /\ curSymbol \in Symbols
  BY <1>2 DEF TypeOK
<1>4. /\ events' \in [Tabs -> Nat] /\ inputs' \in Nat
      /\ \A u \in Tabs \ {t} : events'[u] = events[u]
  <2>1. events \in [Tabs -> Nat] /\ inputs \in Nat
    BY <1>2 DEF TypeOK
  <2> QED BY <1>1, <2>1
<1>5. /\ Follow(tab[t], curSymbol) \in Tab
      /\ Follow(tab[t], curSymbol).page = tab[t].page
      /\ Follow(tab[t], curSymbol).main = tab[t].main
      /\ tab[t].locked => /\ Follow(tab[t], curSymbol).select = curSymbol
                          /\ ~Follow(tab[t], curSymbol).conn.open
      /\ ~tab[t].locked => Follow(tab[t], curSymbol).ignored
  BY <1>3, FollowTyped
<1>6. /\ tab' \in [Tabs -> Tab]
      /\ \A u \in Tabs \ {t} : tab'[u] = tab[u]
      /\ reload => tab'[t] = Loaded(tab[t].page, curSymbol)
      /\ ~reload => tab'[t] = Follow(tab[t], curSymbol)
      /\ tables' \in [Tabs -> [Tables -> Seq(Levels \cup Entries)]]
      /\ \A u \in Tabs, n \in Tables :
            tables'[u][n] \in Seq(IF n \in BookTypes THEN Levels ELSE Entries)
      /\ inbox' \in [Tabs -> Seq(Data)]
      /\ \A u \in Tabs : Shown(u)'
  <2>1. CASE reload
    <3>1. PICK s \in Symbols : s = curSymbol
      BY <1>3
    <3>2. Reloads(t, s)
      BY <1>1, <2>1, <3>1
    <3> QED BY <1>1, <2>1, <3>1, <3>2, ReloadKept
  <2>2. CASE ~reload
    <3>1. PICK r \in Tab : r = Follow(tab[t], curSymbol)
      BY <1>5
    <3>2. Goes(t, r) /\ r.main = tab[t].main
      BY <1>1, <1>5, <2>2, <3>1
    <3>3. /\ tab' \in [Tabs -> Tab]
          /\ tab'[t] = r /\ \A u \in Tabs \ {t} : tab'[u] = tab[u]
          /\ UNCHANGED <<tables, inbox>>
          /\ \A u \in Tabs : Shown(u)'
      BY <1>1, <3>2, GoesKept
    <3> QED BY <1>2, <2>2, <3>1, <3>3 DEF TypeOK
  <2> QED BY <2>1, <2>2
<1>7. TypeOK'
  BY <1>1, <1>2, <1>4, <1>6, ServerStays DEF TypeOK
<1>8. ASSUME NEW u \in Tabs PROVE Follows(u)'
  <2>1. CASE u = t /\ reload
    BY <1>1, <1>6, <2>1 DEF Follows, Loaded, NoSession
  <2>2. CASE u = t /\ ~reload
    BY <1>1, <1>5, <1>6, <2>2 DEF Follows
  <2>3. CASE u # t
    BY <1>1, <1>4, <1>6, <2>3 DEF Follows, WebInv
  <2> QED BY <2>1, <2>2, <2>3
<1> QED BY <1>6, <1>7, <1>8 DEF WebInv

\* The lock is not read before the next change of symbol.
LEMMA ToggleLockKept ==
    ASSUME WebInv, NEW t \in Tabs, ToggleLock(t) PROVE WebInv'
<1>1. /\ UNCHANGED <<curSymbol, events, tables, inbox, server>> /\ inputs' = inputs + 1
      /\ tab' = [tab EXCEPT ![t].locked = ~tab[t].locked]
  BY DEF ToggleLock, Input
<1>2. TypeOK
  BY DEF WebInv
<1>3. /\ tab' \in [Tabs -> Tab] /\ \A u \in Tabs \ {t} : tab'[u] = tab[u]
      /\ tab'[t] = [tab[t] EXCEPT !.locked = ~tab[t].locked]
  <2>1. PICK r : r = tab[t]
    OBVIOUS
  <2>2. PICK q : q = [r EXCEPT !.locked = ~r.locked]
    OBVIOUS
  <2>3. tab \in [Tabs -> Tab] /\ r \in Tab
    BY <1>2, <2>1 DEF TypeOK
  <2>4. q \in Tab
    BY <2>2, <2>3 DEF Tab
  <2>5. tab' = [tab EXCEPT ![t] = q]
    BY <1>1, <2>1, <2>2
  <2>6. tab' \in [Tabs -> Tab] /\ tab'[t] = q /\ \A u \in Tabs \ {t} : tab'[u] = tab[u]
    BY <2>3, <2>4, <2>5
  <2> QED BY Zenon, <2>1, <2>2, <2>6
<1>4. \A u \in Tabs : /\ tab'[u].main = tab[u].main /\ tab'[u].select = tab[u].select
                      /\ tab'[u].conn = tab[u].conn /\ tab'[u].ignored = tab[u].ignored
                      /\ tab'[u].page = tab[u].page /\ tab'[u].title = tab[u].title
  <2>1. PICK r \in Tab : r = tab[t]
    BY <1>2 DEF TypeOK
  <2>2. PICK q : q = [r EXCEPT !.locked = ~r.locked]
    OBVIOUS
  <2>3. /\ q.main = r.main /\ q.select = r.select /\ q.conn = r.conn /\ q.ignored = r.ignored
        /\ q.page = r.page /\ q.title = r.title
    BY <2>2 DEF Tab
  <2>4. tab'[t] = q
    BY <1>3, <2>1, <2>2
  <2> QED BY <1>3, <2>1, <2>3, <2>4
<1>5. TypeOK'
  BY <1>1, <1>2, <1>3, ServerStays DEF TypeOK
<1>6. \A u \in Tabs : Follows(u)'
  BY <1>1, <1>4 DEF Follows, WebInv
<1>7. \A u \in Tabs : Shown(u)'
  BY <1>1, <1>4, ShownStays DEF server
<1> QED BY <1>5, <1>6, <1>7 DEF WebInv

\* The session of the last price reads the symbol when it opens.
LEMMA ConnOpensKept ==
    ASSUME WebInv, NEW t \in Tabs, ConnOpens(t) PROVE WebInv'
<1> DEFINE new == [open |-> TRUE, topics |-> {curSymbol}]
<1>1. /\ UNCHANGED <<curSymbol, events, tables, inbox, server, inputs>>
      /\ tab' = [tab EXCEPT ![t].conn = new]
  BY DEF ConnOpens
<1>2. TypeOK
  BY DEF WebInv
<1>3. new \in Session(Symbols)
  BY <1>2 DEF TypeOK, Session
<1> HIDE DEF new
<1>4. /\ tab' \in [Tabs -> Tab] /\ \A u \in Tabs \ {t} : tab'[u] = tab[u]
      /\ tab'[t] = [tab[t] EXCEPT !.conn = new]
  <2>1. tab \in [Tabs -> Tab] /\ tab[t] \in Tab
    BY <1>2 DEF TypeOK
  <2>2. \A r \in Tab : [r EXCEPT !.conn = new] \in Tab
    BY <1>3 DEF Tab
  <2> QED BY <1>1, <2>1, <2>2
<1>5. \A u \in Tabs : /\ tab'[u].main = tab[u].main /\ tab'[u].select = tab[u].select
                      /\ tab'[u].conn = (IF u = t THEN new ELSE tab[u].conn)
                      /\ tab'[u].ignored = tab[u].ignored
                      /\ tab'[u].page = tab[u].page /\ tab'[u].title = tab[u].title
  <2>1. PICK r \in Tab : r = tab[t]
    BY <1>2 DEF TypeOK
  <2>2. PICK q : q = [r EXCEPT !.conn = new]
    OBVIOUS
  <2>3. /\ q.main = r.main /\ q.select = r.select /\ q.conn = new /\ q.ignored = r.ignored
        /\ q.page = r.page /\ q.title = r.title
    BY <2>2 DEF Tab
  <2>4. tab'[t] = q
    BY <1>4, <2>1, <2>2
  <2> QED BY <1>4, <2>1, <2>3, <2>4
<1>6. TypeOK'
  BY <1>1, <1>2, <1>4, ServerStays DEF TypeOK
<1>7. \A u \in Tabs : Follows(u)'
  BY <1>1, <1>5 DEF Follows, WebInv, new
<1>8. \A u \in Tabs : Shown(u)'
  BY <1>1, <1>5, ShownStays DEF server
<1> QED BY <1>6, <1>7, <1>8 DEF WebInv

\* A session that was not closed adds the symbol of now, which the session of the tab has
\* already if the tab follows.
LEMMA LeakedOpensKept ==
    ASSUME WebInv, NEW t \in Tabs, LeakedOpens(t) PROVE WebInv'
<1> DEFINE more == IF tab[t].conn.open THEN tab[t].conn.topics \cup {curSymbol}
                   ELSE tab[t].conn.topics
           new == [tab[t].conn EXCEPT !.topics = more]
           k == tab[t].leaked - 1
<1>1. /\ UNCHANGED <<curSymbol, events, tables, inbox, server, inputs>>
      /\ tab[t].leaked > 0
      /\ tab' = [tab EXCEPT ![t].leaked = k, ![t].conn.topics = more]
  BY DEF LeakedOpens
<1>2. TypeOK
  BY DEF WebInv
<1>3. /\ tab[t] \in Tab /\ tab[t].leaked \in Nat /\ tab[t].conn \in Session(Symbols)
      /\ tab \in [Tabs -> Tab] /\ curSymbol \in Symbols
  BY <1>2 DEF TypeOK, Tab
<1>4. k \in Nat
  BY <1>1, <1>3
<1>5. new \in Session(Symbols) /\ new.open = tab[t].conn.open /\ new.topics = more
  BY <1>3 DEF Session
<1>6. /\ \A u \in Tabs \ {t} : tab'[u] = tab[u]
      /\ tab'[t] = [tab[t] EXCEPT !.leaked = k, !.conn = new]
      /\ tab' \in [Tabs -> Tab]
  <2>1. [[tab[t] EXCEPT !.leaked = k] EXCEPT !.conn.topics = more]
          = [tab[t] EXCEPT !.leaked = k, !.conn = new]
    BY <1>3 DEF Tab, Session
  <2> HIDE DEF new, more, k
  <2>2. [tab[t] EXCEPT !.leaked = k, !.conn = new] \in Tab
    BY <1>3, <1>4, <1>5 DEF Tab
  <2>3. /\ \A u \in Tabs \ {t} : tab'[u] = tab[u]
        /\ tab'[t] = [[tab[t] EXCEPT !.leaked = k] EXCEPT !.conn.topics = more]
        /\ DOMAIN tab' = Tabs /\ tab' = [u \in Tabs |-> tab'[u]]
    BY <1>1, <1>3
  <2> QED BY <1>3, <2>1, <2>2, <2>3
<1> HIDE DEF new, k
<1>7. \A u \in Tabs : /\ tab'[u].main = tab[u].main /\ tab'[u].select = tab[u].select
                      /\ tab'[u].conn = (IF u = t THEN new ELSE tab[u].conn)
                      /\ tab'[u].ignored = tab[u].ignored
                      /\ tab'[u].page = tab[u].page /\ tab'[u].title = tab[u].title
  <2>1. PICK r \in Tab : r = tab[t]
    BY <1>3
  <2>2. PICK q : q = [r EXCEPT !.leaked = k, !.conn = new]
    OBVIOUS
  <2>3. /\ q.main = r.main /\ q.select = r.select /\ q.conn = new /\ q.ignored = r.ignored
        /\ q.page = r.page /\ q.title = r.title
    BY <2>2 DEF Tab
  <2>4. tab'[t] = q
    BY <1>6, <2>1, <2>2
  <2> QED BY <1>6, <2>1, <2>3, <2>4
<1>8. TypeOK'
  BY <1>1, <1>2, <1>6, ServerStays DEF TypeOK
<1>9. \A u \in Tabs : Follows(u)'
  <2>1. new.open => (tab[t].conn.topics = {curSymbol} => new.topics = {curSymbol})
    BY <1>5
  <2>2. Follows(t)'
    <3>1. Follows(t)
      BY DEF WebInv
    <3> QED BY <1>1, <1>5, <1>7, <2>1, <3>1 DEF Follows
  <2>3. ASSUME NEW u \in Tabs \ {t} PROVE Follows(u)'
    BY <1>1, <1>6, <2>3 DEF Follows, WebInv
  <2> QED BY <2>2, <2>3
<1>10. \A u \in Tabs : Shown(u)'
  BY <1>1, <1>7, ShownStays DEF server
<1> QED BY <1>8, <1>9, <1>10 DEF WebInv

\* What a page subscribes to, and what the push server has for it.
LEMMA SubscriptionsTyped ==
    ASSUME TypeOK, NEW page \in Pages
    PROVE  /\ Subscriptions(page) \subseteq Topics
           /\ page = "orderbook" => Subscriptions(page) = {Topic("orderBook", curSymbol)}
           /\ {x.list : x \in Subscriptions(page)} \subseteq Lists \cup {"orderBook"}
           /\ Replayed(Subscriptions(page)) \in Seq(Data)
           /\ Submitted \in Subscriptions(page) \cap DOMAIN stored
                 => Replayed(Subscriptions(page)) = <<stored[Submitted]>>
<1> DEFINE topics == Subscriptions(page)
           kept == {stored[x] : x \in topics \cap DOMAIN stored}
<1>1. /\ page = "orderbook" => topics = {Topic("orderBook", curSymbol)}
      /\ page = "myportfolio" => topics = {Topic("portfolio", "user"), Topic("waitingList", "user")}
      /\ page = "submittedorders" => topics = {Submitted}
      /\ page = "leaderboard" => topics = {}
  BY DEF Subscriptions, Submitted
<1> HIDE DEF topics
<1>2. /\ page \in {"orderbook", "myportfolio", "submittedorders", "leaderboard"}
      /\ curSymbol \in Symbols
  BY DEF Pages, TypeOK
<1>3. topics \subseteq Topics
  BY <1>1, <1>2 DEF Topics, Lists, Topic, Submitted
<1>4. {x.list : x \in topics} \subseteq Lists \cup {"orderBook"}
  BY <1>3 DEF Topics
<1>5. \A x \in DOMAIN stored : stored[x] \in Data /\ x.list \in {"waitingList", "submittedOrders"}
  BY DEF TypeOK, Kept
<1>6. \A x, y \in topics \cap DOMAIN stored : x = y
  BY <1>1, <1>2, <1>5 DEF Topic
<1>7. kept = {} \/ \E x \in topics \cap DOMAIN stored : kept = {stored[x]}
  BY <1>6
<1>8. IsFiniteSet(kept) /\ kept \subseteq Data
  <2>1. kept \subseteq Data
    BY <1>5
  <2> HIDE DEF kept
  <2>2. CASE kept = {}
    BY <2>1, <2>2, FS_EmptySet
  <2>3. CASE kept # {}
    <3>1. PICK x : kept = {stored[x]}
      BY <1>7, <2>3
    <3>2. PICK e : e = stored[x]
      OBVIOUS
    <3>3. IsFiniteSet({e})
      BY FS_Singleton, Zenon
    <3> QED BY <2>1, <3>1, <3>2, <3>3
  <2> QED BY <2>2, <2>3
<1> HIDE DEF kept
<1>9. SetToSeq(kept) \in Seq(kept) /\ \A e : kept = {e} => SetToSeq(kept) = <<e>>
  BY <1>8, SetToSeqType
<1>10. Replayed(topics) = SetToSeq(kept)
  BY DEF Replayed, kept
<1>11. Replayed(topics) \in Seq(Data)
  BY <1>8, <1>9, <1>10
<1>12. ASSUME Submitted \in topics \cap DOMAIN stored
       PROVE  Replayed(topics) = <<stored[Submitted]>>
  <2>1. kept = {stored[Submitted]}
    BY <1>6, <1>12 DEF kept
  <2> QED BY <1>9, <1>10, <2>1
<1> QED BY <1>1, <1>3, <1>4, <1>11, <1>12 DEF topics

\* What is replayed is the last that reaches the tab.
LEMMA MainOpensKept ==
    ASSUME WebInv, NEW t \in Tabs, MainOpens(t) PROVE WebInv'
<1> DEFINE topics == Subscriptions(tab[t].page)
           new == [open |-> TRUE, topics |-> topics]
<1>1. /\ UNCHANGED <<curSymbol, events, tables, books, lists, stored, inputs>>
      /\ tab' = [tab EXCEPT ![t].main = new]
      /\ inbox' = [inbox EXCEPT ![t] = inbox[t] \o Replayed(topics)]
      /\ requests' = requests \cup {x.list : x \in topics}
  BY DEF MainOpens
<1>2. TypeOK
  BY DEF WebInv
<1>3. tab[t].page \in Pages /\ tab[t] \in Tab /\ tab \in [Tabs -> Tab]
  BY <1>2 DEF TypeOK, Tab
<1>4. /\ topics \subseteq Topics
      /\ tab[t].page = "orderbook" => topics = {Topic("orderBook", curSymbol)}
      /\ {x.list : x \in topics} \subseteq Lists \cup {"orderBook"}
      /\ Replayed(topics) \in Seq(Data)
      /\ Submitted \in topics \cap DOMAIN stored => Replayed(topics) = <<stored[Submitted]>>
  <2>1. PICK page \in Pages : page = tab[t].page
    BY <1>3
  <2> QED BY <1>2, <2>1, SubscriptionsTyped
<1> HIDE DEF topics
<1>5. new \in Session(Topics) /\ new.topics = topics
  BY <1>4 DEF Session
<1> HIDE DEF new
<1>6. PICK r \in Tab : r = tab[t]
  BY <1>3
<1>7. PICK q : q = [r EXCEPT !.main = new]
  OBVIOUS
<1>8. /\ q \in Tab /\ q.main = new /\ q.select = r.select /\ q.conn = r.conn
      /\ q.ignored = r.ignored /\ q.page = r.page /\ q.title = r.title
  BY <1>5, <1>7 DEF Tab
<1>9. tab' \in [Tabs -> Tab] /\ tab'[t] = q /\ \A u \in Tabs \ {t} : tab'[u] = tab[u]
  BY <1>1, <1>3, <1>6, <1>7, <1>8
<1>10. /\ inbox' \in [Tabs -> Seq(Data)] /\ inbox'[t] = inbox[t] \o Replayed(topics)
       /\ \A u \in Tabs \ {t} : inbox'[u] = inbox[u]
  <2>1. inbox \in [Tabs -> Seq(Data)] /\ inbox[t] \o Replayed(topics) \in Seq(Data)
    BY <1>2, <1>4 DEF TypeOK
  <2> QED BY <1>1, <2>1
<1>11. TypeOK'
  BY <1>1, <1>2, <1>4, <1>9, <1>10 DEF TypeOK
<1>12. \A u \in Tabs : Follows(u)'
  BY <1>1, <1>4, <1>5, <1>6, <1>8, <1>9 DEF Follows, WebInv
<1>13. Shown(t)'
  <2>1. SUFFICES ASSUME Submitted \in topics, Submitted \in DOMAIN stored
                 PROVE  ShownBy(inbox'[t], tables[t]["submittedOrders"], stored)
    BY <1>1, <1>5, <1>8, <1>9 DEF Shown, ShownBy
  <2>2. PICK m : m = stored[Submitted] /\ m.topic = Submitted
    BY <1>2, <2>1 DEF TypeOK
  <2>3. PICK p \in Seq(Data) : p = inbox[t]
    BY <1>2 DEF TypeOK
  <2>4. inbox'[t] = p \o <<m>>
    BY <1>4, <1>10, <2>1, <2>2, <2>3
  <2>5. /\ Len(p) \in Nat /\ DOMAIN (p \o <<m>>) = 1..(Len(p) + 1)
        /\ (p \o <<m>>)[Len(p) + 1] = m
    OBVIOUS
  <2>6. PICK z : z = p \o <<m>>
    OBVIOUS
  <2>7. Len(p) + 1 \in DOMAIN z /\ z[Len(p) + 1].topic = Submitted
    BY <2>2, <2>5, <2>6
  <2>8. ASSUME NEW i \in DOMAIN z, z[i].topic = Submitted,
               \A j \in DOMAIN z : j > i => z[j].topic # Submitted
        PROVE  z[i].rows = stored[Submitted].rows
    <3>1. i = Len(p) + 1
      BY <2>5, <2>6, <2>7, <2>8
    <3> QED BY <2>2, <2>5, <2>6, <3>1
  <2>9. ShownBy(z, tables[t]["submittedOrders"], stored)
    BY <2>7, <2>8 DEF ShownBy
  <2> QED BY <2>4, <2>6, <2>9
<1>14. \A u \in Tabs \ {t} : Shown(u)'
  BY <1>1, <1>9, <1>10 DEF Shown, WebInv
<1> QED BY <1>11, <1>12, <1>13, <1>14 DEF WebInv

\* What the backend sends is passed on and stored.
LEMMA SendingKept ==
    ASSUME WebInv, NEW messages \in Seq(Data), OnData(messages), UNCHANGED <<ticker, tables>>,
           books' \in [Symbols \X BookTypes -> Books], lists' \in [Lists -> UserLists],
           requests' \subseteq Lists \cup {"orderBook"}, inputs' \in Nat
    PROVE  WebInv'
<1>1. /\ inbox' \in [Tabs -> Seq(Data)]
      /\ stored' \in Stores
      /\ \A t \in Tabs : Shown(t)'
  BY OnDataKept
<1>2. /\ stored' \in [DOMAIN stored' -> Data]
      /\ \A x \in DOMAIN stored' : stored'[x].topic = x /\ Kept(stored'[x])
  BY <1>1, StoresTyped
<1>3. curSymbol' = curSymbol /\ tab' = tab /\ events' = events /\ tables' = tables
  BY DEF ticker
<1>4. TypeOK'
  BY <1>1, <1>2, <1>3 DEF WebInv, TypeOK
<1>5. \A t \in Tabs : Follows(t)'
  BY <1>3 DEF WebInv, Follows
<1> QED BY <1>1, <1>4, <1>5 DEF WebInv

\* The order books and the portfolio of each second.
LEMMA CheckEverySecondKept ==
    ASSUME WebInv, CheckEverySecond PROVE WebInv'
<1>1. TypeOK
  BY DEF WebInv
<1>2. PICK p : p = Messages("orderBook") /\ p \in Seq(Data)
  BY <1>1, MessagesTyped
<1>3. PICK q : q = Messages("portfolio") /\ q \in Seq(Data)
  BY <1>1, MessagesTyped DEF Lists
<1>4. PICK z : z = p \o q /\ z \in Seq(Data)
  <2>1. p \o q \in Seq(Data)
    BY <1>2, <1>3
  <2> QED BY <2>1
<1>5. OnData(z) /\ UNCHANGED <<ticker, tables, books, lists, requests, inputs>>
  BY <1>2, <1>3, <1>4 DEF CheckEverySecond
<1>6. /\ books' \in [Symbols \X BookTypes -> Books] /\ lists' \in [Lists -> UserLists]
      /\ requests' \subseteq Lists \cup {"orderBook"} /\ inputs' \in Nat
  BY <1>1, <1>5 DEF TypeOK
<1> QED BY <1>4, <1>5, <1>6, SendingKept

\* What was asked for.
LEMMA SendOnceKept ==
    ASSUME WebInv, NEW c \in requests, SendOnce(c) PROVE WebInv'
<1>1. TypeOK /\ c \in Lists \cup {"orderBook"}
  BY DEF WebInv, TypeOK
<1>2. PICK p \in Seq(Data) : p = Messages(c)
  BY <1>1, MessagesTyped
<1>3. OnData(p) /\ requests' = requests \ {c} /\ UNCHANGED <<ticker, tables, books, lists, inputs>>
  BY <1>2 DEF SendOnce
<1>4. /\ books' \in [Symbols \X BookTypes -> Books] /\ lists' \in [Lists -> UserLists]
      /\ requests' \subseteq Lists \cup {"orderBook"} /\ inputs' \in Nat
  BY <1>1, <1>3 DEF TypeOK
<1> QED BY <1>3, <1>4, SendingKept

\* An order book changes in the backend; nothing is sent.
LEMMA ChangeBookKept ==
    ASSUME WebInv, NEW s \in Symbols, NEW b \in BookTypes, ChangeBook(s, b) PROVE WebInv'
<1>1. PICK l \in Books : books' = [books EXCEPT ![<<s, b>>] = l]
  BY DEF ChangeBook
<1>2. inputs' = inputs + 1 /\ UNCHANGED <<ticker, tables, inbox, lists, requests, stored>>
  BY DEF ChangeBook, Input
<1>3. books' \in [Symbols \X BookTypes -> Books] /\ inputs' \in Nat
  <2>1. books \in [Symbols \X BookTypes -> Books] /\ inputs \in Nat
    BY DEF WebInv, TypeOK
  <2> QED BY <1>1, <1>2, <2>1
<1>4. curSymbol' = curSymbol /\ tab' = tab /\ events' = events
  BY <1>2 DEF ticker
<1>5. TypeOK'
  BY <1>2, <1>3, <1>4 DEF WebInv, TypeOK
<1>6. \A t \in Tabs : Follows(t)' /\ Shown(t)'
  BY <1>2, <1>4 DEF WebInv, Follows, Shown
<1> QED BY <1>5, <1>6 DEF WebInv

\* A list changes in the backend; a new waiting list is sent.
LEMMA ChangeListKept ==
    ASSUME WebInv, NEW l \in Lists, ChangeList(l) PROVE WebInv'
<1>1. PICK new \in UserLists :
          /\ lists' = [lists EXCEPT ![l] = new]
          /\ IF l = "waitingList" THEN OnData(<<[ListMessage(l) EXCEPT !.rows = new]>>)
             ELSE UNCHANGED <<inbox, stored>>
  BY DEF ChangeList
<1>2. inputs' = inputs + 1 /\ UNCHANGED <<ticker, tables, books, requests>>
  BY DEF ChangeList, Input
<1>3. TypeOK
  BY DEF WebInv
<1>4. /\ lists' \in [Lists -> UserLists] /\ inputs' \in Nat
      /\ books' \in [Symbols \X BookTypes -> Books]
      /\ requests' \subseteq Lists \cup {"orderBook"}
  <2>1. /\ lists \in [Lists -> UserLists] /\ inputs \in Nat
        /\ books \in [Symbols \X BookTypes -> Books]
        /\ requests \subseteq Lists \cup {"orderBook"}
    BY <1>3 DEF TypeOK
  <2> QED BY <1>1, <1>2, <2>1
<1>5. CASE l = "waitingList"
  <2>1. [ListMessage(l) EXCEPT !.rows = new] \in Data
    BY <1>3, MessagesTyped
  <2>2. PICK m \in Data : m = [ListMessage(l) EXCEPT !.rows = new]
    BY <2>1
  <2>3. PICK p : p = <<m>> /\ p \in Seq(Data)
    <3>1. <<m>> \in Seq(Data)
      OBVIOUS
    <3> QED BY <3>1
  <2>4. OnData(p)
    BY <1>1, <1>5, <2>2, <2>3
  <2> QED BY <1>2, <1>4, <2>3, <2>4, SendingKept
<1>6. CASE l # "waitingList"
  <2>1. inbox' = inbox /\ stored' = stored
    BY <1>1, <1>6
  <2>2. curSymbol' = curSymbol /\ tab' = tab /\ events' = events /\ tables' = tables
    BY <1>2 DEF ticker
  <2>3. TypeOK'
    BY <1>3, <1>4, <2>1, <2>2 DEF TypeOK
  <2>4. \A t \in Tabs : Follows(t)' /\ Shown(t)'
    BY <2>1, <2>2 DEF WebInv, Follows, Shown
  <2> QED BY <2>3, <2>4 DEF WebInv
<1> QED BY <1>5, <1>6

\* A message has a table.
LEMMA DataTables == \A m \in Data : m.table \in Tables
BY DEF Data, BookData, ListData, Tables

\* A message is written into its table: the last list of submitted orders becomes what the
\* table shows, whatever rows were there, and an earlier one is followed by another.
LEMMA ReceiveKept ==
    ASSUME WebInv, NEW t \in Tabs, Receive(t) PROVE WebInv'
<1>1. TypeOK
  BY DEF WebInv
<1>2. PICK q \in Seq(Data) : q = inbox[t]
  BY <1>1 DEF TypeOK
<1>3. PICK m : m = Head(q)
  OBVIOUS
<1>4. /\ q # <<>> /\ inbox' = [inbox EXCEPT ![t] = Tail(q)]
      /\ tables' = [tables EXCEPT ![t][m.table] = Rows(m, tables[t][m.table])]
      /\ UNCHANGED <<ticker, server, inputs>>
  BY <1>2, <1>3 DEF Receive
<1>5. /\ m \in Data /\ m = q[1] /\ Tail(q) \in Seq(Data)
      /\ Len(q) \in Nat /\ Len(q) >= 1 /\ Len(Tail(q)) = Len(q) - 1
      /\ \A i \in 1..(Len(q) - 1) : Tail(q)[i] = q[i + 1]
  BY <1>3, <1>4
<1>6. /\ curSymbol' = curSymbol /\ tab' = tab /\ events' = events /\ UNCHANGED server
      /\ inputs' = inputs
  BY <1>4 DEF ticker
<1>7. /\ inbox' \in [Tabs -> Seq(Data)] /\ inbox'[t] = Tail(q)
      /\ \A u \in Tabs \ {t} : inbox'[u] = inbox[u]
  <2>1. inbox \in [Tabs -> Seq(Data)]
    BY <1>1 DEF TypeOK
  <2> QED BY <1>4, <1>5, <2>1
<1>8. m.table \in Tables
  BY <1>5, DataTables
<1>9. PICK rows : /\ rows = tables[t][m.table]
                  /\ rows \in Seq(IF m.table \in BookTypes THEN Levels ELSE Entries)
  BY <1>1, <1>8 DEF TypeOK
<1>10. /\ Rows(m, rows) \in Seq(IF m.table \in BookTypes THEN Levels ELSE Entries)
       /\ m.topic = Submitted => /\ m.table = "submittedOrders"
                                 /\ Rows(m, rows) = OrEmpty(m.rows)
       /\ m.table = "submittedOrders" => m.topic = Submitted
  BY <1>5, <1>9, RowsTyped
<1>11. PICK new : new = Rows(m, rows)
  OBVIOUS
<1>12. /\ tables'[t][m.table] = new
       /\ \A n \in Tables \ {m.table} : tables'[t][n] = tables[t][n]
       /\ \A u \in Tabs \ {t} : tables'[u] = tables[u]
       /\ tables' \in [Tabs -> [Tables -> Seq(Levels \cup Entries)]]
  <2>1. PICK f : f = tables[t] /\ f \in [Tables -> Seq(Levels \cup Entries)]
    BY <1>1 DEF TypeOK
  <2>2. new \in Seq(Levels \cup Entries)
    BY <1>10, <1>11
  <2>3. tables \in [Tabs -> [Tables -> Seq(Levels \cup Entries)]]
    BY <1>1 DEF TypeOK
  <2>4. tables' = [tables EXCEPT ![t] = [f EXCEPT ![m.table] = new]]
    BY <1>4, <1>9, <1>11, <2>1
  <2>5. PICK g : g = [f EXCEPT ![m.table] = new]
    OBVIOUS
  <2>6. /\ g \in [Tables -> Seq(Levels \cup Entries)] /\ g[m.table] = new
        /\ \A n \in Tables \ {m.table} : g[n] = f[n]
    BY <1>8, <2>1, <2>2, <2>5
  <2>7. tables' = [tables EXCEPT ![t] = g]
    BY <2>4, <2>5
  <2> QED BY <2>1, <2>3, <2>6, <2>7
<1>13. \A u \in Tabs, n \in Tables :
          tables'[u][n] \in Seq(IF n \in BookTypes THEN Levels ELSE Entries)
  <2>1. \A u \in Tabs, n \in Tables :
           tables[u][n] \in Seq(IF n \in BookTypes THEN Levels ELSE Entries)
    BY <1>1 DEF TypeOK
  <2>2. new \in Seq(IF m.table \in BookTypes THEN Levels ELSE Entries)
    BY <1>10, <1>11
  <2>3. SUFFICES ASSUME NEW u \in Tabs, NEW n \in Tables
                 PROVE  tables'[u][n] \in Seq(IF n \in BookTypes THEN Levels ELSE Entries)
    OBVIOUS
  <2>4. CASE u = t /\ n = m.table
    BY <1>12, <2>2, <2>4, Zenon
  <2>5. CASE ~(u = t /\ n = m.table)
    <3>1. tables'[u][n] = tables[u][n]
      BY <1>12, <2>5
    <3> QED BY <2>1, <3>1, Zenon
  <2> QED BY <2>4, <2>5
<1>14. TypeOK'
  BY <1>1, <1>6, <1>7, <1>12, <1>13, ServerStays DEF TypeOK
<1>15. \A u \in Tabs : Follows(u)'
  BY <1>6 DEF WebInv, Follows
<1>16. \A u \in Tabs \ {t} : Shown(u)'
  BY <1>6, <1>7, <1>12 DEF WebInv, Shown, server
<1>17. Shown(t)'
  <2>1. SUFFICES ASSUME Submitted \in tab[t].main.topics, Submitted \in DOMAIN stored
                 PROVE  ShownBy(Tail(q), tables'[t]["submittedOrders"], stored)
    BY <1>6, <1>7 DEF Shown, ShownBy, server
  <2>2. PICK store, old : store = stored /\ old = tables[t]["submittedOrders"]
    OBVIOUS
  <2>3. ShownBy(q, old, store) /\ Submitted \in DOMAIN store
    BY <1>2, <2>1, <2>2 DEF WebInv, Shown
  <2>4. PICK z : z = Tail(q) /\ DOMAIN z = 1..(Len(q) - 1) /\ \A i \in DOMAIN z : z[i] = q[i + 1]
    <3>1. DOMAIN Tail(q) = 1..(Len(q) - 1)
      BY <1>5
    <3> QED BY <1>5, <3>1
  <2>5. DOMAIN q = 1..Len(q)
    OBVIOUS
  <2>6. ASSUME NEW i \in DOMAIN z, z[i].topic = Submitted,
               \A j \in DOMAIN z : j > i => z[j].topic # Submitted
        PROVE  z[i].rows = store[Submitted].rows
    <3>1. i + 1 \in DOMAIN q /\ z[i] = q[i + 1]
      BY <1>5, <2>4, <2>5, <2>6
    <3>2. ASSUME NEW j \in DOMAIN q, j > i + 1 PROVE q[j].topic # Submitted
      <4>1. j - 1 \in DOMAIN z /\ j - 1 > i /\ (j - 1) + 1 = j
        BY <1>5, <2>4, <2>5, <2>6, <3>2
      <4>2. z[j - 1] = q[j]
        BY <2>4, <4>1
      <4> QED BY <2>6, <4>1, <4>2
    <3> QED BY <2>3, <2>6, <3>1, <3>2 DEF ShownBy
  <2>7. ASSUME \A i \in DOMAIN z : z[i].topic # Submitted
        PROVE  tables'[t]["submittedOrders"] = OrEmpty(store[Submitted].rows)
    <3>1. ASSUME NEW j \in DOMAIN q, j > 1 PROVE q[j].topic # Submitted
      <4>1. j - 1 \in DOMAIN z /\ (j - 1) + 1 = j
        BY <1>5, <2>4, <2>5, <3>1
      <4>2. z[j - 1] = q[j]
        BY <2>4, <4>1
      <4> QED BY <2>7, <4>1, <4>2
    <3>2. CASE m.topic = Submitted
      <4>1. 1 \in DOMAIN q
        BY <1>5, <2>5
      <4>2. m.rows = store[Submitted].rows
        BY <1>5, <2>3, <3>1, <3>2, <4>1 DEF ShownBy
      <4> QED BY <1>10, <1>11, <1>12, <3>2, <4>2
    <3>3. CASE m.topic # Submitted
      <4>1. ASSUME NEW i \in DOMAIN q PROVE q[i].topic # Submitted
        <5>1. i = 1 \/ i > 1
          BY <2>5
        <5> QED BY <1>5, <3>1, <3>3, <5>1
      <4>2. old = OrEmpty(store[Submitted].rows)
        BY <2>3, <4>1 DEF ShownBy
      <4>3. "submittedOrders" \in Tables \ {m.table}
        BY <1>10, <3>3 DEF Tables, Lists
      <4> QED BY <1>12, <2>2, <4>2, <4>3
    <3> QED BY <3>2, <3>3
  <2>8. ShownBy(z, tables'[t]["submittedOrders"], store)
    BY <2>6, <2>7 DEF ShownBy
  <2> QED BY <2>2, <2>4, <2>8
<1> QED BY <1>14, <1>15, <1>16, <1>17 DEF WebInv

--------------------------------------------------------------------------------
(* The theorems. *)

\* The invariant holds when the pages have just been loaded.
LEMMA InitKept == Init => WebInv
<1> SUFFICES ASSUME Init PROVE WebInv
  OBVIOUS
<1>1. /\ curSymbol = StockList[1] /\ events = [t \in Tabs |-> 0]
      /\ tables = [t \in Tabs |-> NoRows] /\ inbox = [t \in Tabs |-> <<>>]
      /\ requests = {} /\ stored = <<>> /\ inputs = 0
  BY DEF Init
<1>2. PICK start \in Starts :
          /\ tab = [t \in Tabs |-> Loaded(start.pages[t], curSymbol)]
          /\ books = [x \in Symbols \X BookTypes |-> start.book]
          /\ lists = [l \in Lists |-> start.list]
  BY DEF Init
<1>3. start \in [pages : [Tabs -> Pages], book : Books, list : UserLists]
  BY WebAssumption
<1>4. curSymbol \in Symbols
  <2>1. Len(StockList) \in Nat /\ StockList # <<>> /\ StockList \in Seq(Symbols)
    BY WebAssumption
  <2> QED BY <1>1, <2>1
<1>5. \A t \in Tabs : start.pages[t] \in Pages /\ Loaded(start.pages[t], curSymbol) \in Tab
  <2>1. start.pages \in [Tabs -> Pages]
    BY <1>3
  <2>2. PICK s \in Symbols : s = curSymbol
    BY <1>4
  <2> QED BY <2>1, <2>2, LoadedTyped
<1>6. tab \in [Tabs -> Tab]
  BY <1>2, <1>5
<1>7. /\ tables \in [Tabs -> [Tables -> Seq(Levels \cup Entries)]]
      /\ \A t \in Tabs, n \in Tables :
            tables[t][n] \in Seq(IF n \in BookTypes THEN Levels ELSE Entries)
  <2>1. \A S : <<>> \in Seq(S)
    OBVIOUS
  <2> QED BY <1>1, <2>1 DEF NoRows, Tables
<1>8. inbox \in [Tabs -> Seq(Data)] /\ events \in [Tabs -> Nat] /\ inputs \in Nat
  BY <1>1
<1>9. books \in [Symbols \X BookTypes -> Books] /\ lists \in [Lists -> UserLists]
  <2>1. start.book \in Books /\ start.list \in UserLists
    BY <1>3
  <2> QED BY <1>2, <2>1
<1>10. DOMAIN stored = {} /\ stored \in [DOMAIN stored -> Data]
  BY <1>1
<1>11. TypeOK
  BY <1>1, <1>4, <1>6, <1>7, <1>8, <1>9, <1>10 DEF TypeOK
<1>12. \A t \in Tabs : Follows(t)
  BY <1>2 DEF Follows, Loaded, NoSession
<1>13. \A t \in Tabs : Shown(t)
  BY <1>2 DEF Shown, Loaded, NoSession
<1> QED BY <1>11, <1>12, <1>13 DEF WebInv

\* Every step keeps the invariant.
LEMMA NextKept == WebInv /\ [Next]_vars => WebInv'
<1> SUFFICES ASSUME WebInv, [Next]_vars PROVE WebInv'
  OBVIOUS
<1>1. CASE \E t \in Tabs, s \in Symbols, form \in BOOLEAN : RefreshSymbol(t, s, form)
  BY <1>1, RefreshSymbolKept
<1>2. CASE \E t \in Tabs : ToggleLock(t)
  BY <1>2, ToggleLockKept
<1>3. CASE \E t \in Tabs : Page(t)
  <2>1. PICK t \in Tabs : Page(t)
    BY <1>3
  <2> QED BY <2>1, StorageEventKept, ConnOpensKept, LeakedOpensKept, MainOpensKept,
             ReceiveKept DEF Page
<1>4. CASE \E s \in Symbols, b \in BookTypes : ChangeBook(s, b)
  BY <1>4, ChangeBookKept
<1>5. CASE \E l \in Lists : ChangeList(l)
  BY <1>5, ChangeListKept
<1>6. CASE CheckEverySecond
  BY <1>6, CheckEverySecondKept
<1>7. CASE \E c \in requests : SendOnce(c)
  BY <1>7, SendOnceKept
<1>8. CASE UNCHANGED vars
  <2>1. /\ curSymbol' = curSymbol /\ tab' = tab /\ events' = events /\ tables' = tables
        /\ inbox' = inbox /\ books' = books /\ lists' = lists /\ requests' = requests
        /\ stored' = stored /\ inputs' = inputs
    BY <1>8 DEF vars
  <2>2. TypeOK'
    BY <2>1 DEF WebInv, TypeOK
  <2>3. \A t \in Tabs : Follows(t)' /\ Shown(t)'
    BY <2>1 DEF WebInv, Follows, Shown
  <2> QED BY <2>2, <2>3 DEF WebInv
<1> QED BY <1>1, <1>2, <1>3, <1>4, <1>5, <1>6, <1>7, <1>8 DEF Next

\* The inductive invariant of the pages: what a tab holds of the symbol and what its
\* table of submitted orders shows, now or after the lists on their way to it.
THEOREM PagesInvariant == Spec => []WebInv
<1>1. Init => WebInv
  BY InitKept
<1>2. WebInv /\ [Next]_vars => WebInv'
  BY NextKept
<1> QED BY <1>1, <1>2, PTL DEF Spec

\* The types of the pages, of the push server and of the backend.
THEOREM PageTypesKept == Spec => []TypeOK
<1>1. WebInv => TypeOK
  BY DEF WebInv
<1> QED BY <1>1, PagesInvariant, PTL

\* An order goes to the stock on the screen: a tab that has let no change of symbol
\* pass, whose events have arrived and whose sessions are open, is about cur_symbol.
THEOREM TabsFollow == Spec => []TabFollows
<1>1. WebInv => TabFollows
  BY DEF WebInv, Follows, TabFollows
<1> QED BY <1>1, PagesInvariant, PTL

\* A page of submitted orders with no message on its way shows the list that the push
\* server stored last, and no row of an earlier one.
THEOREM SubmittedAlwaysShown == Spec => []SubmittedShown
<1>1. WebInv => SubmittedShown
  <2> SUFFICES ASSUME WebInv, NEW t \in Tabs, NEW topic \in tab[t].main.topics \cap DOMAIN stored,
                      topic.list = "submittedOrders", inbox[t] = <<>>
               PROVE  tables[t]["submittedOrders"] = OrEmpty(stored[topic].rows)
    BY DEF SubmittedShown
  <2>1. tab[t].main.topics \subseteq Topics
    BY DEF WebInv, TypeOK, Tab, Session
  <2>2. topic = Submitted
    BY <2>1 DEF Topics, Submitted, Topic
  <2>3. DOMAIN inbox[t] = {}
    OBVIOUS
  <2>4. ShownBy(inbox[t], tables[t]["submittedOrders"], stored)
    BY <2>2 DEF WebInv, Shown
  <2> QED BY <2>2, <2>3, <2>4 DEF ShownBy
<1> QED BY <1>1, PagesInvariant, PTL

================================================================================
