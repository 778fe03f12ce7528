------------------------------- MODULE WebClient -------------------------------
(***************************************************************************)
(* The pages of the WebClient in the tabs of one browser, with the push    *)
(* server and the backend behind them.                                     *)
(*                                                                         *)
(* The tabs share the item cur_symbol of localStorage. A tab that changes  *)
(* it handles the change at once; the other tabs get a storage event some  *)
(* time later. A page opens WebSocket sessions, which subscribe when they  *)
(* are connected. The backend sends whole lists (order books, the waiting  *)
(* list, ...) to the push server, which passes them on to the subscribers  *)
(* and keeps the last waiting list and the last submitted orders for those *)
(* who come later. A page writes a list into the rows of a table, reusing  *)
(* the rows that are there.                                                *)
(*                                                                         *)
(* A page is loaded in one step, a session subscribes at the server in the *)
(* step that opens it, and the backend reads a list and hands it to the    *)
(* push server in one step. Connections do not fail. An operator XFaulty is *)
(* X with a plausible mistake; nothing uses it.                            *)
(***************************************************************************)
EXTENDS SequencesExt

CONSTANTS
    Tabs,        \* the tabs
    StockList,   \* php_stockList_json, a sequence of symbols
    Starts,      \* the pages in the tabs, the order books and lists at the start
    BookTypes,   \* the order books of a symbol
    Books,       \* the order books of the backend, as lists of levels
    UserLists,   \* the lists of orders or positions of the user
    Zero,        \* a level of size 0
    Empty,       \* the row that says that a list is empty
    MaxInputs,   \* bound: changes of cur_symbol, of a lock and of lists in the backend
    MaxInbox     \* bound: messages that wait for a page

Symbols == Range(StockList)
Pages   == {"orderbook", "myportfolio", "submittedorders", "leaderboard"}
Lists   == {"portfolio", "waitingList", "submittedOrders"}

ASSUME WebAssumption ==
    /\ StockList \in Seq(Symbols) /\ StockList # <<>> /\ IsInjective(StockList)
    /\ Starts \subseteq [pages: [Tabs -> Pages], book: Books, list: UserLists]
    /\ IsFiniteSet(BookTypes) /\ BookTypes \cap Lists = {}
    /\ <<>> \in Books \cap UserLists
    /\ \A l \in Books \cup UserLists : l \in Seq(Range(l)) /\ Empty \notin Range(l)

VARIABLES
    curSymbol,   \* localStorage 'cur_symbol'
    tab,         \* what each tab holds besides its tables
    events,      \* number of storage events on their way to each tab
    tables,      \* the rows of each table below its header
    inbox,       \* messages of the push server on their way to each tab
    books,       \* the order books of the backend
    lists,       \* the lists of the user in the backend
    requests,    \* categories that the push server asked the backend for
    stored,      \* storedData of the push server
    inputs       \* history: number of changes, for the bound

ticker == <<curSymbol, tab, events>>
server == <<books, lists, requests, stored>>
vars   == <<curSymbol, tab, events, tables, inbox, books, lists, requests, stored, inputs>>

--------------------------------------------------------------------------------
(* Pages, the current symbol and the sessions. *)

Topic(list, s) == [list |-> list, symbol |-> s]

(* What the session of a page subscribes to; cur_symbol is read when it opens. *)
Subscriptions(page) ==
    CASE page = "orderbook"       -> {Topic("orderBook", curSymbol)}
      [] page = "myportfolio"     -> {Topic("portfolio", "user"), Topic("waitingList", "user")}
      [] page = "submittedorders" -> {Topic("submittedOrders", "user")}
      [] page = "leaderboard"     -> {}

NoSession == [open |-> FALSE, topics |-> {}]

(* A page that was just loaded. The title of the chart and the symbol of the   *)
(* order form are read now. "conn" is the session of the last price. A history *)
(* variable, ignored, tells whether the tab has let a change of symbol pass.    *)
Loaded(page, s) ==
    [page |-> page, locked |-> TRUE, title |-> s, select |-> s,
     conn |-> NoSession, leaked |-> 0, main |-> NoSession, ignored |-> FALSE]

NoRows == [n \in BookTypes \cup Lists |-> <<>>]

(* connection.close() and createsession(): a session that is not connected yet *)
(* is not closed; it opens later all the same.                                  *)
RestartedFaulty(r) == [r EXCEPT !.leaked = IF r.conn.open THEN @ ELSE @ + 1]
Restarted(r) ==
    [r EXCEPT !.conn = NoSession, !.leaked = IF r.conn.open THEN @ ELSE @ + 1]

(* The handlers of a change of symbol to s in a page that is not reloaded. *)
Follow(r, s) ==
    IF r.locked THEN [Restarted(r) EXCEPT !.select = s, !.ignored = FALSE]
    ELSE [r EXCEPT !.ignored = TRUE]

(* The order book page loads itself again, another one goes on as r. *)
Reloads(t, s) ==
    /\ tab' = [tab EXCEPT ![t] = Loaded(@.page, s)]
    /\ tables' = [tables EXCEPT ![t] = NoRows]
    /\ inbox' = [inbox EXCEPT ![t] = <<>>]

Input == inputs < MaxInputs /\ inputs' = inputs + 1

Goes(t, r) == tab' = [tab EXCEPT ![t] = r] /\ UNCHANGED <<tables, inbox>>

(* getNextSymbol and getPreSymbol: the neighbours of cur_symbol, round the list. *)
Place      == CHOOSE i \in DOMAIN StockList : StockList[i] = curSymbol
NextSymbol == StockList[IF Place < Len(StockList) THEN Place + 1 ELSE 1]
PreSymbol  == StockList[IF Place = 1 THEN Len(StockList) ELSE Place - 1]

(* What the order form, or else an arrow key, may choose in tab t. *)
Choosable(t, form) == IF form THEN Symbols \ {tab[t].select} ELSE {NextSymbol, PreSymbol}

(* refreshSymbol: tab t chooses symbol s. The other tabs get a storage event if *)
(* the value changes.                                                              *)
RefreshSymbol(t, s, form) ==
    LET reload == tab[t].page = "orderbook"
        chosen == IF form THEN [tab[t] EXCEPT !.select = s] ELSE tab[t]
    IN  /\ s \in Choosable(t, form)
        /\ Input
        /\ curSymbol' = s
        /\ IF reload THEN Reloads(t, s) ELSE Goes(t, Follow(chosen, s))
        /\ events' = [u \in Tabs |-> IF u = t THEN (IF reload THEN 0 ELSE events[u])
                                     ELSE IF s # curSymbol THEN events[u] + 1 ELSE events[u]]
        /\ UNCHANGED server

(* A storage event arrives; its handlers read cur_symbol as it is now. *)
StorageEvent(t) ==
    LET reload == tab[t].page = "orderbook" /\ tab[t].locked
    IN  /\ events[t] > 0
        /\ events' = [events EXCEPT ![t] = IF reload THEN 0 ELSE @ - 1]
        /\ IF reload THEN Reloads(t, curSymbol) ELSE Goes(t, Follow(tab[t], curSymbol))
        /\ UNCHANGED <<curSymbol, server, inputs>>

(* A submitted orders page disables the lock. *)
ToggleLock(t) ==
    /\ Input
    /\ tab[t].page # "submittedorders"
    /\ tab' = [tab EXCEPT ![t].locked = ~@]
    /\ UNCHANGED <<curSymbol, events, tables, inbox, server>>

(* The session of the last price opens, or one that could not be closed: that   *)
(* one, too, subscribes in the session of the global variable conn, which throws *)
(* if it is not connected.                                                        *)
ConnOpens(t) ==
    /\ ~tab[t].conn.open
    /\ tab' = [tab EXCEPT ![t].conn = [open |-> TRUE, topics |-> {curSymbol}]]
    /\ UNCHANGED <<curSymbol, events, tables, inbox, server, inputs>>

LeakedOpens(t) ==
    /\ tab[t].leaked > 0
    /\ tab' = [tab EXCEPT ![t].leaked = @ - 1,
                          ![t].conn.topics = IF tab[t].conn.open THEN @ \cup {curSymbol} ELSE @]
    /\ UNCHANGED <<curSymbol, events, tables, inbox, server, inputs>>

(* The session of the page opens and subscribes: the push server replays what it *)
(* has stored, which is at most the list of one topic of a page, and asks the       *)
(* backend for more.                                                                 *)
ReplayedFaulty(topics) == <<>>
Replayed(topics) == SetToSeq({stored[x] : x \in topics \cap DOMAIN stored})

MainOpens(t) ==
    LET topics == Subscriptions(tab[t].page)
    IN  /\ ~tab[t].main.open
        /\ tab' = [tab EXCEPT ![t].main = [open |-> TRUE, topics |-> topics]]
        /\ inbox' = [inbox EXCEPT ![t] = @ \o Replayed(topics)]
        /\ requests' = requests \cup {x.list : x \in topics}
        /\ UNCHANGED <<curSymbol, events, tables, books, lists, stored, inputs>>

--------------------------------------------------------------------------------
(* The backend and the push server. *)

Message(topic, table, rows) == [topic |-> topic, table |-> table, rows |-> rows]

(* sendOrderBookToFront: each book of each symbol; an empty one is one level of *)
(* size 0.                                                                        *)
BookMessages ==
    LET all == SetToSeq(Symbols \X BookTypes)
    IN  [i \in DOMAIN all |->
            Message(Topic("orderBook", all[i][1]), all[i][2],
                    IF books[all[i]] = <<>> THEN <<Zero>> ELSE books[all[i]])]

ListMessage(l) == Message(Topic(l, "user"), l, lists[l])

Messages(category) == IF category = "orderBook" THEN BookMessages ELSE <<ListMessage(category)>>

(* onData: the push server stores a message and passes it on to those who have *)
(* subscribed to its topic.                                                       *)
Kept(m) == m.topic.list \in {"waitingList", "submittedOrders"}

AfterData(store, m) ==
    IF ~Kept(m) THEN store
    ELSE [x \in DOMAIN store \cup {m.topic} |-> IF x = m.topic THEN m ELSE store[x]]

(* What the messages of one send leave stored, one handled after the other ... *)
StoredAfter(messages) ==
    LET after[n \in 0..Len(messages)] ==
            IF n = 0 THEN stored ELSE AfterData(after[n - 1], messages[n])
    IN  after[Len(messages)]

(* ... and what of them reaches tab t.                                         *)
PassedOn(t, messages) ==
    LET passed[n \in 0..Len(messages)] ==
            IF n = 0 THEN <<>>
            ELSE IF messages[n].topic \in tab[t].main.topics
            THEN Append(passed[n - 1], messages[n])
            ELSE passed[n - 1]
    IN  passed[Len(messages)]

OnData(messages) ==
    /\ inbox' = [t \in Tabs |-> inbox[t] \o PassedOn(t, messages)]
    /\ \A t \in Tabs : inbox'[t] # inbox[t] => Len(inbox[t]) < MaxInbox
    /\ stored' = StoredAfter(messages)

(* checkEverySecond sends the order books and the portfolio, sendOnce what was  *)
(* asked for. The summary of the portfolio, which each page subscribes to, is     *)
(* asked for and sent together with the portfolio.                                *)
CheckEverySecond ==
    /\ OnData(Messages("orderBook") \o Messages("portfolio"))
    /\ UNCHANGED <<ticker, tables, books, lists, requests, inputs>>

SendOnce(c) ==
    /\ c \in requests
    /\ requests' = requests \ {c}
    /\ OnData(Messages(c))
    /\ UNCHANGED <<ticker, tables, books, lists, inputs>>

ChangeBook(s, b) ==
    /\ Input
    /\ \E l \in Books \ {books[<<s, b>>]} : books' = [books EXCEPT ![<<s, b>>] = l]
    /\ UNCHANGED <<ticker, tables, inbox, lists, requests, stored>>

(* The user's lists change; a new waiting list is sent at once. *)
ChangeList(l) ==
    /\ Input
    /\ \E new \in UserLists \ {lists[l]} :
          /\ lists' = [lists EXCEPT ![l] = new]
          /\ l = "portfolio" => Len(new) >= Len(lists[l])
          /\ IF l = "waitingList" THEN OnData(<<[ListMessage(l) EXCEPT !.rows = new]>>)
             ELSE UNCHANGED <<inbox, stored>>
    /\ UNCHANGED <<ticker, tables, books, requests>>

--------------------------------------------------------------------------------
(* The handlers of messages: what becomes of the rows of a table. *)

(* Rows are written over, and appended when there are too few. *)
Overwritten(rows, data) ==
    [i \in 1..(IF Len(rows) > Len(data) THEN Len(rows) ELSE Len(data)) |->
        IF i <= Len(data) THEN data[i] ELSE rows[i]]

(* Rows behind the last entry are deleted. *)
CutFaulty(rows, data) == rows
Cut(rows, data) == SubSeq(rows, 1, IF Len(rows) < Len(data) THEN Len(rows) ELSE Len(data))

WithoutEmpty(rows, data) == IF data # <<>> /\ rows = <<Empty>> THEN <<>> ELSE rows
OrEmpty(rows)            == IF rows = <<>> THEN <<Empty>> ELSE rows

(* orderbook.js: a level of size 0 clears the table and ends the loop. Only the *)
(* last level of a list can have size 0 (OrderBook::getOrderBook): the last that *)
(* is left of a book, or a quote that was used up before better ones came.        *)
BookRowsFaulty(rows, data) == Cut(Overwritten(rows, data), data)
BookRows(rows, data) ==
    IF Zero \in Range(data) THEN <<>> ELSE Cut(Overwritten(rows, data), data)

SubmittedRows(rows, data) ==
    OrEmpty(Cut(Overwritten(WithoutEmpty(rows, data), data), data))

PortfolioRows(rows, data) == OrEmpty(Overwritten(WithoutEmpty(rows, data), data))

(* The handler of the waiting list throws at the first row that is there: it   *)
(* looks for the cancel form of the row in the wrong cell.                      *)
WaitingRows(rows, data) ==
    LET old == WithoutEmpty(rows, data)
    IN  IF old # <<>> /\ data # <<>> THEN old ELSE OrEmpty(Cut(Overwritten(old, data), data))

Rows(m, rows) ==
    CASE m.topic.list = "orderBook"       -> BookRows(rows, m.rows)
      [] m.topic.list = "submittedOrders" -> SubmittedRows(rows, m.rows)
      [] m.topic.list = "portfolio"       -> PortfolioRows(rows, m.rows)
      [] m.topic.list = "waitingList"     -> WaitingRows(rows, m.rows)

Receive(t) ==
    LET m == Head(inbox[t])
    IN  /\ inbox[t] # <<>>
        /\ inbox' = [inbox EXCEPT ![t] = Tail(@)]
        /\ tables' = [tables EXCEPT ![t][m.table] = Rows(m, @)]
        /\ UNCHANGED <<ticker, server, inputs>>

--------------------------------------------------------------------------------
Init ==
    /\ curSymbol = StockList[1]
    /\ \E start \in Starts :
          /\ tab = [t \in Tabs |-> Loaded(start.pages[t], curSymbol)]
          /\ books = [x \in Symbols \X BookTypes |-> start.book]
          /\ lists = [l \in Lists |-> start.list]
    /\ events = [t \in Tabs |-> 0]
    /\ tables = [t \in Tabs |-> NoRows]
    /\ inbox = [t \in Tabs |-> <<>>]
    /\ requests = {}
    /\ stored = <<>>
    /\ inputs = 0

Page(t) == StorageEvent(t) \/ ConnOpens(t) \/ LeakedOpens(t) \/ MainOpens(t) \/ Receive(t)

Next ==
    \/ \E t \in Tabs, s \in Symbols, form \in BOOLEAN : RefreshSymbol(t, s, form)
    \/ \E t \in Tabs : ToggleLock(t)
    \/ \E t \in Tabs : Page(t)
    \/ \E s \in Symbols, b \in BookTypes : ChangeBook(s, b)
    \/ \E l \in Lists : ChangeList(l)
    \/ CheckEverySecond
    \/ \E c \in requests : SendOnce(c)

Spec == Init /\ [][Next]_vars

(* The browser runs the event loop of each tab, and the thread of               *)
(* checkEverySecond goes on until the backend is stopped.                         *)
FairSpec == Spec /\ WF_vars(CheckEverySecond) /\ \A t \in Tabs : WF_vars(Page(t))

--------------------------------------------------------------------------------
(* Properties. *)

Levels  == (UNION {Range(l) : l \in Books}) \ {Zero}
Entries == (UNION {Range(l) : l \in UserLists}) \cup {Empty}
Tables  == BookTypes \cup Lists
Topics  == [list : {"orderBook"}, symbol : Symbols] \cup [list : Lists, symbol : {"user"}]

BookData == [topic : [list : {"orderBook"}, symbol : Symbols], table : BookTypes,
             rows : Books \cup {<<Zero>>}]
ListData == [topic : [list : Lists, symbol : {"user"}], table : Lists, rows : UserLists]

(* What passes through the push server: a book, or a list for the table of its name. *)
Data == BookData \cup {m \in ListData : m.table = m.topic.list}

Session(S) == [open : BOOLEAN, topics : SUBSET S]
Tab == [page : Pages, locked : BOOLEAN, title : Symbols, select : Symbols, leaked : Nat,
        conn : Session(Symbols), main : Session(Topics), ignored : BOOLEAN]

TypeOK ==
    /\ curSymbol \in Symbols
    /\ tab \in [Tabs -> Tab]
    /\ events \in [Tabs -> Nat]
    /\ tables \in [Tabs -> [Tables -> Seq(Levels \cup Entries)]]
    /\ \A t \in Tabs, n \in Tables :
          tables[t][n] \in Seq(IF n \in BookTypes THEN Levels ELSE Entries)
    /\ inbox \in [Tabs -> Seq(Data)]
    /\ books \in [Symbols \X BookTypes -> Books]
    /\ lists \in [Lists -> UserLists]
    /\ requests \subseteq Lists \cup {"orderBook"}
    /\ stored \in [DOMAIN stored -> Data]
    /\ \A x \in DOMAIN stored : stored[x].topic = x /\ Kept(stored[x])
    /\ inputs \in Nat

(***************************************************************************)
(* A tab that has let no change of symbol pass, whose events have arrived  *)
(* and whose sessions are open is about one symbol: the title of the chart, *)
(* the order form, the last price and the order books are those of          *)
(* cur_symbol, so that an order goes to the stock on the screen. The symbol *)
(* is read at load, when a session opens (also one that could not be        *)
(* closed) and in event handlers, while other tabs change it.               *)
(***************************************************************************)
TabFollows ==
    \A t \in Tabs :
        LET r == tab[t]
        IN  events[t] = 0 /\ ~r.ignored /\ r.conn.open /\ r.main.open =>
                /\ r.select = curSymbol
                /\ r.conn.topics = {curSymbol}
                /\ r.page = "orderbook" =>
                      r.title = curSymbol /\ r.main.topics = {Topic("orderBook", curSymbol)}

(***************************************************************************)
(* A page of submitted orders shows, when nothing is on its way to it, the *)
(* orders that the backend sent last, and no row of earlier ones, whenever  *)
(* it subscribed: the replay of what is stored and the messages that follow *)
(* leave no gap, and the rows that a handler reuses leave no trace.          *)
(***************************************************************************)
SubmittedShown ==
    \A t \in Tabs : \A topic \in tab[t].main.topics \cap DOMAIN stored :
        topic.list = "submittedOrders" /\ inbox[t] = <<>>
            => tables[t]["submittedOrders"] = OrEmpty(stored[topic].rows)

(* What a page can show of a book: nothing, if its last level is used up. *)
Showable(levels) == IF levels # <<>> /\ Last(levels) = Zero THEN <<>> ELSE levels

(***************************************************************************)
(* In the end, each page shows the order books of its symbol, or the        *)
(* positions of the user, as the backend has them, although the push server *)
(* does not store them and messages of any symbol may be on their way when  *)
(* a page is loaded. The exception is a book whose last level is used up:   *)
(* then the better levels in front of it are not shown either.              *)
(***************************************************************************)
PagesSettle ==
    <>[](\A t \in Tabs :
            /\ tab[t].page = "orderbook" =>
                  \A b \in BookTypes : \E s \in Symbols :
                     /\ tab[t].main.topics = {Topic("orderBook", s)}
                     /\ tables[t][b] = Showable(books[<<s, b>>])
            /\ tab[t].page = "myportfolio" => tables[t]["portfolio"] = OrEmpty(lists["portfolio"]))

================================================================================
