------------------------------- MODULE BookFeed --------------------------------
(***************************************************************************)
(* The way of the order books of one symbol from the market of the         *)
(* MatchingEngine over the BrokerageCenter to the clients (LibCoreClient): *)
(* whole books at logon, at subscription and from the broadcaster, and     *)
(* single updates in between.                                               *)
(*                                                                         *)
(* A book maps the place of an entry, its price and destination, to its    *)
(* size. The books are those of the asks, the lower price first; those of  *)
(* the bids are their mirror image. "feed" stands for the FIX session      *)
(* between the two servers and for m_obeBuff: both keep the order. The     *)
(* market is left open: any legal sequence of updates of its books.        *)
(* A target list is copied and used in one step: between the two a target   *)
(* that unsubscribes would get one message more. Connections do not fail.   *)
(* An operator XFaulty is X with a plausible mistake; nothing uses it.      *)
(***************************************************************************)
EXTENDS SequencesExt, Integers

CONSTANTS
    Clients,      \* the targets of the acceptor of the BrokerageCenter
    Prices,       \* the prices of the entries
    Sizes,        \* the sizes of the entries
    Dests,        \* the exchanges of the data feed
    Shift,        \* the destination of the entries of the local book
    Starts,       \* the books that the market may have at the start
    MaxUpdates,   \* bound: updates of the books of the market
    MaxRequests,  \* bound: requests of the clients
    MaxWire       \* bound: the broadcaster waits for a client with more messages

Kinds      == {"GLB", "LOC"}
Places     == (Prices \X Dests) \cup (Prices \X {Shift})
Books      == UNION {[D -> Sizes \cup {0}] : D \in SUBSET Places}

ASSUME FeedAssumption ==
    /\ Prices \subseteq Nat \ {0}
    /\ Sizes \subseteq Nat \ {0}
    /\ Shift \notin Dests
    /\ Starts \subseteq [Kinds -> Books]
    /\ IsFiniteSet(Prices) /\ IsFiniteSet(Dests)

VARIABLES
    market,      \* the books of the market, GLB_ASK and LOC_ASK
    logon,       \* how far the logon of the BrokerageCenter has got
    feed,        \* entries on their way to the order books of the BrokerageCenter
    books,       \* m_globalAskOrderBook, m_localAskOrderBook
    process,     \* where the thread of OrderBook::process is
    targets,     \* m_targetsInfo
    recorded,    \* the targets in m_orderBookSymbolsByTargetID
    acceptor,    \* the clients between the two halves of onSubscribeOrderBook
    subscribed,  \* the clients with the symbol in m_subscribedOrderBookSet
    requests,    \* requests on their way from each client
    wire,        \* messages on their way to each client
    clientBooks, \* m_orderBooks of each client
    unseen,      \* history: books that changed between the two halves of the logon
    gaps,        \* history: books of which a client missed an update since it got them whole
    counts       \* history: numbers of updates and requests, for the bounds

center == <<books, process, targets, recorded, acceptor>>
source == <<market, logon, unseen>>
client == <<subscribed, requests, clientBooks>>
vars   == <<market, logon, feed, books, process, targets, recorded, acceptor,
            subscribed, requests, wire, clientBooks, unseen, gaps, counts>>

--------------------------------------------------------------------------------
(* Books and their updates. *)

Entry(kind, place, size) == [kind |-> kind, place |-> place, size |-> size]

NoBook == <<>>

(* An entry with price 0 says that the book is to be cleared. *)
Clear(kind) == Entry(kind, <<0, Shift>>, 0)

Clears(e) == e.place[1] = 0

With(book, place, size) ==
    [p \in DOMAIN book \cup {place} |-> IF p = place THEN size ELSE book[p]]
Without(book, place) == Restrict(book, DOMAIN book \ {place})

(* saveGlobalAskOrderBookUpdate: a quote is the best, whatever its size. *)
SaveGlobal(book, e) ==
    [p \in {p \in DOMAIN book : p[1] >= e.place[1]} \cup {e.place} |->
        IF p = e.place THEN e.size ELSE book[p]]

(* s_saveLocalOrderBookUpdate: a level of size 0 is none. *)
SaveLocal(book, e) ==
    IF e.size > 0 THEN With(book, e.place, e.size) ELSE Without(book, e.place)

SaveFaulty(book, e) == IF e.kind = "GLB" THEN SaveGlobal(book, e) ELSE SaveLocal(book, e)
Save(book, e) ==
    IF Clears(e) THEN NoBook
    ELSE IF e.kind = "GLB" THEN SaveGlobal(book, e) ELSE SaveLocal(book, e)

(* update of the books of the client. A level of size 0 that the client does not *)
(* know is inserted.                                                               *)
ClientUpdate(book, e) ==
    IF Clears(e) THEN NoBook
    ELSE IF e.kind = "GLB" THEN SaveGlobal(book, e)
    ELSE IF e.size > 0 \/ e.place \notin DOMAIN book THEN With(book, e.place, e.size)
    ELSE Without(book, e.place)

(* What of a book counts: entries of size 0 are kept by some and not by others. *)
SizeAt(book, p) == IF p \in DOMAIN book THEN book[p] ELSE 0

--------------------------------------------------------------------------------
(* The MatchingEngine. *)

(* The entries of a book in the order of its list, the worst price first. The order *)
(* of those with the same price is not kept here: any.                                *)
WorstFirstFaulty(kind, book) ==
    {[i \in DOMAIN at |-> Entry(kind, at[i], book[at[i]])] :
        at \in {s \in Bijection(1..Cardinality(DOMAIN book), DOMAIN book) :
                  \A i, j \in DOMAIN s : i < j => s[i][1] <= s[j][1]}}
WorstFirst(kind, book) ==
    {[i \in DOMAIN at |-> Entry(kind, at[i], book[at[i]])] :
        at \in {s \in Bijection(1..Cardinality(DOMAIN book), DOMAIN book) :
                  \A i, j \in DOMAIN s : i < j => s[i][1] >= s[j][1]}}

(* sendOrderBookData: each book is cleared and sent as updates. *)
OrderBookData(quotes, levels) ==
    <<Clear("GLB")>> \o quotes \o <<Clear("LOC")>> \o levels

(* The market sends an update with m_spinlock held, to the targets that are in *)
(* m_targetSet by now.                                                            *)
MarketChanges(book, e) ==
    /\ counts.updates < MaxUpdates
    /\ counts' = [counts EXCEPT !.updates = @ + 1]
    /\ market' = [market EXCEPT ![e.kind] = book]
    /\ feed' = IF logon = "registered" THEN Append(feed, e) ELSE feed
    /\ unseen' = IF logon = "sent" THEN unseen \cup {e.kind} ELSE unseen
    /\ UNCHANGED <<logon, center, client, wire, gaps>>

(* An order that rests or is cancelled, or executions, change a local level. *)
LocalLevel(price, size) ==
    LET place == <<price, Shift>>
        e == Entry("LOC", place, size)
    IN  /\ size = 0 => place \in DOMAIN market["LOC"]
        /\ SaveLocal(market["LOC"], e) # market["LOC"]
        /\ MarketChanges(SaveLocal(market["LOC"], e), e)

(* updateGlobalAsks *)
Quote(price, dest, size) ==
    LET e == Entry("GLB", <<price, dest>>, size)
    IN  MarketChanges(SaveGlobal(market["GLB"], e), e)

(* executeGlobalOrder: some or all shares of a best quote are taken. *)
TakeQuote(place, left) ==
    LET book == market["GLB"]
    IN  /\ place \in DOMAIN book
        /\ \A p \in DOMAIN book : place[1] <= p[1]
        /\ left < book[place]
        /\ MarketChanges(IF left > 0 THEN With(book, place, left) ELSE Without(book, place),
                         Entry("GLB", place, left))

(* onLogon: the books are sent, with m_spinlock held, and then the target is registered. *)
LogonSends ==
    /\ logon = "none"
    /\ logon' = "sent"
    /\ \E quotes \in WorstFirst("GLB", market["GLB"]), levels \in WorstFirst("LOC", market["LOC"]) :
          feed' = feed \o OrderBookData(quotes, levels)
    /\ UNCHANGED <<market, center, client, wire, unseen, gaps, counts>>

LogonRegisters ==
    /\ logon = "sent"
    /\ logon' = "registered"
    /\ UNCHANGED <<market, feed, center, client, wire, unseen, gaps, counts>>

--------------------------------------------------------------------------------
(* The BrokerageCenter. *)

Snapshot(kind, book)  == [whole |-> TRUE, kind |-> kind, book |-> book]
Update(e)             == [whole |-> FALSE, entry |-> e]

(* broadcastWholeOrderBookToOne, ...ToAll: the books that are not empty. *)
IfAny(kind) == IF books[kind] = NoBook THEN <<>> ELSE <<Snapshot(kind, books[kind])>>
WholeBooksFaulty == IF books["GLB"] = NoBook THEN IfAny("LOC") ELSE IfAny("GLB")
WholeBooks       == IfAny("GLB") \o IfAny("LOC")

SendWhole(to) ==
    /\ wire' = [c \in Clients |-> IF c \in to THEN wire[c] \o WholeBooks ELSE wire[c]]
    /\ gaps' = [c \in Clients |-> IF c \in to THEN {k \in gaps[c] : books[k] = NoBook}
                                  ELSE gaps[c]]

(* OrderBook::process saves the first entry and then sends it to the targets, before *)
(* it removes it from the buffer.                                                       *)
SaveUpdate ==
    LET e == Head(feed)
    IN  /\ process = "wait" /\ feed # <<>>
        /\ books' = [books EXCEPT ![e.kind] = Save(@, e)]
        /\ process' = "saved"
        /\ UNCHANGED <<source, feed, targets, recorded, acceptor, client, wire, gaps, counts>>

SendUpdate ==
    LET e == Head(feed)
    IN  /\ process = "saved"
        /\ wire' = [c \in Clients |-> IF c \in targets THEN Append(wire[c], Update(e)) ELSE wire[c]]
        /\ gaps' = [c \in Clients |-> IF c \in targets THEN gaps[c] ELSE gaps[c] \cup {e.kind}]
        /\ feed' = Tail(feed)
        /\ process' = "wait"
        /\ UNCHANGED <<source, books, targets, recorded, acceptor, client, counts>>

(* The one thread of the acceptor serves requests and logouts, one after the other. *)
(* onSubscribeOrderBook sends the whole books and then registers the target.          *)
Serves(c, request) == acceptor = {} /\ requests[c] # <<>> /\ Head(requests[c]) = request

Served(c) == requests' = [requests EXCEPT ![c] = Tail(@)]

SubscribeSends(c) ==
    /\ Serves(c, "subscribe")
    /\ acceptor' = {c}
    /\ SendWhole({c})
    /\ Served(c)
    /\ UNCHANGED <<source, feed, books, process, targets, recorded, subscribed, clientBooks, counts>>

SubscribeRegisters(c) ==
    /\ acceptor = {c}
    /\ acceptor' = {}
    /\ targets' = targets \cup {c}
    /\ recorded' = recorded \cup {c}
    /\ UNCHANGED <<source, feed, books, process, client, wire, gaps, counts>>

OnUnsubscribe(c) ==
    /\ Serves(c, "unsubscribe")
    /\ targets' = targets \ {c}
    /\ Served(c)
    /\ UNCHANGED <<source, feed, books, process, recorded, acceptor, subscribed, wire,
                   clientBooks, gaps, counts>>

(* unregisterTargetFromOrderBooks *)
OnLogout(c) ==
    /\ Serves(c, "logout")
    /\ targets' = IF c \in recorded THEN targets \ {c} ELSE targets
    /\ recorded' = recorded \ {c}
    /\ Served(c)
    /\ UNCHANGED <<source, feed, books, process, acceptor, subscribed, wire, clientBooks,
                   gaps, counts>>

(* broadcastWholeOrderBookToAll, once every BROADCAST_ORDERBOOK_PERIOD. *)
BroadcastOrderBooks ==
    /\ targets # {}
    /\ \A c \in targets : Len(wire[c]) <= MaxWire
    /\ SendWhole(targets)
    /\ UNCHANGED <<source, feed, center, client, counts>>

--------------------------------------------------------------------------------
(* The clients. *)

(* subOrderBook, also if subscribed already; unsubOrderBook; disconnectBrokerageCenter. *)
Request(c, request) ==
    /\ counts.requests < MaxRequests
    /\ counts' = [counts EXCEPT !.requests = @ + 1]
    /\ request = "unsubscribe" => c \in subscribed
    /\ requests' = [requests EXCEPT ![c] = Append(@, request)]
    /\ subscribed' = IF request = "subscribe" THEN subscribed \cup {c} ELSE subscribed \ {c}
    /\ UNCHANGED <<source, feed, center, wire, clientBooks, gaps>>

(* setOrderBook *)
SetOrderBookFaulty(book, whole) == whole @@ book
SetOrderBook(book, whole) == whole

Receive(c) ==
    LET m == Head(wire[c])
    IN  /\ wire[c] # <<>>
        /\ wire' = [wire EXCEPT ![c] = Tail(@)]
        /\ clientBooks' = IF m.whole
                          THEN [clientBooks EXCEPT ![c][m.kind] = SetOrderBook(@, m.book)]
                          ELSE [clientBooks EXCEPT ![c][m.entry.kind] = ClientUpdate(@, m.entry)]
        /\ UNCHANGED <<source, feed, center, subscribed, requests, gaps, counts>>

--------------------------------------------------------------------------------
Empty == [k \in Kinds |-> NoBook]

Init ==
    /\ market \in Starts
    /\ logon = "none"
    /\ feed = <<>>
    /\ books = Empty
    /\ process = "wait"
    /\ targets = {}
    /\ recorded = {}
    /\ acceptor = {}
    /\ subscribed = {}
    /\ requests = [c \in Clients |-> <<>>]
    /\ wire = [c \in Clients |-> <<>>]
    /\ clientBooks = [c \in Clients |-> Empty]
    /\ unseen = {}
    /\ gaps = [c \in Clients |-> {}]
    /\ counts = [updates |-> 0, requests |-> 0]

Market ==
    \/ \E p \in Prices, s \in Sizes \cup {0} : LocalLevel(p, s)
    \/ \E p \in Prices, d \in Dests, s \in Sizes : Quote(p, d, s)
    \/ \E p \in Prices, d \in Dests, left \in Sizes \cup {0} : TakeQuote(<<p, d>>, left)

Process == SaveUpdate \/ SendUpdate

Acceptor ==
    \E c \in Clients : \/ SubscribeSends(c) \/ SubscribeRegisters(c)
                       \/ OnUnsubscribe(c) \/ OnLogout(c)

Next ==
    \/ Market
    \/ LogonSends \/ LogonRegisters
    \/ Process \/ BroadcastOrderBooks \/ Acceptor
    \/ \E c \in Clients, r \in {"subscribe", "unsubscribe", "logout"} : Request(c, r)
    \/ \E c \in Clients : Receive(c)

Spec == Init /\ [][Next]_vars

(* The threads of the BrokerageCenter and of the clients run on. The market and *)
(* the users need not do anything.                                               *)
FairSpec ==
    /\ Spec
    /\ WF_vars(LogonSends \/ LogonRegisters)
    /\ WF_vars(Process)
    /\ WF_vars(BroadcastOrderBooks)
    /\ WF_vars(Acceptor)
    /\ \A c \in Clients : WF_vars(Receive(c))

--------------------------------------------------------------------------------
(* Properties. *)

Entries  == [kind: Kinds, place: Places \cup {<<0, Shift>>}, size: Sizes \cup {0}]
Messages == [whole: {TRUE}, kind: Kinds, book: Books] \cup [whole: {FALSE}, entry: Entries]

TypeOK ==
    /\ market \in [Kinds -> Books] /\ unseen \subseteq Kinds
    /\ logon \in {"none", "sent", "registered"}
    /\ feed \in Seq(Entries)
    /\ books \in [Kinds -> Books]
    /\ process \in {"wait", "saved"} /\ (process = "saved" => feed # <<>>)
    /\ targets \cup recorded \cup acceptor \cup subscribed \subseteq Clients
    /\ requests \in [Clients -> Seq({"subscribe", "unsubscribe", "logout"})]
    /\ wire \in [Clients -> Seq(Messages)]
    /\ clientBooks \in [Clients -> [Kinds -> Books]]
    /\ gaps \in [Clients -> SUBSET Kinds]
    /\ counts \in [updates: Nat, requests: Nat]

(* What a message says of place p of the book of kind k: nothing, or the size that *)
(* is left there. A quote says that there is none before it.                          *)
Saying(entry, k, p) ==
    [says |-> entry.kind = k /\ (Clears(entry) \/ entry.place = p \/ (k = "GLB" /\ p[1] < entry.place[1])),
     size |-> IF entry.place = p THEN entry.size ELSE 0]
Telling(message, k, p) ==
    IF message.whole THEN [says |-> message.kind = k, size |-> SizeAt(message.book, p)]
    ELSE Saying(message.entry, k, p)

(* What is at a place once all has arrived: what is said last, or what was there. *)
InTheEnd(sayings, was) ==
    LET says == {i \in DOMAIN sayings : sayings[i].says}
    IN  IF says = {} THEN was ELSE sayings[Max(says)].size

(***************************************************************************)
(* When all that is on its way has arrived, the BrokerageCenter has the    *)
(* books of the market, unless a book changed between the two halves of    *)
(* the logon: the books that are sent at logon as updates, worst price     *)
(* first, and the updates that follow lose nothing, although each quote     *)
(* removes the better ones.                                                  *)
(***************************************************************************)
MirrorExact ==
    logon # "none" =>
        \A k \in Kinds \ unseen : \A p \in Places :
            InTheEnd([i \in DOMAIN feed |-> Saying(feed[i], k, p)], SizeAt(books[k], p))
                = SizeAt(market[k], p)

(***************************************************************************)
(* A client that missed no update since it got a book has, when all has    *)
(* arrived, the book of the BrokerageCenter: whole books and updates come   *)
(* from three threads, and no order of them leaves an older level behind.   *)
(***************************************************************************)
ClientCurrent ==
    \A c \in Clients : \A k \in Kinds \ gaps[c] : \A p \in Places :
        (process # "wait" => Head(feed).kind # k) =>
            InTheEnd([i \in DOMAIN wire[c] |-> Telling(wire[c][i], k, p)], SizeAt(clientBooks[c][k], p))
                = SizeAt(books[k], p)

Refreshed(c, k) ==
    c \in targets => \A p \in Places : SizeAt(clientBooks[c][k], p) = SizeAt(books[k], p)

(***************************************************************************)
(* The broadcaster repairs every book that is not empty: a subscriber gets *)
(* it in the end, whatever updates it missed and whatever it had before.   *)
(***************************************************************************)
NonEmptyRefreshed ==
    <>[](\A c \in Clients, k \in Kinds : books[k] # NoBook => Refreshed(c, k))

(***************************************************************************)
(* The broadcaster forces a refresh of every book of a subscriber.         *)
(***************************************************************************)
AllRefreshed == <>[](\A c \in Clients, k \in Kinds : Refreshed(c, k))

================================================================================
