--------------------------- MODULE MCContinuousMarket ---------------------------
(***************************************************************************)
(* Small instances of ContinuousMarket for TLC.                            *)
(***************************************************************************)
EXTENDS ContinuousMarket

(* What the data feed may deliver: quotes of one exchange, whose ask and bid   *)
(* do not cross and differ in size, and trades, whose exchange does not matter. *)
MCQuotes == {q \in [ask: FeedEntry, bid: FeedEntry] :
                /\ q.bid.price < q.ask.price
                /\ q.bid.dest = q.ask.dest
                /\ q.ask.size = 1 /\ q.bid.size = 2}
MCTrades == {t \in FeedEntry : t.dest = CHOOSE d \in Dests : TRUE}

(* A feed that repeats one quote. *)
OneQuote == {CHOOSE q \in MCQuotes : TRUE}

(***************************************************************************)
(* With a feed that repeats one quote, every ask and bid after the first    *)
(* ask and the first bid has the price, the size and the destination of the *)
(* one before on its side, and is skipped: the handler is not entered. This *)
(* is what the comment "if same price, size, and destination, skip" of      *)
(* operator() says.                                                        *)
(***************************************************************************)
RepeatedQuoteSkipped ==
    [][ReceiveFeed /\ 2 * delivered - Len(feed) >= 2 => phase' = "idle"]_vars

(* The feed of an instance without a data feed. *)
NoQuotes == {}
NoTrades == {}

Symmetry == Permutations(Traders)

================================================================================
