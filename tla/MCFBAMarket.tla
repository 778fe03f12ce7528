------------------------------ MODULE MCFBAMarket ------------------------------
(***************************************************************************)
(* Small instances of FBAMarket for TLC.                                   *)
(***************************************************************************)
EXTENDS FBAMarket

Limit(s, p, q) == [kind |-> "LIMIT", side |-> s, price |-> p, size |-> q]
Market(s, q)   == [kind |-> "MARKET", side |-> s, price |-> 0, size |-> q]

(* Bids of two shares and asks of one or two at two prices, and market orders. *)
MCSubmissions ==
    {Limit("bid", p, 2) : p \in Prices}
        \cup {Limit("ask", 2, 2), Limit("ask", 3, 1)}
        \cup {Market("bid", 2), Market("ask", 1)}

(* Bids at one price, and asks that take one share of them or several. *)
OneLevel == {Limit("bid", 2, 2), Limit("ask", 2, 1), Limit("ask", 2, 4)}

================================================================================
