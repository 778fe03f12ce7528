------------------------------ MODULE OrderLedger ------------------------------
(***************************************************************************)
(* What a matching engine promises its clients about shares, whatever      *)
(* its matching rule: every share a client submits is at any time open,    *)
(* executed or cancelled; an execution takes shares that are still open    *)
(* and never from two orders of one trader; nothing is given back.         *)
(***************************************************************************)
EXTENDS Integers, Sequences

CONSTANTS Traders,   \* the traders that submit orders
          Sizes      \* the sizes an order may have, positive numbers

VARIABLE ledger      \* one entry per submitted order, in the order of submission

Entry == [trader: Traders, submitted: Sizes, filled: Nat, cancelled: Nat]

Open(i) == ledger[i].submitted - ledger[i].filled - ledger[i].cancelled

Init == ledger = <<>>

Submit(t, q) ==
    ledger' = Append(ledger, [trader |-> t, submitted |-> q, filled |-> 0, cancelled |-> 0])

\* Two orders of the market trade q shares with each other.
TradePair(i, j, q) ==
    /\ ledger[i].trader # ledger[j].trader
    /\ q <= Open(j)
    /\ ledger' = [ledger EXCEPT ![i].filled = @ + q, ![j].filled = @ + q]

\* An order trades q shares with the liquidity of the data feed.
TradeExternal(i, q) == ledger' = [ledger EXCEPT ![i].filled = @ + q]

Cancel(i, q) == ledger' = [ledger EXCEPT ![i].cancelled = @ + q]

Next ==
    \/ \E t \in Traders, q \in Sizes : Submit(t, q)
    \/ \E i \in DOMAIN ledger : \E q \in 1..Open(i) :
          \/ \E j \in DOMAIN ledger : TradePair(i, j, q)
          \/ TradeExternal(i, q)
          \/ Cancel(i, q)

Spec == Init /\ [][Next]_ledger

TypeOK == ledger \in Seq(Entry)

(***************************************************************************)
(* No order is executed and cancelled for more shares than were submitted. *)
(***************************************************************************)
NoOverfill == \A i \in DOMAIN ledger : Open(i) >= 0

================================================================================
