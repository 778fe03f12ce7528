---------------------------- MODULE MCRiskManagement ----------------------------
(***************************************************************************)
(* Small instances of RiskManagement for TLC.                              *)
(***************************************************************************)
EXTENDS RiskManagement

CONSTANTS ibm, msft   \* two symbols

\* Orders that hold money, buy back, use the one lot of ibm and borrow the rest.
MCInputs ==
    {[side |-> "buy",  symbol |-> ibm,  price |-> 2, size |-> 2],
     [side |-> "buy",  symbol |-> ibm,  price |-> 0, size |-> 1],
     [side |-> "sell", symbol |-> ibm,  price |-> 2, size |-> 2],
     [side |-> "sell", symbol |-> msft, price |-> 1, size |-> 1]}
MCLongShares == [s \in Symbols |-> IF s = ibm THEN Lot ELSE 0]

\* A user without shares that sells.
SellInputs == {o \in MCInputs : o.side = "sell"}
NoShares == [s \in Symbols |-> 0]

================================================================================
