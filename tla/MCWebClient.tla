------------------------------ MODULE MCWebClient ------------------------------
(***************************************************************************)
(* Small instances of WebClient for TLC.                                   *)
(***************************************************************************)
EXTENDS WebClient

CONSTANTS t1, t2

MCStockList == <<"A", "B">>
(* The last level of a book may be a quote that is used up. *)
MCBooks     == {<<>>, <<"l2">>, <<"l1", "l2">>, <<"l1", Zero>>}
MCUserLists == {<<>>, <<"o1">>, <<"o1", "o2">>}

MCStart(p1, p2, book, list) ==
    [pages |-> (t1 :> p1 @@ t2 :> p2), book |-> book, list |-> list]

MCStarts == {MCStart("orderbook", "leaderboard", <<"l1", "l2">>, <<>>),
             MCStart("orderbook", "submittedorders", <<>>, <<"o1", "o2">>),
             MCStart("submittedorders", "submittedorders", <<>>, <<"o1">>),
             MCStart("myportfolio", "leaderboard", <<>>, <<>>)}

================================================================================
