------------------------------- MODULE MCBookFeed ------------------------------
(***************************************************************************)
(* Small instances of BookFeed for TLC.                                    *)
(***************************************************************************)
EXTENDS BookFeed

Level(p) == <<p, Shift>> :> 1
Offer(p) == <<p, "X">> :> 1

MCStarts == {[GLB |-> Offer(1) @@ Offer(2), LOC |-> Level(1)]}

================================================================================
