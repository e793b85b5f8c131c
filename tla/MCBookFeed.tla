----------------------------- MODULE MCBookFeed -----------------------------
(* An instance of the feed for TLC. *)
EXTENDS BookFeed

Ask(price, quantity) == [side |-> <<"yes", "sell">>, price |-> price, quantity |-> quantity]
Bid(price, quantity) == [side |-> <<"yes", "buy">>, price |-> price, quantity |-> quantity]

\* The second order can take a part of the first; the third goes before it.
AskBidAsk == <<Ask(2, 2), Bid(2, 1), Ask(1, 1)>>
=============================================================================
