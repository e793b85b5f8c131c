---------------------------- MODULE IndexedEngine ----------------------------
(***************************************************************************)
(* The on-chain book beside the table live_orders that an indexer keeps    *)
(* which stores every event of every instruction once and in order: is the *)
(* table still the book?  PlaceOrder emits OrderPlaced and one             *)
(* OrderMatched per fill, MarketOrder one OrderMatched per fill with       *)
(* taker_order_id 0; nothing else that the handlers do is announced.       *)
(***************************************************************************)
EXTENDS MatchingEngineProperties, LiveOrders, SequencesExt

VARIABLES
  live_orders,
  released      \* history: orders whose rest was given back, their side being full

\* What is stored of a new order besides its quantity.
Announced(o) == [user_key |-> o.user_key, side |-> o.side,
                 token_type |-> o.token_type, price |-> o.price]

\* The events of the instruction that ends here, in the order of its log.
Stored ==
  LET placed == IF pc = "rest"
                THEN Placed(live_orders, taker.id, Announced(taker), taker.quantity)
                ELSE live_orders
  IN FoldLeft(LAMBDA table, fill :
                Matched(table, fill.maker, taker.id, fill.quantity, taker.id # 0),
              placed, fills)

IndexedInit == Init /\ live_orders = EmptyTable /\ released = {}

\* An instruction that fails leaves no event; one that commits leaves them all.
Commits == pc \in {"rest", "settle"} /\ pc' = "idle" /\ ~Errs

IndexedNext ==
  /\ Next
  /\ live_orders' = IF Commits THEN Stored ELSE live_orders
  /\ released' = IF Commits /\ Releases THEN released \cup {taker.id} ELSE released

indexed_vars == <<vars, live_orders, released>>

IndexedSpec == IndexedInit /\ [][IndexedNext]_indexed_vars

-----------------------------------------------------------------------------
Row(o) == [order |-> Announced(o), remaining_quantity |-> Left(o),
           status |-> IF o.filledquantity = 0 THEN "open" ELSE "partially_filled"]
OnChain == UNION {{saved.book[b][i] : i \in 1..Len(saved.book[b])} : b \in Books}

\* Every order of the committed book has its row, with the owner, side and
\* price it was announced with, what it has left, and the right status: the
\* quantities of the events add up to those of the book.
RestingOrdersListed ==
  \A o \in OnChain : o.id \in DOMAIN live_orders /\ live_orders[o.id] = Row(o)

\* What the table lists and the book has not is exactly what was given back
\* because a side was full: nothing tells the indexer of it.
OnlyReleasedLinger == Listed(live_orders) \ {o.id : o \in OnChain} = released

\* "LIVE_ORDERS - materialized orderbook state (the one you query for
\* orderbook)": an order the query lists rests on the committed book.
ListedOrdersRest == Listed(live_orders) \subseteq {o.id : o \in OnChain}

\* A row never goes back: what an order has left only shrinks, and an order
\* that left the book is not listed again.
RowsOnlyShrink ==
  [][\A key \in DOMAIN live_orders :
       /\ key \in DOMAIN live_orders'
       /\ live_orders'[key].remaining_quantity <= live_orders[key].remaining_quantity
       /\ key \in Listed(live_orders') => key \in Listed(live_orders)
       /\ live_orders'[key].remaining_quantity >= 0]_indexed_vars
=============================================================================
