----------------------------- MODULE LiveOrders -----------------------------
(***************************************************************************)
(* The statements db/src/models/events.rs runs on the table live_orders:   *)
(* one per kind of order event, and the query behind the order book.  A    *)
(* table is a function from primary keys to rows.                          *)
(***************************************************************************)
EXTENDS Integers, TLC

OrderStatus == {"open", "partially_filled", "filled", "cancelled"}

EmptyTable == << >>

\* INSERT ... ON CONFLICT (key) DO NOTHING: the row that is there stays.
Inserted(table, key, row) ==
  [k \in DOMAIN table \cup {key} |-> IF k \in DOMAIN table THEN table[k] ELSE row]

Placed(table, key, order, quantity) ==
  Inserted(table, key, [order |-> order, remaining_quantity |-> quantity, status |-> "open"])

\* Wrong on purpose: < for <=, so nothing is ever "filled".
ReducedNeverFilled(table, key, quantity) ==
  LET left == table[key].remaining_quantity - quantity
  IN IF key \notin DOMAIN table THEN table
     ELSE [table EXCEPT ![key].remaining_quantity = left,
                        ![key].status = IF left < 0 THEN "filled" ELSE "partially_filled"]

\* UPDATE ... WHERE: nothing happens when there is no such row, and the status
\* follows from the quantity whatever it was before.
Reduced(table, key, quantity) ==
  LET left == table[key].remaining_quantity - quantity
  IN IF key \notin DOMAIN table THEN table
     ELSE [table EXCEPT ![key].remaining_quantity = left,
                        ![key].status = IF left <= 0 THEN "filled" ELSE "partially_filled"]

\* Wrong on purpose: the taker's row is not updated.
MatchedMakerOnly(table, maker, taker, quantity, limit) == Reduced(table, maker, quantity)

\* The maker's row, then the taker's unless it was a market order.
Matched(table, maker, taker, quantity, limit) ==
  LET reduced == Reduced(table, maker, quantity)
  IN IF limit THEN Reduced(reduced, taker, quantity) ELSE reduced

Cancelled(table, key) ==
  IF key \in DOMAIN table THEN [table EXCEPT ![key].status = "cancelled"] ELSE table

\* SELECT ... WHERE status IN ('open', 'partially_filled')
Listed(table) ==
  {key \in DOMAIN table : table[key].status \in {"open", "partially_filled"}}
=============================================================================
