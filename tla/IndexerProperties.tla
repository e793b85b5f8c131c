------------------------- MODULE IndexerProperties -------------------------
(***************************************************************************)
(* What the event-listener promises about its tables and its diffs, from   *)
(* what no crash, duplicate or interleaving may break to what it takes one *)
(* undisturbed source to keep.                                             *)
(***************************************************************************)
EXTENDS Indexer

Signatures == 1..TxBound
Keys == Markets \X Nat
Entries == Keys \X Nat
Orders == [order : Markets, remaining_quantity : Nat, status : OrderStatus]
MarketRows == [status : {"active", "settled", "closed"}, meta_data_url : Nat]

\* Types.  That remaining_quantity is a natural number also says that no order
\* is filled by more than it asked for.
TypeOK ==
  /\ \A key \in DOMAIN event_log : key[2] \in Signatures
  /\ \A m \in DOMAIN markets : m \in Markets /\ markets[m] \in MarketRows
  /\ \A key \in DOMAIN live_orders : key \in Keys /\ live_orders[key] \in Orders
  /\ \A row \in DOMAIN trades : row \in [signature : Signatures, key : Keys, quantity : Nat]
  /\ indexer_cursor \in Signatures \cup {0}
  /\ main.step \in {"boot", "list", "fetch", "connect", "listen", "pending"}
  /\ \A p \in Processes :
       /\ work[p].step \in {"store", "maker", "taker", "publish", "cursor"}
       /\ work[p].removed \subseteq Keys
       /\ work[p].added \subseteq Entries
  /\ posted \subseteq Signatures
  /\ book \subseteq Entries

Committed(n) == n \in DOMAIN ledger /\ ledger[n].ok
HasRow(n, i) == UniqueKey(n, ledger[n].events[i]) \in DOMAIN event_log
FullyStored(n) == \A i \in DOMAIN ledger[n].events : HasRow(n, i)

BookAfter(n) ==
  IF n = 0 THEN {}
  ELSE LET orders == ledger[n].after.orders
       IN {<<key, orders[key].left>> : key \in {k \in DOMAIN orders : orders[k].resting}}
MarketsAfter(n) == IF n = 0 THEN << >> ELSE ledger[n].after.markets
ListedEntries == {<<key, live_orders[key].remaining_quantity>> : key \in Listed(live_orders)}

-----------------------------------------------------------------------------
\* Whatever happens.

\* No fill is taken off a row twice, through however many sources, retries and
\* restarts it arrives: a row has at least what its order has left on chain.
NeverOverfilled ==
  \A key \in DOMAIN live_orders :
    live_orders[key].remaining_quantity >= chain.orders[key].left

\* trades has no unique key of its own and still holds no fill more often than
\* its transaction made it.
TradesHappened ==
  \A row \in DOMAIN trades :
    /\ Committed(row.signature)
    /\ trades[row] <= Cardinality({i \in DOMAIN ledger[row.signature].events :
                         LET e == ledger[row.signature].events[i]
                         IN /\ e.kind = "OrderMatched"
                            /\ <<e.market_id, e.order_id>> = row.key
                            /\ e.quantity = row.quantity})

\* The cursor only names a transaction of which something was stored: a
\* transaction of which every event failed is asked for again.
CursorStored ==
  indexer_cursor # 0 => \E key \in DOMAIN event_log : key[2] = indexer_cursor

\* No order, and no record that it was placed, without its market.
RowsHaveMarkets ==
  /\ \A key \in DOMAIN live_orders : key[1] \in DOMAIN markets
  /\ \A key \in DOMAIN event_log :
       key[1] = "OrderPlaced" => event_log[key].market_id \in DOMAIN markets

\* As long as main is the only source the cursor never goes back, over a
\* crash, a backfill and a reconnect.
CursorNeverGoesBack == [][indexer_cursor' >= indexer_cursor]_vars

\* A backfill that met no error has stored every event after the cursor it
\* started from, but for the orders of markets that are not in the database.
BackfillComplete ==
  main.step \in {"connect", "listen", "pending"} =>
    \A n \in (main.until + 1)..main.tip :
      Committed(n) =>
        \A i \in DOMAIN ledger[n].events :
          \/ HasRow(n, i)
          \/ /\ ledger[n].events[i].kind = "OrderPlaced"
             /\ ledger[n].events[i].market_id \notin DOMAIN markets

-----------------------------------------------------------------------------
\* With one undisturbed source.

CaughtUp == main.step = "listen" /\ MainIdle

\* Between two transactions the orders that the table lists are the book on
\* chain, with what each has left.
TableFollowsChain == CaughtUp => ListedEntries = BookAfter(main.at - 1)

\* Between two transactions a subscriber that applied every diff holds what
\* the table lists, each order once.
DiffsFollowTable == CaughtUp => book = ListedEntries

\* Between two transactions the rows of the markets are the markets' state.
MarketsFollowChain == CaughtUp => markets = MarketsAfter(main.at - 1)

\* Every transaction that succeeds is stored in the end, with all its events.
EverythingStored ==
  \A n \in Signatures : Committed(n) ~> n \in DOMAIN ledger /\ FullyStored(n)

-----------------------------------------------------------------------------
\* What the comments promise.

\* "tracks last processed slot/signature for crash recovery": when the process
\* starts, nothing up to the cursor is missing.
CursorTracksProcessed ==
  main.step = "boot" => \A n \in 1..indexer_cursor : Committed(n) => FullyStored(n)

\* "Without the remove, the in-memory orderbook would have two entries for the
\* same order_id": with it, no order has two.
OneEntryPerOrder == \A e, f \in book : e[1] = f[1] => e = f
=============================================================================
