---------------------------- MODULE IndexerProofs ----------------------------
(***************************************************************************)
(* What no fault of the event-listener breaks, for any markets, tasks,     *)
(* faults and ledgers: no row without its market, no cursor without        *)
(* something stored of its transaction, no fill taken off a row twice and  *)
(* no trade that did not happen.  The last two rest on the chain: what an  *)
(* order has traded is the sum of what the events on the ledger say.       *)
(***************************************************************************)
EXTENDS IndexerProperties, SumTheorems, SequenceTheorems, TLAPS

-----------------------------------------------------------------------------
(* The tables *)

LEMMA UniqueKeyParts ==
  ASSUME NEW s, NEW e
  PROVE  UniqueKey(s, e)[1] = e.kind /\ UniqueKey(s, e)[2] = s
<1>1. CASE e.kind \in OrderEvents
  BY <1>1 DEF UniqueKey, OrderEvents, MarketEvents
<1>2. CASE e.kind \in MarketEvents
  BY <1>2 DEF UniqueKey, OrderEvents, MarketEvents
<1>3. CASE e.kind \notin OrderEvents \cup MarketEvents
  BY <1>3 DEF UniqueKey
<1> QED BY <1>1, <1>2, <1>3

\* A new row of event_log leaves those that are there alone.
LEMMA LoggedAdds ==
  ASSUME NEW p, Logged(p)
  PROVE  /\ DOMAIN event_log' = DOMAIN event_log \cup {RowKey(p)}
         /\ \A key \in DOMAIN event_log : event_log'[key] = event_log[key]
         /\ RowKey(p) \notin DOMAIN event_log => event_log'[RowKey(p)] = Ev(p)
BY DEF Logged, Inserted

LEMMA PlacedRows ==
  ASSUME NEW table, NEW key, NEW order, NEW quantity
  PROVE  DOMAIN Placed(table, key, order, quantity) = DOMAIN table \cup {key}
BY DEF Placed, Inserted

LEMMA ReducedRows ==
  ASSUME NEW table, NEW key, NEW quantity
  PROVE  DOMAIN Reduced(table, key, quantity) = DOMAIN table
BY DEF Reduced

LEMMA MatchedRows ==
  ASSUME NEW table, NEW maker, NEW taker, NEW quantity, NEW limit
  PROVE  DOMAIN Matched(table, maker, taker, quantity, limit) = DOMAIN table
BY ReducedRows DEF Matched

LEMMA CancelledRows ==
  ASSUME NEW table, NEW key
  PROVE  DOMAIN Cancelled(table, key) = DOMAIN table
BY DEF Cancelled

-----------------------------------------------------------------------------
(* No row without its market *)

LEMMA MarketsKept ==
  ASSUME RowsHaveMarkets, DOMAIN markets \subseteq DOMAIN markets',
         DOMAIN live_orders' = DOMAIN live_orders, event_log' = event_log
  PROVE  RowsHaveMarkets'
BY DEF RowsHaveMarkets

\* An event of another kind than OrderPlaced can be logged.
LEMMA OtherLogged ==
  ASSUME RowsHaveMarkets, DOMAIN markets \subseteq DOMAIN markets',
         DOMAIN live_orders' = DOMAIN live_orders,
         NEW p, Logged(p), Ev(p).kind # "OrderPlaced"
  PROVE  RowsHaveMarkets'
<1>1. RowKey(p)[1] # "OrderPlaced"
  BY UniqueKeyParts DEF RowKey
<1>2. /\ DOMAIN event_log' = DOMAIN event_log \cup {RowKey(p)}
      /\ \A key \in DOMAIN event_log : event_log'[key] = event_log[key]
  BY LoggedAdds
<1>3. ASSUME NEW key \in DOMAIN event_log', key[1] = "OrderPlaced"
      PROVE  event_log'[key].market_id \in DOMAIN markets'
  <2>1. key \in DOMAIN event_log /\ event_log'[key] = event_log[key]
    BY <1>1, <1>2, <1>3
  <2> QED BY <1>3, <2>1 DEF RowsHaveMarkets
<1> QED BY <1>3 DEF RowsHaveMarkets

LEMMA StoreKeepsMarkets ==
  ASSUME RowsHaveMarkets, NEW p \in Processes, Store(p)
  PROVE  RowsHaveMarkets'
<1>1. CASE StoreMarketInitialized(p)
  <2>1. DOMAIN markets \subseteq DOMAIN markets'
    BY <1>1 DEF StoreMarketInitialized, Inserted
  <2> QED BY <1>1, <2>1, OtherLogged DEF StoreMarketInitialized, Stores
<1>2. ASSUME NEW row, UpdateMarket(p, row), Ev(p).kind # "OrderPlaced"
      PROVE  RowsHaveMarkets'
  <2>1. DOMAIN markets' = DOMAIN markets
    BY <1>2 DEF UpdateMarket
  <2> QED BY <1>2, <2>1, OtherLogged DEF UpdateMarket
<1>3. CASE StoreWinningSideSet(p) \/ StoreMarketClosed(p) \/ StoreMetadataUpdated(p)
  BY <1>2, <1>3 DEF StoreWinningSideSet, StoreMarketClosed, StoreMetadataUpdated, Stores
<1>4. CASE StoreOrderPlaced(p)
  <2>1. CASE UNCHANGED <<event_log, live_orders>>
    BY <1>4, <2>1, MarketsKept DEF StoreOrderPlaced
  <2>2. CASE /\ MarketKnown(p) /\ Logged(p) /\ ~Duplicate(p)
             /\ live_orders' = Placed(live_orders, Key(p), Ev(p).market_id, Ev(p).quantity)
    <3>1. DOMAIN live_orders' = DOMAIN live_orders \cup {Key(p)}
      BY <2>2, PlacedRows
    <3>2. Key(p)[1] \in DOMAIN markets /\ markets' = markets
      BY <1>4, <2>2 DEF Key, MarketKnown, StoreOrderPlaced
    <3>3. event_log'[RowKey(p)].market_id \in DOMAIN markets
      BY <2>2, LoggedAdds DEF MarketKnown, Duplicate
    <3> QED BY <2>2, <3>1, <3>2, <3>3, LoggedAdds DEF RowsHaveMarkets
  <2> QED BY <1>4, <2>1, <2>2 DEF StoreOrderPlaced
<1>5. CASE StoreOrderMatched(p)
  <2>1. CASE UNCHANGED <<event_log, live_orders>>
    BY <1>5, <2>1, MarketsKept DEF StoreOrderMatched
  <2>2. CASE Logged(p) /\ live_orders' = Matched(live_orders, Key(p), TakerKey(p),
                                            Ev(p).quantity, Ev(p).taker_order_id # 0)
    <3>1. DOMAIN live_orders' = DOMAIN live_orders
      BY <2>2, MatchedRows
    <3> QED BY <1>5, <2>2, <3>1, OtherLogged DEF StoreOrderMatched, Stores
  <2> QED BY <1>5, <2>1, <2>2 DEF StoreOrderMatched
<1>6. CASE StoreOrderCancelled(p)
  <2>1. CASE UNCHANGED <<event_log, live_orders>>
    BY <1>6, <2>1, MarketsKept DEF StoreOrderCancelled
  <2>2. CASE Logged(p) /\ live_orders' = Cancelled(live_orders, Key(p))
    <3>1. DOMAIN live_orders' = DOMAIN live_orders
      BY <2>2, CancelledRows
    <3> QED BY <1>6, <2>2, <3>1, OtherLogged DEF StoreOrderCancelled, Stores
  <2> QED BY <1>6, <2>1, <2>2 DEF StoreOrderCancelled
<1>7. CASE StoreLogged(p)
  BY <1>7, OtherLogged DEF StoreLogged, Stores, LoggedEvents
<1> QED BY <1>1, <1>3, <1>4, <1>5, <1>6, <1>7 DEF Store

LEMMA StepKeepsMarkets == RowsHaveMarkets /\ [Next]_vars => RowsHaveMarkets'
<1> SUFFICES ASSUME RowsHaveMarkets, [Next]_vars PROVE RowsHaveMarkets'
  OBVIOUS
<1>1. CASE UNCHANGED <<event_log, markets, live_orders>>
  BY <1>1, MarketsKept
<1>2. ASSUME NEW p \in Processes, HandleEvent(p) PROVE RowsHaveMarkets'
  <2>1. CASE Store(p)
    BY <2>1, StoreKeepsMarkets
  <2>2. CASE ReadMaker(p) \/ ReadTaker(p) \/ PublishDiff(p) \/ UpdateCursor(p)
    BY <1>1, <2>2 DEF ReadMaker, ReadTaker, PublishDiff, UpdateCursor
  <2>3. CASE RedisUnavailable(p) \/ DatabaseFails(p)
    BY <1>1, <2>3 DEF RedisUnavailable, DatabaseFails, db
  <2> QED BY <1>2, <2>1, <2>2, <2>3 DEF HandleEvent
<1>3. CASE NewTransaction \/ MainStep \/ Crash \/ UNCHANGED vars
  BY <1>1, <1>3 DEF NewTransaction, MainStep, Crash, vars, db
<1>4. ASSUME NEW t \in Tasks, WebhookPost(t) PROVE RowsHaveMarkets'
  BY <1>1, <1>4 DEF WebhookPost, db
<1> QED BY <1>2, <1>3, <1>4 DEF Next

\* No order and no record that one was placed without its market, whatever
\* fails, whoever delivers the events and in whatever order they come.
THEOREM MarketsFirst == Spec => []RowsHaveMarkets
<1>1. Init => RowsHaveMarkets
  BY DEF Init, RowsHaveMarkets, EmptyTable
<1> QED BY <1>1, StepKeepsMarkets, PTL DEF Spec

-----------------------------------------------------------------------------
(* No cursor without a row *)

WorkTyped ==
  /\ DOMAIN work = Processes
  /\ \A p \in Processes : DOMAIN work[p] = {"todo", "step", "removed", "added"}

\* A process whose event is past its database transaction finds its row.
WorkLogged ==
  \A p \in Processes :
    work[p].step # "store" => work[p].todo # << >> /\ RowKey(p) \in DOMAIN event_log

CursorInv == WorkTyped /\ WorkLogged /\ CursorStored

\* A process that goes on with an event whose row is there, or that is done
\* with it, keeps the invariant, and no other process is disturbed.
LEMMA OneProcess ==
  ASSUME WorkTyped, WorkLogged, NEW p \in Processes, NEW w,
         DOMAIN event_log \subseteq DOMAIN event_log',
         work' = [work EXCEPT ![p] = w], DOMAIN w = DOMAIN work[p],
         w.step # "store" => /\ w.todo = work[p].todo /\ w.todo # << >>
                             /\ RowKey(p) \in DOMAIN event_log'
  PROVE  WorkTyped' /\ WorkLogged'
<1>1. work'[p] = w /\ \A q \in Processes \ {p} : work'[q] = work[q]
  BY DEF WorkTyped
<1>2. WorkTyped'
  BY <1>1 DEF WorkTyped
<1>3. ASSUME NEW q \in Processes, work'[q].step # "store"
      PROVE  work'[q].todo # << >> /\ RowKey(q)' \in DOMAIN event_log'
  <2>1. CASE q = p
    <3>1. RowKey(p)' = RowKey(p)
      BY <1>1, <1>3, <2>1 DEF RowKey, Signature, Ev, UniqueKey
    <3> QED BY <1>1, <1>3, <2>1, <3>1
  <2>2. CASE q # p
    <3>1. work'[q] = work[q]
      BY <1>1, <2>2
    <3>2. RowKey(q)' = RowKey(q)
      BY <3>1 DEF RowKey, Signature, Ev, UniqueKey
    <3> QED BY <1>3, <3>1, <3>2 DEF WorkLogged
  <2> QED BY <2>1, <2>2
<1> QED BY <1>2, <1>3 DEF WorkLogged

\* An event that is done with.
LEMMA DoneWith ==
  ASSUME WorkTyped, WorkLogged, NEW p \in Processes, Finish(p),
         DOMAIN event_log \subseteq DOMAIN event_log'
  PROVE  WorkTyped' /\ WorkLogged'
<1> DEFINE w == [Idle EXCEPT !.todo = Tail(work[p].todo)]
<1>1. w.step = "store" /\ DOMAIN w = {"todo", "step", "removed", "added"}
  BY DEF Idle
<1>2. work' = [work EXCEPT ![p] = w] /\ DOMAIN w = DOMAIN work[p]
  BY <1>1 DEF Finish, WorkTyped
<1> HIDE DEF w
<1> QED BY <1>1, <1>2, OneProcess

\* An event that goes on to another stop, with or without more for its diff.
LEMMA GoesOn ==
  ASSUME WorkTyped, WorkLogged, NEW p \in Processes, NEW step,
         Goto(p, step) \/ \E removed, added : Diff(p, step, removed, added),
         DOMAIN event_log \subseteq DOMAIN event_log',
         work[p].todo # << >>, RowKey(p) \in DOMAIN event_log'
  PROVE  WorkTyped' /\ WorkLogged'
<1>1. CASE Goto(p, step)
  <2> DEFINE w == [work[p] EXCEPT !.step = step]
  <2>1. w.todo = work[p].todo /\ DOMAIN w = DOMAIN work[p]
    BY DEF WorkTyped
  <2>2. work' = [work EXCEPT ![p] = w]
    BY <1>1 DEF Goto
  <2> HIDE DEF w
  <2> QED BY <2>1, <2>2, OneProcess
<1>2. ASSUME NEW removed, NEW added, Diff(p, step, removed, added)
      PROVE  WorkTyped' /\ WorkLogged'
  <2> DEFINE w == [work[p] EXCEPT !.step = step, !.removed = @ \cup removed,
                                  !.added = @ \cup added]
  <2>1. w.todo = work[p].todo /\ DOMAIN w = DOMAIN work[p]
    BY DEF WorkTyped
  <2>2. work' = [work EXCEPT ![p] = w]
    BY <1>2 DEF Diff, WorkTyped
  <2> HIDE DEF w
  <2> QED BY <2>1, <2>2, OneProcess
<1> QED BY <1>1, <1>2

\* One event's row written, and on to the next stop or the next event.
LEMMA StoreKeepsWork ==
  ASSUME WorkTyped, WorkLogged, NEW p \in Processes, Store(p)
  PROVE  WorkTyped' /\ WorkLogged' /\ DOMAIN event_log \subseteq DOMAIN event_log'
<1>1. DOMAIN event_log \subseteq DOMAIN event_log'
  BY LoggedAdds DEF Store, StoreMarketInitialized, StoreWinningSideSet, StoreMarketClosed,
     StoreMetadataUpdated, UpdateMarket, StoreOrderPlaced, StoreOrderMatched,
     StoreOrderCancelled, StoreLogged
<1>2. work[p].todo # << >>
  BY DEF Store, StoreMarketInitialized, StoreWinningSideSet, StoreMarketClosed,
     StoreMetadataUpdated, StoreOrderPlaced, StoreOrderMatched, StoreOrderCancelled,
     StoreLogged, Stores, Handles
<1>3. CASE Finish(p)
  BY <1>1, <1>3, DoneWith
<1>4. ASSUME Logged(p), NEW step, Goto(p, step) PROVE WorkTyped' /\ WorkLogged'
  BY <1>1, <1>2, <1>4, LoggedAdds, GoesOn
<1>5. ASSUME Logged(p), NEW removed, NEW added, Diff(p, "publish", removed, added)
      PROVE  WorkTyped' /\ WorkLogged'
  BY <1>1, <1>2, <1>5, LoggedAdds, GoesOn
<1> QED BY <1>1, <1>3, <1>4, <1>5 DEF Store, StoreMarketInitialized, StoreWinningSideSet,
     StoreMarketClosed, StoreMetadataUpdated, UpdateMarket, StoreOrderPlaced,
     StoreOrderMatched, StoreOrderCancelled, StoreLogged, Skip

LEMMA HandleEventKeepsCursor ==
  ASSUME CursorInv, NEW p \in Processes, HandleEvent(p)
  PROVE  CursorInv'
<1> USE DEF CursorInv
<1>1. CASE Store(p)
  <2>1. indexer_cursor' = indexer_cursor
    BY <1>1 DEF HandleEvent, Store, UpdateCursor, RedisUnavailable, DatabaseFails, Handles, db,
       StoreMarketInitialized, StoreWinningSideSet, StoreMarketClosed, StoreMetadataUpdated,
       StoreOrderPlaced, StoreOrderMatched, StoreOrderCancelled, StoreLogged, Stores
  <2>2. WorkTyped' /\ WorkLogged' /\ DOMAIN event_log \subseteq DOMAIN event_log'
    BY <1>1, StoreKeepsWork
  <2> QED BY <2>1, <2>2 DEF CursorStored
<1>2. ASSUME event_log' = event_log, indexer_cursor' = indexer_cursor
      PROVE  CursorStored'
  BY <1>2 DEF CursorStored
<1>3. ASSUME work[p].todo # << >>, work[p].step # "store", event_log' = event_log, NEW step,
             Goto(p, step) \/ \E removed, added : Diff(p, step, removed, added)
      PROVE  WorkTyped' /\ WorkLogged'
  <2>1. RowKey(p) \in DOMAIN event_log'
    BY <1>3 DEF WorkLogged
  <2> QED BY <1>3, <2>1, GoesOn
<1>4. CASE ReadMaker(p)
  <2>1. ReadBack(p, Key(p), AfterMaker(p)) /\ event_log' = event_log
    BY <1>4 DEF ReadMaker
  <2>2. work[p].todo # << >> /\ work[p].step # "store"
    BY <1>4 DEF ReadMaker, Handles
  <2>3. \/ Goto(p, AfterMaker(p))
        \/ \E removed, added : Diff(p, AfterMaker(p), removed, added)
    BY <2>1 DEF ReadBack
  <2>4. indexer_cursor' = indexer_cursor
    BY <1>4 DEF HandleEvent, ReadMaker, Handles, UpdateCursor, RedisUnavailable, DatabaseFails, db
  <2> QED BY <1>2, <1>3, <2>1, <2>2, <2>3, <2>4
<1>5. CASE ReadTaker(p)
  <2>1. ReadBack(p, TakerKey(p), "publish") /\ event_log' = event_log
    BY <1>5 DEF ReadTaker
  <2>2. work[p].todo # << >> /\ work[p].step # "store"
    BY <1>5 DEF ReadTaker, Handles
  <2>3. Goto(p, "publish") \/ \E removed, added : Diff(p, "publish", removed, added)
    BY <2>1 DEF ReadBack
  <2>4. indexer_cursor' = indexer_cursor
    BY <1>5 DEF HandleEvent, ReadTaker, Handles, UpdateCursor, RedisUnavailable, DatabaseFails, db
  <2> QED BY <1>2, <1>3, <2>1, <2>2, <2>3, <2>4
<1>6. CASE PublishDiff(p)
  <2>1. /\ Goto(p, "cursor") /\ event_log' = event_log
        /\ work[p].todo # << >> /\ work[p].step # "store"
    BY <1>6 DEF PublishDiff, Handles
  <2>2. indexer_cursor' = indexer_cursor
    BY <1>6 DEF HandleEvent, PublishDiff, Handles, UpdateCursor, RedisUnavailable, DatabaseFails, db
  <2> QED BY <1>2, <1>3, <2>1, <2>2
<1>7. CASE UpdateCursor(p)
  <2>1. /\ work[p].step # "store" /\ event_log' = event_log
        /\ indexer_cursor' = Signature(p) /\ Finish(p)
    BY <1>7 DEF UpdateCursor, Handles
  <2>2. RowKey(p) \in DOMAIN event_log /\ RowKey(p)[2] = Signature(p)
    BY <2>1, UniqueKeyParts DEF WorkLogged, RowKey
  <2> QED BY <2>1, <2>2, DoneWith DEF CursorStored
<1>8. CASE RedisUnavailable(p)
  BY <1>2, <1>8, DoneWith DEF RedisUnavailable, db
<1>9. CASE DatabaseFails(p)
  <2>1. event_log' = event_log /\ indexer_cursor' = indexer_cursor
    BY <1>9 DEF DatabaseFails, db
  <2>2. CASE Finish(p)
    BY <1>2, <2>1, <2>2, DoneWith
  <2>3. ASSUME Handles(p, "maker") \/ Handles(p, "taker"), NEW step, Goto(p, step)
        PROVE  CursorInv'
    BY <1>2, <1>3, <2>1, <2>3 DEF Handles
  <2> QED BY <1>9, <2>2, <2>3 DEF DatabaseFails
<1> QED BY <1>1, <1>4, <1>5, <1>6, <1>7, <1>8, <1>9 DEF HandleEvent

\* A process without an event can be given any.
LEMMA TakesOn ==
  ASSUME WorkTyped, WorkLogged, NEW p \in Processes, NEW todo, work[p].todo = << >>,
         work' = [work EXCEPT ![p].todo = todo], event_log' = event_log
  PROVE  WorkTyped' /\ WorkLogged'
<1> DEFINE w == [work[p] EXCEPT !.todo = todo]
<1>1. work[p].step = "store"
  BY DEF WorkLogged
<1>2. w.step = "store" /\ DOMAIN w = DOMAIN work[p]
  BY <1>1 DEF WorkTyped
<1>3. work' = [work EXCEPT ![p] = w]
  OBVIOUS
<1> HIDE DEF w
<1> QED BY <1>2, <1>3, OneProcess

LEMMA StepKeepsCursor == CursorInv /\ [Next]_vars => CursorInv'
<1> SUFFICES ASSUME CursorInv, [Next]_vars PROVE CursorInv'
  OBVIOUS
<1>1. ASSUME event_log' = event_log, indexer_cursor' = indexer_cursor,
             WorkTyped' /\ WorkLogged'
      PROVE  CursorInv'
  BY <1>1 DEF CursorInv, CursorStored
<1>2. ASSUME event_log' = event_log, indexer_cursor' = indexer_cursor, work' = work
      PROVE  CursorInv'
  BY <1>2 DEF CursorInv, CursorStored, WorkTyped, WorkLogged, RowKey, Signature, Ev, UniqueKey
<1>3. CASE NewTransaction \/ UNCHANGED vars
  BY <1>2, <1>3 DEF NewTransaction, vars, db
<1>4. CASE MainStep
  <2>1. event_log' = event_log /\ indexer_cursor' = indexer_cursor
    BY <1>4 DEF MainStep, db
  <2>2. CASE work' = work
    BY <1>2, <2>1, <2>2
  <2>3. ASSUME NEW n, MainIdle, Takes(n) PROVE CursorInv'
    <3>1. Main \in Processes
      BY DEF Processes
    <3> QED BY <1>1, <2>1, <2>3, <3>1, TakesOn DEF CursorInv, MainIdle, Takes
  <2>4. CASE FetchTransaction
    BY <2>2, <2>3, <2>4 DEF FetchTransaction
  <2>5. CASE Receive
    BY <2>2, <2>3, <2>5 DEF Receive
  <2> QED BY <1>4, <2>2, <2>4, <2>5
       DEF MainStep, ReadCursor, ListSignatures, EndBackfill, Subscribe, Disconnect
<1>5. ASSUME NEW p \in Processes, HandleEvent(p) PROVE CursorInv'
  BY <1>5, HandleEventKeepsCursor
<1>6. ASSUME NEW t \in Tasks, WebhookPost(t) PROVE CursorInv'
  <2>1. t \in Processes /\ work[t].todo = << >>
    BY <1>6 DEF Processes, WebhookPost
  <2>2. PICK todo : work' = [work EXCEPT ![t].todo = todo]
    BY <1>6 DEF WebhookPost
  <2>3. event_log' = event_log /\ indexer_cursor' = indexer_cursor
    BY <1>6 DEF WebhookPost, db
  <2> QED BY <1>1, <2>1, <2>2, <2>3, TakesOn DEF CursorInv
<1>7. CASE Crash
  <2>1. event_log' = event_log /\ indexer_cursor' = indexer_cursor
    BY <1>7 DEF Crash, db
  <2>2. WorkTyped' /\ WorkLogged'
    BY <1>7 DEF Crash, Idle, WorkTyped, WorkLogged
  <2> QED BY <1>1, <2>1, <2>2
<1> QED BY <1>3, <1>4, <1>5, <1>6, <1>7 DEF Next

\* The cursor names no transaction of which nothing was stored, through every
\* crash, failed write, redelivery and interleaving of the sources.
THEOREM CursorsStored == Spec => []CursorStored
<1>1. Init => CursorInv
  BY DEF Init, CursorInv, CursorStored, WorkTyped, WorkLogged, Idle
<1>2. CursorInv => CursorStored
  BY DEF CursorInv
<1> QED BY <1>1, <1>2, StepKeepsCursor, PTL DEF Spec

-----------------------------------------------------------------------------
(* The chain *)

Kinds == OrderEvents \cup MarketEvents \cup LoggedEvents
EventType == [kind : Kinds, market_id : Markets, order_id : Nat,
              taker_order_id : Nat, quantity : Nat]
OrderState == [quantity : Nat, left : Nat, resting : BOOLEAN]

OrdersOf(c, m) == {key \in DOMAIN c.orders : key[1] = m}
Numbers(m, k) == {<<m, i>> : i \in 1..k}

ChainTyped(c) ==
  /\ DOMAIN c = {"orders", "markets"}
  /\ DOMAIN c.orders \subseteq Keys
  /\ \A key \in DOMAIN c.orders : c.orders[key] \in OrderState
  /\ DOMAIN c.markets \subseteq Markets
  /\ \A m \in DOMAIN c.markets : c.markets[m] \in MarketRows
  /\ \A m \in Markets : \E k \in Nat : OrdersOf(c, m) = Numbers(m, k)

\* What an order has traded so far.
Spent(c, key) ==
  IF key \in DOMAIN c.orders THEN c.orders[key].quantity - c.orders[key].left ELSE 0

\* What an event takes off an order.
Takes1(e, key) ==
  IF e.kind = "OrderMatched" /\ e.market_id = key[1] /\ e.order_id = key[2]
  THEN e.quantity ELSE 0
Takes2(e, key) ==
  IF e.kind = "OrderMatched" /\ e.market_id = key[1] /\ e.taker_order_id = key[2]
     /\ e.taker_order_id # 0
  THEN e.quantity ELSE 0
Amount(e, key) == Takes1(e, key) + Takes2(e, key)

\* Orders stay, with the quantity they were placed with.
Grows(c, d) ==
  \A key \in DOMAIN c.orders :
    key \in DOMAIN d.orders /\ d.orders[key].quantity = c.orders[key].quantity

OrderKey(e) == <<e.market_id, e.order_id>>

EventFits(e, c) ==
  /\ e \in EventType
  /\ e.kind = "OrderPlaced" => /\ OrderKey(e) \in DOMAIN c.orders
                               /\ c.orders[OrderKey(e)].quantity = e.quantity

\* The accounts as an event tells them.
TakerOf(e) == <<e.market_id, e.taker_order_id>>
Paid(orders, key, n) ==
  [orders EXCEPT ![key] = [quantity |-> @.quantity, left |-> @.left - n,
                           resting |-> @.left > n]]
OrdersWith(orders, e) ==
  CASE e.kind = "OrderPlaced" ->
         With(orders, OrderKey(e),
              [quantity |-> e.quantity, left |-> e.quantity, resting |-> TRUE])
    [] e.kind = "OrderMatched" /\ e.taker_order_id = 0 ->
         Paid(orders, OrderKey(e), e.quantity)
    [] e.kind = "OrderMatched" /\ e.taker_order_id # 0 ->
         Paid(Paid(orders, OrderKey(e), e.quantity), TakerOf(e), e.quantity)
    [] e.kind = "OrderCancelled" -> [orders EXCEPT ![OrderKey(e)].resting = FALSE]
    [] OTHER -> orders
MarketsWith(table, e) ==
  CASE e.kind = "MarketInitialized" ->
         With(table, e.market_id, [status |-> "active", meta_data_url |-> 0])
    [] e.kind = "WinningSideSet" -> [table EXCEPT ![e.market_id].status = "settled"]
    [] e.kind = "MarketClosed" -> [table EXCEPT ![e.market_id].status = "closed"]
    [] e.kind = "MetadataUpdated" -> [table EXCEPT ![e.market_id].meta_data_url = e.quantity]
    [] OTHER -> table

\* What can be filled: an order that rests, by no more than it has left.
Fillable(c, key, n) ==
  key \in DOMAIN c.orders /\ c.orders[key].resting /\ n <= c.orders[key].left
\* What an event finds when it happens.
Finds(c, e) ==
  /\ e.kind = "MarketInitialized" => e.market_id \notin DOMAIN c.markets
  /\ e.kind \in {"WinningSideSet", "MarketClosed", "MetadataUpdated", "OrderPlaced"}
       => e.market_id \in DOMAIN c.markets
  /\ e.kind = "OrderPlaced" => OrderKey(e) \notin DOMAIN c.orders /\ e.quantity > 0
  /\ e.kind = "OrderCancelled" => OrderKey(e) \in DOMAIN c.orders
  /\ e.kind = "OrderMatched" =>
       /\ Fillable(c, OrderKey(e), e.quantity)
       /\ e.taker_order_id # 0 => /\ Fillable(c, TakerOf(e), e.quantity)
                                  /\ OrderKey(e) # TakerOf(e)
Tells(c, e, d) ==
  /\ Finds(c, e)
  /\ d.orders = OrdersWith(c.orders, e)
  /\ d.markets = MarketsWith(c.markets, e)

\* One event, and what it does to the accounts.
Advances(c, e, d) ==
  /\ ChainTyped(d)
  /\ Grows(c, d)
  /\ Tells(c, e, d)
  /\ EventFits(e, d)
  /\ \A key \in Keys : Spent(d, key) = Spent(c, key) + Amount(e, key)

LEMMA AmountTyped ==
  ASSUME NEW e \in EventType, NEW key \in Keys
  PROVE  Amount(e, key) \in Nat
BY DEF Amount, Takes1, Takes2, EventType

LEMMA NumbersAre ==
  ASSUME NEW m, NEW k \in Nat
  PROVE  /\ Cardinality(Numbers(m, k)) = k
         /\ <<m, k + 1>> \notin Numbers(m, k)
         /\ Numbers(m, k) \cup {<<m, k + 1>>} = Numbers(m, k + 1)
<1> DEFINE f == [i \in 1..k |-> <<m, i>>]
<1>1. f \in Bijection(1..k, Numbers(m, k))
  <2>1. \A i \in 1..k : f[i] = <<m, i>>  OBVIOUS
  <2>2. f \in [1..k -> Numbers(m, k)]  BY DEF Numbers
  <2>3. \A i, j \in 1..k : f[i] = f[j] => i = j  OBVIOUS
  <2>4. \A x \in Numbers(m, k) : \E i \in 1..k : f[i] = x  BY <2>1 DEF Numbers
  <2> HIDE DEF f
  <2> QED  BY <2>2, <2>3, <2>4 DEF Bijection, Injection, Surjection, IsInjective
<1>2. IsFiniteSet(1..k) /\ Cardinality(1..k) = k
  BY FS_Interval
<1>3. Cardinality(Numbers(m, k)) = k
  <2> HIDE DEF f
  <2>1. ExistsBijection(1..k, Numbers(m, k))  BY <1>1 DEF ExistsBijection
  <2> QED  BY <1>2, <2>1, FS_Bijection
<1>4. <<m, k + 1>> \notin Numbers(m, k)  BY DEF Numbers
<1>5. Numbers(m, k) \cup {<<m, k + 1>>} = Numbers(m, k + 1)
  <2>1. \A i \in Int : i \in 1..(k + 1) <=> i \in 1..k \/ i = k + 1  OBVIOUS
  <2> QED  BY <2>1 DEF Numbers
<1> QED  BY <1>3, <1>4, <1>5

\* A new order is new.
LEMMA NextIsNew ==
  ASSUME NEW c, ChainTyped(c), NEW m \in Markets
  PROVE  /\ NextOrder(c, m) \in Nat \ {0}
         /\ <<m, NextOrder(c, m)>> \notin DOMAIN c.orders
         /\ <<m, NextOrder(c, m)>> \in Keys
         /\ \E k \in Nat : OrdersOf(c, m) \cup {<<m, NextOrder(c, m)>>} = Numbers(m, k)
<1>1. PICK k \in Nat : OrdersOf(c, m) = Numbers(m, k)  BY DEF ChainTyped
<1>2. NextOrder(c, m) = k + 1  BY <1>1, NumbersAre DEF NextOrder, OrdersOf
<1>3. <<m, k + 1>> \notin DOMAIN c.orders
  <2>1. <<m, k + 1>> \notin OrdersOf(c, m)  BY <1>1, NumbersAre
  <2> QED  BY <2>1 DEF OrdersOf
<1>4. k + 1 \in Nat \ {0}  BY <1>1
<1> QED  BY <1>1, <1>2, <1>3, <1>4, NumbersAre DEF Keys

\* An event that is neither a placement nor a match, with the orders unchanged
\* but for whether they rest.
LEMMA OtherAdvances ==
  ASSUME NEW c, ChainTyped(c), NEW e \in EventType, NEW d, ChainTyped(d),
         e.kind \notin {"OrderPlaced", "OrderMatched"},
         DOMAIN d.orders = DOMAIN c.orders,
         \A key \in DOMAIN c.orders : /\ d.orders[key].quantity = c.orders[key].quantity
                                      /\ d.orders[key].left = c.orders[key].left,
         Tells(c, e, d)
  PROVE  Advances(c, e, d)
<1>1. Grows(c, d) /\ EventFits(e, d)  BY DEF Grows, EventFits
<1>2. ASSUME NEW key \in Keys PROVE Spent(d, key) = Spent(c, key) + Amount(e, key)
  <2>1. Amount(e, key) = 0  BY DEF Amount, Takes1, Takes2
  <2>2. Spent(d, key) = Spent(c, key)  BY DEF Spent
  <2>3. Spent(c, key) \in Int  BY DEF Spent, ChainTyped, OrderState
  <2> QED  BY <2>1, <2>2, <2>3
<1> QED  BY <1>1, <1>2 DEF Advances

LEMMA PlacedAdvances ==
  ASSUME NEW c, ChainTyped(c), NEW m \in Markets, m \in DOMAIN c.markets, NEW q \in Nat, q > 0
  PROVE  Advances(c, Event("OrderPlaced", m, NextOrder(c, m), 0, q), WithOrder(c, m, q))
<1> DEFINE new == <<m, NextOrder(c, m)>>
           d == WithOrder(c, m, q)
           e == Event("OrderPlaced", m, NextOrder(c, m), 0, q)
           row == [quantity |-> q, left |-> q, resting |-> TRUE]
<1>1. /\ DOMAIN d = {"orders", "markets"} /\ d.markets = c.markets
      /\ d.orders = With(c.orders, new, row)
  BY DEF WithOrder, ChainTyped
<1>2. NextOrder(c, m) \in Nat \ {0} /\ new \notin DOMAIN c.orders /\ new \in Keys
      /\ \E k \in Nat : OrdersOf(c, m) \cup {new} = Numbers(m, k)
  BY NextIsNew
<1>3. row \in OrderState  BY DEF OrderState
<1>4. /\ e \in EventType /\ e.kind = "OrderPlaced" /\ e.quantity = q /\ e.market_id = m
      /\ OrderKey(e) = new
  BY <1>2 DEF Event, EventType, Kinds, OrderEvents, OrderKey
<1>5. new[1] = m  OBVIOUS
<1> HIDE DEF new, d, e
<1>6. /\ DOMAIN d.orders = DOMAIN c.orders \cup {new}
      /\ d.orders[new] = row
      /\ \A key \in DOMAIN c.orders : d.orders[key] = c.orders[key]
  BY <1>1, <1>2 DEF With
<1>7. ChainTyped(d)
  <2>1. ASSUME NEW n \in Markets PROVE \E k \in Nat : OrdersOf(d, n) = Numbers(n, k)
    <3>1. CASE n = m
      <4>1. OrdersOf(d, n) = OrdersOf(c, m) \cup {new}  BY <1>5, <1>6, <3>1 DEF OrdersOf
      <4> QED  BY <1>2, <3>1, <4>1
    <3>2. CASE n # m
      <4>1. OrdersOf(d, n) = OrdersOf(c, n)  BY <1>5, <1>6, <3>2 DEF OrdersOf
      <4> QED  BY <4>1 DEF ChainTyped
    <3> QED  BY <3>1, <3>2
  <2>2. \A key \in DOMAIN d.orders : key \in Keys /\ d.orders[key] \in OrderState
    BY <1>2, <1>3, <1>6 DEF ChainTyped
  <2> QED  BY <1>1, <2>1, <2>2 DEF ChainTyped
<1>8. Grows(c, d)  BY <1>6 DEF Grows
<1>9. EventFits(e, d)  BY <1>4, <1>6 DEF EventFits
<1>10. ASSUME NEW key \in Keys PROVE Spent(d, key) = Spent(c, key) + Amount(e, key)
  <2>1. Amount(e, key) = 0  BY <1>4 DEF Amount, Takes1, Takes2
  <2>2. CASE key = new
    <3>1. Spent(d, key) = 0 /\ Spent(c, key) = 0  BY <1>2, <1>6, <2>2 DEF Spent
    <3> QED  BY <2>1, <3>1
  <2>3. CASE key # new
    <3>1. Spent(d, key) = Spent(c, key)  BY <1>6, <2>3 DEF Spent
    <3>2. Spent(c, key) \in Int  BY DEF Spent, ChainTyped, OrderState
    <3> QED  BY <2>1, <3>1, <3>2
  <2> QED  BY <2>2, <2>3
<1>11. Tells(c, e, d)
  BY <1>1, <1>2, <1>4 DEF Tells, Finds, OrdersWith, MarketsWith
<1> QED  BY <1>7, <1>8, <1>9, <1>10, <1>11 DEF Advances, d, e

\* An OrderMatched's worth of one order, without the event.
LEMMA FilledIs ==
  ASSUME NEW c, ChainTyped(c), NEW key \in DOMAIN c.orders, NEW n \in Nat,
         n <= c.orders[key].left
  PROVE  /\ ChainTyped(Filled(c, key, n))
         /\ DOMAIN Filled(c, key, n).orders = DOMAIN c.orders
         /\ Grows(c, Filled(c, key, n))
         /\ \A k \in DOMAIN c.orders :
              k # key => Filled(c, key, n).orders[k] = c.orders[k]
         /\ Spent(Filled(c, key, n), key) = Spent(c, key) + n
         /\ Filled(c, key, n).orders[key].left = c.orders[key].left - n
         /\ Filled(c, key, n).orders = Paid(c.orders, key, n)
         /\ Filled(c, key, n).markets = c.markets
<1> DEFINE d == Filled(c, key, n)
           row == [quantity |-> c.orders[key].quantity, left |-> c.orders[key].left - n,
                   resting |-> c.orders[key].left > n]
<1>1. /\ DOMAIN d = {"orders", "markets"} /\ d.markets = c.markets
      /\ d.orders = [c.orders EXCEPT ![key] = row]
  BY DEF Filled, ChainTyped
<1>0. d.orders = Paid(c.orders, key, n)  BY <1>1 DEF Paid
<1>2. /\ DOMAIN d.orders = DOMAIN c.orders
      /\ d.orders[key] = row
      /\ \A k \in DOMAIN c.orders : k # key => d.orders[k] = c.orders[k]
  BY <1>1
<1>3. c.orders[key] \in OrderState  BY DEF ChainTyped
<1>4. row \in OrderState /\ row.quantity = c.orders[key].quantity
      /\ row.left = c.orders[key].left - n
  BY <1>3 DEF OrderState
<1> HIDE DEF row
<1> HIDE DEF d
<1>5. ChainTyped(d)
  <2>1. ASSUME NEW m \in Markets PROVE \E k \in Nat : OrdersOf(d, m) = Numbers(m, k)
    <3>1. OrdersOf(d, m) = OrdersOf(c, m)  BY <1>2 DEF OrdersOf
    <3> QED  BY <3>1 DEF ChainTyped
  <2>2. \A k \in DOMAIN d.orders : k \in Keys /\ d.orders[k] \in OrderState
    BY <1>2, <1>4 DEF ChainTyped
  <2> QED  BY <1>1, <2>1, <2>2 DEF ChainTyped
<1>6. Grows(c, d)  BY <1>2, <1>4 DEF Grows
<1>7. Spent(d, key) = Spent(c, key) + n
  BY <1>2, <1>3, <1>4 DEF Spent, OrderState
<1> QED  BY <1>0, <1>1, <1>2, <1>4, <1>5, <1>6, <1>7 DEF d

LEMMA MarketMatchAdvances ==
  ASSUME NEW c, ChainTyped(c), NEW maker, NEW n \in Nat, Fillable(c, maker, n)
  PROVE  Advances(c, Event("OrderMatched", maker[1], maker[2], 0, n), Filled(c, maker, n))
<1> DEFINE e == Event("OrderMatched", maker[1], maker[2], 0, n)
           d == Filled(c, maker, n)
<1>1. /\ ChainTyped(d) /\ DOMAIN d.orders = DOMAIN c.orders /\ Grows(c, d)
      /\ \A k \in DOMAIN c.orders : k # maker => d.orders[k] = c.orders[k]
      /\ Spent(d, maker) = Spent(c, maker) + n
      /\ d.orders = Paid(c.orders, maker, n) /\ d.markets = c.markets
  BY FilledIs DEF Fillable
<1>2. maker \in Keys  BY DEF ChainTyped, Fillable
<1>3. e \in EventType /\ e.kind = "OrderMatched" /\ e.quantity = n
      /\ e.market_id = maker[1] /\ e.order_id = maker[2] /\ e.taker_order_id = 0
  BY <1>2 DEF Event, EventType, Kinds, OrderEvents, Keys
<1> HIDE DEF e, d
<1>4. EventFits(e, d)  BY <1>3 DEF EventFits
<1>5. ASSUME NEW key \in Keys PROVE Spent(d, key) = Spent(c, key) + Amount(e, key)
  <2>1. Takes2(e, key) = 0  BY <1>3 DEF Takes2
  <2>2. Spent(c, key) \in Int  BY DEF Spent, ChainTyped, OrderState
  <2>3. CASE key = maker
    <3>1. Takes1(e, key) = n  BY <1>3, <2>3 DEF Takes1
    <3> QED  BY <1>1, <2>1, <2>3, <3>1 DEF Amount
  <2>4. CASE key # maker
    <3>1. ~(key[1] = maker[1] /\ key[2] = maker[2])  BY <1>2, <2>4 DEF Keys
    <3>2. Takes1(e, key) = 0  BY <1>3, <3>1 DEF Takes1
    <3>3. Spent(d, key) = Spent(c, key)  BY <1>1, <2>4 DEF Spent
    <3> QED  BY <2>1, <2>2, <3>2, <3>3 DEF Amount
  <2> QED  BY <2>3, <2>4
<1>6. OrderKey(e) = maker  BY <1>2, <1>3 DEF OrderKey, Keys
<1>7. Tells(c, e, d)
  BY <1>1, <1>3, <1>6 DEF Tells, Finds, OrdersWith, MarketsWith
<1> QED  BY <1>1, <1>4, <1>5, <1>7 DEF Advances, e, d

\* A match of two orders takes as much off the one as off the other.
LEMMA LimitMatchAdvances ==
  ASSUME NEW c, ChainTyped(c), NEW maker, NEW taker, NEW n \in Nat,
         Fillable(c, maker, n), Fillable(c, taker, n),
         maker # taker, maker[1] = taker[1], taker[2] # 0
  PROVE  Advances(c, Event("OrderMatched", maker[1], maker[2], taker[2], n),
                  Filled(Filled(c, maker, n), taker, n))
<1> DEFINE e == Event("OrderMatched", maker[1], maker[2], taker[2], n)
           b == Filled(c, maker, n)
           d == Filled(b, taker, n)
<1>1. /\ ChainTyped(b) /\ DOMAIN b.orders = DOMAIN c.orders /\ Grows(c, b)
      /\ \A k \in DOMAIN c.orders : k # maker => b.orders[k] = c.orders[k]
      /\ Spent(b, maker) = Spent(c, maker) + n
      /\ b.orders = Paid(c.orders, maker, n) /\ b.markets = c.markets
  BY FilledIs DEF Fillable
<1>2. /\ ChainTyped(d) /\ DOMAIN d.orders = DOMAIN c.orders /\ Grows(b, d)
      /\ \A k \in DOMAIN c.orders : k # taker => d.orders[k] = b.orders[k]
      /\ Spent(d, taker) = Spent(b, taker) + n
      /\ d.orders = Paid(b.orders, taker, n) /\ d.markets = b.markets
  <2>1. taker \in DOMAIN b.orders /\ n <= b.orders[taker].left  BY <1>1 DEF Fillable
  <2> HIDE DEF b
  <2> QED  BY <1>1, <2>1, FilledIs
<1>3. maker \in Keys /\ taker \in Keys /\ maker \in DOMAIN c.orders /\ taker \in DOMAIN c.orders
  BY DEF ChainTyped, Fillable
<1>4. e \in EventType /\ e.kind = "OrderMatched" /\ e.quantity = n
      /\ e.market_id = maker[1] /\ e.order_id = maker[2] /\ e.taker_order_id = taker[2]
  BY <1>3 DEF Event, EventType, Kinds, OrderEvents, Keys
<1> HIDE DEF e, d, b
<1>5. EventFits(e, d)  BY <1>4 DEF EventFits
<1>6. Grows(c, d)  BY <1>1, <1>2 DEF Grows
<1>7. ASSUME NEW key \in Keys PROVE Spent(d, key) = Spent(c, key) + Amount(e, key)
  <2>1. Spent(c, key) \in Int /\ Spent(c, maker) \in Int /\ Spent(c, taker) \in Int
    BY DEF Spent, ChainTyped, OrderState
  <2>2. key = maker <=> key[1] = maker[1] /\ key[2] = maker[2]  BY <1>3 DEF Keys
  <2>3. key = taker <=> key[1] = maker[1] /\ key[2] = taker[2]  BY <1>3 DEF Keys
  <2>4. Takes1(e, key) = IF key = maker THEN n ELSE 0  BY <1>4, <2>2 DEF Takes1
  <2>5. Takes2(e, key) = IF key = taker THEN n ELSE 0  BY <1>4, <2>3 DEF Takes2
  <2>6. key # maker => Spent(b, key) = Spent(c, key)  BY <1>1 DEF Spent
  <2>7. key # taker => Spent(d, key) = Spent(b, key)  BY <1>1, <1>2 DEF Spent
  <2> QED  BY <1>1, <1>2, <2>1, <2>4, <2>5, <2>6, <2>7 DEF Amount
<1>8. OrderKey(e) = maker /\ TakerOf(e) = taker  BY <1>3, <1>4 DEF OrderKey, TakerOf, Keys
<1>9. Tells(c, e, d)
  BY <1>1, <1>2, <1>4, <1>8 DEF Tells, Finds, OrdersWith, MarketsWith
<1> QED  BY <1>2, <1>5, <1>6, <1>7, <1>9 DEF Advances, e, d, b

-----------------------------------------------------------------------------
(* Transactions *)

Amounts(s, key) == [i \in 1..Len(s) |-> Amount(s[i], key)]
FilledBy(s, key) == SumFunctionOnSet(Amounts(s, key), 1..Len(s))

\* The states that lead from the one to the other, event by event.
Path(c, s, d, st) ==
  /\ st[0] = c /\ st[Len(s)] = d
  /\ \A i \in 0..Len(s) : ChainTyped(st[i])
  /\ \A i \in 1..Len(s) : Tells(st[i - 1], s[i], st[i])
  /\ \A i, j \in 0..Len(s) :
       i <= j => /\ DOMAIN st[i].orders \subseteq DOMAIN st[j].orders
                 /\ DOMAIN st[i].markets \subseteq DOMAIN st[j].markets

\* Several events, and what they do to the accounts.
Reaches(c, s, d) ==
  /\ s \in Seq(EventType)
  /\ ChainTyped(d)
  /\ Grows(c, d)
  /\ \A i \in 1..Len(s) : EventFits(s[i], d)
  /\ \A key \in Keys : Spent(d, key) = Spent(c, key) + FilledBy(s, key)
  /\ \E st : Path(c, s, d, st)

LEMMA FilledByNone ==
  ASSUME NEW key
  PROVE  FilledBy(<< >>, key) = 0
<1>1. 1..Len(<< >>) = {}  OBVIOUS
<1>2. FilledBy(<< >>, key) = SumFunctionOnSet(Amounts(<< >>, key), {})  BY <1>1 DEF FilledBy
<1> QED  BY <1>2, SumOfNone

LEMMA AmountsTyped ==
  ASSUME NEW s \in Seq(EventType), NEW key \in Keys
  PROVE  /\ IsFiniteSet(1..Len(s))
         /\ \A i \in 1..Len(s) : Amounts(s, key)[i] = Amount(s[i], key)
                              /\ Amounts(s, key)[i] \in Nat
<1>1. Len(s) \in Nat /\ \A i \in 1..Len(s) : s[i] \in EventType  BY ElementOfSeq
<1>2. IsFiniteSet(1..Len(s))  BY <1>1, FS_Interval
<1> QED  BY <1>1, <1>2, AmountTyped DEF Amounts

LEMMA FilledByMore ==
  ASSUME NEW s \in Seq(EventType), NEW e \in EventType, NEW key \in Keys
  PROVE  /\ FilledBy(s, key) \in Nat
         /\ FilledBy(Append(s, e), key) = FilledBy(s, key) + Amount(e, key)
<1> DEFINE t == Append(s, e)
           f == Amounts(s, key)
           h == Amounts(t, key)
           n == Len(s)
<1>1. /\ t \in Seq(EventType) /\ n \in Nat /\ Len(t) = n + 1 /\ t[n + 1] = e
      /\ \A i \in 1..n : t[i] = s[i]
  BY AppendProperties
<1>2. /\ IsFiniteSet(1..n)
      /\ \A i \in 1..n : f[i] = Amount(s[i], key) /\ f[i] \in Nat
  BY AmountsTyped
<1>3. \A i \in 1..Len(t) : h[i] = Amount(t[i], key) /\ h[i] \in Nat
  <2> HIDE DEF t
  <2> QED  BY <1>1, AmountsTyped
<1> HIDE DEF t, f, h, n
<1>4. \A i \in 1..n : f[i] \in Int /\ f[i] = h[i]  BY <1>1, <1>2, <1>3
<1>5. SumFunctionOnSet(f, 1..n) = SumFunctionOnSet(h, 1..n)  BY <1>2, <1>4, SumAgrees
<1>6. 1..(n + 1) = (1..n) \cup {n + 1} /\ n + 1 \notin 1..n  BY <1>1
<1>7. \A i \in (1..n) \cup {n + 1} : h[i] \in Int  BY <1>1, <1>3
<1>8. SumFunctionOnSet(h, (1..n) \cup {n + 1}) = h[n + 1] + SumFunctionOnSet(h, 1..n)
  BY <1>2, <1>6, <1>7, SumAddsElement
<1>9. SumFunctionOnSet(f, 1..n) \in Nat  BY <1>2, SumCovers
<1>10. /\ FilledBy(s, key) = SumFunctionOnSet(f, 1..n)
       /\ FilledBy(t, key) = SumFunctionOnSet(h, 1..(n + 1))
  BY <1>1 DEF FilledBy, f, h, n, t
<1>11. h[n + 1] = Amount(e, key) /\ Amount(e, key) \in Nat  BY <1>1, <1>3, AmountTyped
<1>12. FilledBy(t, key) = Amount(e, key) + FilledBy(s, key)
  BY <1>5, <1>6, <1>8, <1>10, <1>11
<1> QED  BY <1>9, <1>10, <1>11, <1>12 DEF t

LEMMA ReachesNone ==
  ASSUME NEW c, ChainTyped(c)
  PROVE  Reaches(c, << >>, c)
<1>1. << >> \in Seq(EventType) /\ Len(<< >>) = 0  OBVIOUS
<1>2. ASSUME NEW key \in Keys PROVE Spent(c, key) = Spent(c, key) + FilledBy(<< >>, key)
  <2>1. Spent(c, key) \in Int  BY DEF Spent, ChainTyped, OrderState
  <2> QED  BY <2>1, FilledByNone
<1>3. \E st : Path(c, << >>, c, st)
  <2> DEFINE st == [i \in {0} |-> c]
  <2>1. 0..Len(<< >>) = {0} /\ 1..Len(<< >>) = {} /\ Len(<< >>) = 0  BY <1>1
  <2>2. Path(c, << >>, c, st)  BY <2>1 DEF Path
  <2> QED  BY <2>2
<1> QED  BY <1>1, <1>2, <1>3 DEF Reaches, Grows

LEMMA PathMore ==
  ASSUME NEW c, NEW s, Len(s) \in Nat, NEW d, NEW st, Path(c, s, d, st), NEW t, NEW e, NEW a,
         Advances(d, e, a), Len(t) = Len(s) + 1, t[Len(s) + 1] = e,
         \A i \in 1..Len(s) : t[i] = s[i]
  PROVE  \E tt : Path(c, t, a, tt)
<1> DEFINE n == Len(s)
           tt == [i \in 0..(n + 1) |-> IF i = n + 1 THEN a ELSE st[i]]
<1>1. /\ tt[n + 1] = a /\ \A i \in 0..n : tt[i] = st[i]
      /\ \A i \in 0..(n + 1) : i = n + 1 \/ i \in 0..n
      /\ 0 \in 0..n /\ n \in 0..n
  OBVIOUS
<1>2. /\ st[0] = c /\ st[n] = d
      /\ \A i \in 0..n : ChainTyped(st[i])
      /\ \A i \in 1..n : Tells(st[i - 1], s[i], st[i])
  BY DEF Path
<1>3. DOMAIN d.orders \subseteq DOMAIN a.orders  BY DEF Advances, Grows
<1>4. DOMAIN d.markets \subseteq DOMAIN a.markets
  BY DEF Advances, Tells, MarketsWith, With
<1>5. ASSUME NEW i \in 1..(n + 1) PROVE Tells(tt[i - 1], t[i], tt[i])
  <2>1. CASE i = n + 1
    <3>1. i - 1 = n /\ tt[n] = d  BY <1>1, <1>2, <2>1
    <3> HIDE DEF tt
    <3> QED  BY <1>1, <2>1, <3>1 DEF Advances
  <2>2. CASE i # n + 1
    <3>1. i \in 1..n /\ i \in 0..n /\ i - 1 \in 0..n  BY <2>2
    <3> HIDE DEF tt
    <3> QED  BY <1>1, <1>2, <3>1
  <2> QED  BY <2>1, <2>2
<1>6. ASSUME NEW i \in 0..(n + 1), NEW j \in 0..(n + 1), i <= j
      PROVE  /\ DOMAIN tt[i].orders \subseteq DOMAIN tt[j].orders
             /\ DOMAIN tt[i].markets \subseteq DOMAIN tt[j].markets
  <2> HIDE DEF tt
  <2>1. \A k, m \in 0..n : k <= m => /\ DOMAIN st[k].orders \subseteq DOMAIN st[m].orders
                                     /\ DOMAIN st[k].markets \subseteq DOMAIN st[m].markets
    BY DEF Path
  <2>2. CASE j \in 0..n
    <3>1. i \in 0..n  BY <1>6, <2>2
    <3> QED  BY <1>1, <1>6, <2>1, <2>2, <3>1
  <2>3. CASE j = n + 1 /\ i = n + 1  BY <2>3
  <2>4. CASE j = n + 1 /\ i \in 0..n
    <3>1. i <= n /\ n \in 0..n  BY <2>4
    <3>2. /\ DOMAIN st[i].orders \subseteq DOMAIN d.orders
          /\ DOMAIN st[i].markets \subseteq DOMAIN d.markets
      BY <1>2, <2>1, <2>4, <3>1
    <3> QED  BY <1>1, <1>3, <1>4, <2>4, <3>2
  <2> QED  BY <1>1, <2>2, <2>3, <2>4
<1>7. ASSUME NEW i \in 0..(n + 1) PROVE ChainTyped(tt[i])
  <2> HIDE DEF tt
  <2> QED  BY <1>1, <1>2 DEF Advances
<1>8. tt[0] = c  BY <1>1, <1>2
<1> HIDE DEF tt
<1>9. Path(c, t, a, tt)  BY <1>1, <1>5, <1>6, <1>7, <1>8 DEF Path
<1> QED  BY <1>9

LEMMA FitsOn ==
  ASSUME NEW e, NEW c, NEW d, EventFits(e, c), Grows(c, d)
  PROVE  EventFits(e, d)
BY DEF EventFits, Grows

LEMMA ReachesMore ==
  ASSUME NEW c, ChainTyped(c), NEW s, NEW d, Reaches(c, s, d), NEW e, NEW a, Advances(d, e, a)
  PROVE  Reaches(c, Append(s, e), a)
<1>1. s \in Seq(EventType) /\ e \in EventType  BY DEF Reaches, Advances, EventFits
<1> DEFINE t == Append(s, e)
<1>2. /\ t \in Seq(EventType) /\ Len(s) \in Nat /\ Len(t) = Len(s) + 1
      /\ t[Len(s) + 1] = e /\ \A i \in 1..Len(s) : t[i] = s[i]
  BY <1>1, AppendProperties
<1>3. ChainTyped(a) /\ Grows(c, a)  BY DEF Reaches, Advances, Grows
<1>4. ASSUME NEW i \in 1..Len(t) PROVE EventFits(t[i], a)
  <2>1. CASE i = Len(s) + 1  BY <1>2, <2>1 DEF Advances
  <2>2. CASE i # Len(s) + 1
    <3>1. i \in 1..Len(s) /\ t[i] = s[i]  BY <1>2, <2>2
    <3>2. EventFits(s[i], d)  BY <3>1 DEF Reaches
    <3> QED  BY <3>1, <3>2, FitsOn DEF Advances
  <2> QED  BY <2>1, <2>2
<1>5. ASSUME NEW key \in Keys PROVE Spent(a, key) = Spent(c, key) + FilledBy(t, key)
  <2>1. FilledBy(s, key) \in Nat /\ FilledBy(t, key) = FilledBy(s, key) + Amount(e, key)
    BY <1>1, FilledByMore
  <2>2. /\ Spent(d, key) = Spent(c, key) + FilledBy(s, key)
        /\ Spent(a, key) = Spent(d, key) + Amount(e, key)
    BY DEF Reaches, Advances
  <2>3. Spent(c, key) \in Int  BY DEF Spent, ChainTyped, OrderState
  <2>4. Amount(e, key) \in Nat  BY <1>1, AmountTyped
  <2> HIDE DEF t
  <2> QED  BY <2>1, <2>2, <2>3, <2>4
<1>6. \E st : Path(c, t, a, st)
  <2>1. PICK st : Path(c, s, d, st)  BY DEF Reaches
  <2> HIDE DEF t
  <2> QED  BY <1>2, <2>1, PathMore
<1> QED  BY <1>2, <1>3, <1>4, <1>5, <1>6 DEF Reaches

\* What one instruction does, event by event; no two of its events are alike.
Performs(c, t) ==
  \/ \E e : t.events = <<e>> /\ Advances(c, e, t.after)
  \/ \E e, f, b : /\ t.events = <<e, f>> /\ e.kind # f.kind
                  /\ Advances(c, e, b) /\ Advances(b, f, t.after)

LEMMA PerformsOne ==
  ASSUME NEW c, NEW e, NEW d, Advances(c, e, d)
  PROVE  Performs(c, Outcome(d, <<e>>))
BY DEF Performs, Outcome

LEMMA PerformsTwo ==
  ASSUME NEW c, NEW e, NEW b, Advances(c, e, b), NEW f, NEW d, Advances(b, f, d),
         e.kind # f.kind
  PROVE  Performs(c, Outcome(d, <<e, f>>))
BY DEF Performs, Outcome

\* Only the markets change.
LEMMA MarketAdvances ==
  ASSUME NEW c, ChainTyped(c), NEW e \in EventType, NEW d,
         e.kind \notin {"OrderPlaced", "OrderMatched"},
         DOMAIN d = {"orders", "markets"}, d.orders = c.orders,
         DOMAIN d.markets \subseteq Markets,
         \A m \in DOMAIN d.markets : d.markets[m] \in MarketRows,
         Tells(c, e, d)
  PROVE  Advances(c, e, d)
<1>1. ChainTyped(d)
  BY DEF ChainTyped, OrdersOf
<1> QED  BY <1>1, OtherAdvances

LEMMA MarketEventTyped ==
  ASSUME NEW kind \in Kinds, NEW m \in Markets, NEW n \in Nat
  PROVE  /\ Event(kind, m, 0, 0, n) \in EventType
         /\ Event(kind, m, 0, 0, n).kind = kind
         /\ Event(kind, m, 0, 0, n).market_id = m
         /\ Event(kind, m, 0, 0, n).quantity = n
         /\ MarketEvent(kind, m) = Event(kind, m, 0, 0, 0)
BY DEF MarketEvent, Event, EventType

LEMMA MarketInstructions ==
  ASSUME NEW c, ChainTyped(c),
         NEW t \in Initialise(c) \cup SetWinningSide(c) \cup CloseMarket(c)
                     \cup UpdateMetadata(c) \cup SplitTokens(c)
  PROVE  Performs(c, t)
<1>1. \A kind \in MarketEvents \cup LoggedEvents :
        kind \in Kinds /\ kind \notin {"OrderPlaced", "OrderMatched"}
  BY DEF Kinds, MarketEvents, LoggedEvents
<1>2. ASSUME NEW kind \in MarketEvents \cup LoggedEvents, NEW m \in Markets, NEW n \in Nat,
             NEW d, DOMAIN d = {"orders", "markets"}, d.orders = c.orders,
             DOMAIN d.markets \subseteq Markets,
             \A k \in DOMAIN d.markets : d.markets[k] \in MarketRows,
             kind = "MarketInitialized" => m \notin DOMAIN c.markets,
             kind \in {"WinningSideSet", "MarketClosed", "MetadataUpdated"}
               => m \in DOMAIN c.markets,
             d.markets = MarketsWith(c.markets, Event(kind, m, 0, 0, n))
      PROVE  Performs(c, Outcome(d, <<Event(kind, m, 0, 0, n)>>))
  <2> DEFINE e == Event(kind, m, 0, 0, n)
  <2>0. e.kind = kind /\ e.market_id = m  BY <1>1, MarketEventTyped
  <2>3. kind \notin OrderEvents  BY DEF MarketEvents, LoggedEvents, OrderEvents
  <2>4. Tells(c, e, d)
    <3> HIDE DEF e
    <3> QED  BY <1>2, <2>0, <2>3 DEF Tells, Finds, OrdersWith, OrderEvents, e
  <2>1. Event(kind, m, 0, 0, n) \in EventType /\ Event(kind, m, 0, 0, n).kind = kind
    BY <1>1, MarketEventTyped
  <2>2. Advances(c, Event(kind, m, 0, 0, n), d)
    BY <1>1, <1>2, <2>1, <2>4, MarketAdvances
  <2> QED  BY <2>2, PerformsOne
<1>3. /\ DOMAIN c = {"orders", "markets"} /\ DOMAIN c.markets \subseteq Markets
      /\ \A m \in DOMAIN c.markets : /\ c.markets[m] \in MarketRows
                                    /\ c.markets[m].meta_data_url \in Nat
  BY DEF ChainTyped, MarketRows
<1>4. \A m \in Active(c) : m \in Markets /\ m \in DOMAIN c.markets  BY <1>3 DEF Active
<1>5. CASE t \in Initialise(c)
  <2> DEFINE row == [status |-> "active", meta_data_url |-> 0]
             D(m) == [c EXCEPT !.markets = With(@, m, row)]
  <2>1. PICK m \in Markets \ DOMAIN c.markets :
          t = Outcome(D(m), <<MarketEvent("MarketInitialized", m)>>)
    BY <1>5 DEF Initialise
  <2>2. /\ D(m).markets = With(c.markets, m, row)
        /\ DOMAIN D(m) = {"orders", "markets"} /\ D(m).orders = c.orders
    BY <1>3
  <2>3. row \in MarketRows  BY DEF MarketRows
  <2>4. /\ DOMAIN With(c.markets, m, row) \subseteq Markets
        /\ \A k \in DOMAIN With(c.markets, m, row) : With(c.markets, m, row)[k] \in MarketRows
    BY <1>3, <2>3 DEF With
  <2> DEFINE d == D(m)
  <2> HIDE DEF D
  <2>5. /\ DOMAIN d = {"orders", "markets"} /\ d.orders = c.orders
        /\ DOMAIN d.markets \subseteq Markets
        /\ \A k \in DOMAIN d.markets : d.markets[k] \in MarketRows
    BY <2>2, <2>4
  <2> HIDE DEF d
  <2>7. d.markets = MarketsWith(c.markets, Event("MarketInitialized", m, 0, 0, 0))
    BY <2>2 DEF MarketsWith, Event, d
  <2>6. Performs(c, Outcome(d, <<Event("MarketInitialized", m, 0, 0, 0)>>))
    BY <1>2, <2>1, <2>5, <2>7 DEF MarketEvents
  <2> QED  BY <2>1, <2>6 DEF MarketEvent, d
<1>6. ASSUME NEW m \in DOMAIN c.markets, NEW row \in MarketRows,
             NEW kind \in MarketEvents \ {"MarketInitialized"}, NEW n \in Nat, NEW d,
             d = [c EXCEPT !.markets[m] = row],
             [c.markets EXCEPT ![m] = row] = MarketsWith(c.markets, Event(kind, m, 0, 0, n))
      PROVE  Performs(c, Outcome(d, <<Event(kind, m, 0, 0, n)>>))
  <2>1. /\ d.markets = [c.markets EXCEPT ![m] = row]
        /\ DOMAIN d = {"orders", "markets"} /\ d.orders = c.orders
    BY <1>3, <1>6
  <2>2. /\ DOMAIN d.markets \subseteq Markets
        /\ \A k \in DOMAIN d.markets : d.markets[k] \in MarketRows
    BY <1>3, <2>1
  <2> QED  BY <1>2, <1>3, <1>6, <2>1, <2>2
<1>7. \A m \in DOMAIN c.markets :
        /\ [c.markets[m] EXCEPT !.status = "settled"] \in MarketRows
        /\ [c.markets[m] EXCEPT !.status = "closed"] \in MarketRows
        /\ [c.markets[m] EXCEPT !.meta_data_url = @ + 1] \in MarketRows
        /\ c.markets[m].meta_data_url + 1 \in Nat
  BY <1>3 DEF MarketRows
<1>12. ASSUME NEW m \in DOMAIN c.markets, NEW n
       PROVE  /\ [c.markets EXCEPT ![m] = [c.markets[m] EXCEPT !.status = "settled"]]
                   = MarketsWith(c.markets, Event("WinningSideSet", m, 0, 0, n))
              /\ [c.markets EXCEPT ![m] = [c.markets[m] EXCEPT !.status = "closed"]]
                   = MarketsWith(c.markets, Event("MarketClosed", m, 0, 0, n))
              /\ [c.markets EXCEPT ![m] = [c.markets[m] EXCEPT !.meta_data_url = n]]
                   = MarketsWith(c.markets, Event("MetadataUpdated", m, 0, 0, n))
  BY DEF MarketsWith, Event
<1>8. CASE t \in SetWinningSide(c)
  <2>1. PICK m \in Active(c) :
          t = Outcome([c EXCEPT !.markets[m] = [c.markets[m] EXCEPT !.status = "settled"]],
                      <<MarketEvent("WinningSideSet", m)>>)
    BY <1>3, <1>8 DEF SetWinningSide
  <2> QED  BY <1>4, <1>6, <1>7, <1>12, <2>1 DEF MarketEvents, MarketEvent
<1>9. CASE t \in CloseMarket(c)
  <2>1. PICK m \in DOMAIN c.markets :
          t = Outcome([c EXCEPT !.markets[m] = [c.markets[m] EXCEPT !.status = "closed"]],
                      <<MarketEvent("MarketClosed", m)>>)
    BY <1>3, <1>9 DEF CloseMarket
  <2> QED  BY <1>6, <1>7, <1>12, <2>1 DEF MarketEvents, MarketEvent
<1>10. CASE t \in UpdateMetadata(c)
  <2>1. PICK m \in Active(c) :
          t = Outcome([c EXCEPT !.markets[m] = [c.markets[m] EXCEPT !.meta_data_url = @ + 1]],
                      <<Event("MetadataUpdated", m, 0, 0, c.markets[m].meta_data_url + 1)>>)
    BY <1>3, <1>10 DEF UpdateMetadata
  <2> DEFINE n == c.markets[m].meta_data_url + 1
  <2>2. m \in DOMAIN c.markets /\ n \in Nat  BY <1>4, <1>7
  <2>3. /\ t = Outcome([c EXCEPT !.markets[m] = [c.markets[m] EXCEPT !.meta_data_url = n]],
                       <<Event("MetadataUpdated", m, 0, 0, n)>>)
        /\ [c.markets[m] EXCEPT !.meta_data_url = n] \in MarketRows
    BY <1>7, <2>1, <2>2
  <2> HIDE DEF n
  <2> QED  BY <1>6, <1>12, <2>2, <2>3 DEF MarketEvents
<1>11. CASE t \in SplitTokens(c)
  <2>1. PICK m \in Active(c) : t = Outcome(c, <<MarketEvent("TokensSplit", m)>>)
    BY <1>11 DEF SplitTokens
  <2>2. c.markets = MarketsWith(c.markets, Event("TokensSplit", m, 0, 0, 0))
    BY DEF MarketsWith, Event
  <2> QED  BY <1>2, <1>3, <1>4, <2>1, <2>2 DEF LoggedEvents, MarketEvent
<1> QED  BY <1>5, <1>8, <1>9, <1>10, <1>11

LEMMA RestingTyped ==
  ASSUME NEW c, ChainTyped(c), NEW m, NEW maker \in Resting(c, m)
  PROVE  /\ maker \in DOMAIN c.orders /\ maker \in Keys /\ maker[1] = m
         /\ maker = <<m, maker[2]>>
         /\ c.orders[maker].left \in Nat
BY DEF ChainTyped, Resting, OrderState, Keys

LEMMA MinIs ==
  ASSUME NEW a \in Nat, NEW b \in Nat
  PROVE  Min({a, b}) \in Nat /\ Min({a, b}) <= a /\ Min({a, b}) <= b
<1>1. \E x \in {a, b} : \A y \in {a, b} : x <= y  OBVIOUS
<1>2. Min({a, b}) \in {a, b} /\ \A y \in {a, b} : Min({a, b}) <= y  BY <1>1 DEF Min
<1> QED  BY <1>2

LEMMA CancelPerforms ==
  ASSUME NEW c, ChainTyped(c), NEW t \in CancelOrder(c)
  PROVE  Performs(c, t)
<1>0. PICK m \in DOMAIN c.markets : \E key \in Resting(c, m) :
        t = Outcome([c EXCEPT !.orders[key].resting = FALSE],
                    <<Event("OrderCancelled", m, key[2], 0, c.orders[key].left)>>)
  BY DEF CancelOrder
<1>1. PICK key \in Resting(c, m) :
        t = Outcome([c EXCEPT !.orders[key].resting = FALSE],
                    <<Event("OrderCancelled", m, key[2], 0, c.orders[key].left)>>)
  BY <1>0
<1> DEFINE d == [c EXCEPT !.orders[key].resting = FALSE]
           e == Event("OrderCancelled", m, key[2], 0, c.orders[key].left)
           row == [c.orders[key] EXCEPT !.resting = FALSE]
<1>2. /\ DOMAIN c = {"orders", "markets"} /\ key \in DOMAIN c.orders /\ key \in Keys
      /\ c.orders[key] \in OrderState /\ m \in Markets /\ c.orders[key].left \in Nat
  BY RestingTyped DEF ChainTyped
<1>3. /\ DOMAIN d = {"orders", "markets"} /\ d.markets = c.markets
      /\ DOMAIN d.orders = DOMAIN c.orders /\ d.orders[key] = row
      /\ \A k \in DOMAIN c.orders : k # key => d.orders[k] = c.orders[k]
  BY <1>2
<1>4. /\ row \in OrderState /\ row.quantity = c.orders[key].quantity
      /\ row.left = c.orders[key].left
  BY <1>2 DEF OrderState
<1>5. e \in EventType /\ e.kind = "OrderCancelled" /\ OrderKey(e) = key
  <2>1. key[2] \in Nat  BY <1>2 DEF Keys
  <2>2. key = <<m, key[2]>>  BY RestingTyped
  <2> QED  BY <1>2, <2>1, <2>2 DEF Event, EventType, Kinds, OrderEvents, OrderKey
<1>9. d.orders = [c.orders EXCEPT ![key].resting = FALSE]  BY <1>2
<1> HIDE DEF d, e, row
<1>6. ChainTyped(d)
  <2>1. ASSUME NEW n \in Markets PROVE \E k \in Nat : OrdersOf(d, n) = Numbers(n, k)
    <3>1. OrdersOf(d, n) = OrdersOf(c, n)  BY <1>3 DEF OrdersOf
    <3> QED  BY <3>1 DEF ChainTyped
  <2>2. \A k \in DOMAIN d.orders : k \in Keys /\ d.orders[k] \in OrderState
    BY <1>3, <1>4 DEF ChainTyped
  <2> QED  BY <1>3, <2>1, <2>2 DEF ChainTyped
<1>10. Tells(c, e, d)  BY <1>2, <1>3, <1>5, <1>9 DEF Tells, Finds, OrdersWith, MarketsWith
<1>7. Advances(c, e, d)  BY <1>3, <1>4, <1>5, <1>6, <1>10, OtherAdvances
<1>8. t = Outcome(d, <<e>>)  BY <1>1 DEF d, e
<1> QED  BY <1>7, <1>8, PerformsOne

LEMMA PlacePerforms ==
  ASSUME NEW c, ChainTyped(c), NEW t \in PlaceOrder(c)
  PROVE  Performs(c, t)
<1> DEFINE Rests(m, q) ==
             Outcome(WithOrder(c, m, q), <<Event("OrderPlaced", m, NextOrder(c, m), 0, q)>>)
           Crosses(m, q, maker) ==
             LET n == Min({q, c.orders[maker].left})
             IN Outcome(Filled(Filled(WithOrder(c, m, q), maker, n), <<m, NextOrder(c, m)>>, n),
                        <<Event("OrderPlaced", m, NextOrder(c, m), 0, q),
                          Event("OrderMatched", m, maker[2], NextOrder(c, m), n)>>)
<1>0. PICK m \in Active(c), q \in Quantities :
        t \in {Rests(m, q)} \cup {Crosses(m, q, maker) : maker \in Resting(c, m)}
  <2>1. PlaceOrder(c) = UNION {{Rests(m, q)} \cup {Crosses(m, q, maker) : maker \in Resting(c, m)} :
                                 m \in Active(c), q \in Quantities}
    BY DEF PlaceOrder
  <2> HIDE DEF Rests, Crosses
  <2> QED  BY <2>1
<1>1. t = Rests(m, q) \/ \E maker \in Resting(c, m) : t = Crosses(m, q, maker)
  <2> HIDE DEF Rests, Crosses
  <2> QED  BY <1>0
<1>2. m \in Markets /\ m \in DOMAIN c.markets /\ q \in Nat /\ q > 0
  BY ChainAssumption DEF ChainTyped, Active
<1> DEFINE b == WithOrder(c, m, q)
           e == Event("OrderPlaced", m, NextOrder(c, m), 0, q)
           taker == <<m, NextOrder(c, m)>>
<1>3. Advances(c, e, b)  BY <1>2, PlacedAdvances
<1>4. CASE t = Outcome(b, <<e>>)
  <2> HIDE DEF b, e
  <2> QED  BY <1>3, <1>4, PerformsOne
<1>5. ASSUME NEW maker \in Resting(c, m)
      PROVE  LET n == Min({q, c.orders[maker].left})
                 f == Event("OrderMatched", m, maker[2], NextOrder(c, m), n)
             IN Performs(c, Outcome(Filled(Filled(b, maker, n), taker, n), <<e, f>>))
  <2> DEFINE n == Min({q, c.orders[maker].left})
             f == Event("OrderMatched", m, maker[2], NextOrder(c, m), n)
             d == Filled(Filled(b, maker, n), taker, n)
  <2>1. /\ maker \in DOMAIN c.orders /\ maker[1] = m /\ c.orders[maker].left \in Nat
    BY <1>5, RestingTyped
  <2>2. n \in Nat /\ n <= q /\ n <= c.orders[maker].left  BY <1>2, <2>1, MinIs
  <2>3. NextOrder(c, m) \in Nat \ {0} /\ taker \notin DOMAIN c.orders
    BY <1>2, NextIsNew
  <2>4. b.orders = With(c.orders, taker, [quantity |-> q, left |-> q, resting |-> TRUE])
    BY DEF WithOrder, ChainTyped
  <2>5. /\ taker \in DOMAIN b.orders /\ b.orders[taker].left = q
        /\ maker \in DOMAIN b.orders /\ b.orders[maker].left = c.orders[maker].left
        /\ b.orders[taker].resting /\ b.orders[maker].resting
        /\ maker # taker
    BY <2>1, <2>3, <2>4, <1>5 DEF With, Resting
  <2>6. taker[1] = m /\ taker[2] = NextOrder(c, m)  OBVIOUS
  <2>7. ChainTyped(b)  BY <1>3 DEF Advances
  <2> HIDE DEF b, taker, n
  <2>8. Advances(b, Event("OrderMatched", maker[1], maker[2], taker[2], n), d)
    BY <2>1, <2>2, <2>3, <2>5, <2>6, <2>7, LimitMatchAdvances DEF Fillable
  <2>9. Advances(b, f, d)  BY <2>1, <2>6, <2>8
  <2>10. e.kind # f.kind  BY DEF Event
  <2> HIDE DEF e, f, d
  <2>11. Performs(c, Outcome(d, <<e, f>>))  BY <1>3, <2>9, <2>10, PerformsTwo
  <2> QED  BY <2>11 DEF f, d, n
<1> QED  BY <1>1, <1>4, <1>5

LEMMA MarketPerforms ==
  ASSUME NEW c, ChainTyped(c), NEW t \in MarketOrder(c)
  PROVE  Performs(c, t)
<1> DEFINE Fills(m, q, maker) ==
             LET n == Min({q, c.orders[maker].left})
             IN Outcome(Filled(c, maker, n), <<Event("OrderMatched", m, maker[2], 0, n),
                                               MarketEvent("MarketOrderExecuted", m)>>)
<1>0. PICK m \in Active(c), q \in Quantities :
        t \in {Fills(m, q, maker) : maker \in Resting(c, m)}
  <2>1. MarketOrder(c) = UNION {{Fills(m, q, maker) : maker \in Resting(c, m)} :
                                  m \in Active(c), q \in Quantities}
    BY DEF MarketOrder
  <2> HIDE DEF Fills
  <2> QED  BY <2>1
<1>1. PICK maker \in Resting(c, m) : t = Fills(m, q, maker)
  <2> HIDE DEF Fills
  <2> QED  BY <1>0
<1>2. m \in Markets /\ q \in Nat  BY ChainAssumption DEF ChainTyped, Active
<1> DEFINE n == Min({q, c.orders[maker].left})
           d == Filled(c, maker, n)
           e == Event("OrderMatched", m, maker[2], 0, n)
           f == MarketEvent("MarketOrderExecuted", m)
<1>3. /\ maker \in DOMAIN c.orders /\ maker[1] = m /\ c.orders[maker].left \in Nat
      /\ c.orders[maker].resting
  BY RestingTyped DEF Resting
<1>4. n \in Nat /\ n <= c.orders[maker].left  BY <1>2, <1>3, MinIs
<1> HIDE DEF n
<1>5. Advances(c, Event("OrderMatched", maker[1], maker[2], 0, n), d)
  BY <1>3, <1>4, MarketMatchAdvances DEF Fillable
<1>6. Advances(c, e, d)  BY <1>3, <1>5
<1>7. ChainTyped(d)  BY <1>6 DEF Advances
<1>8. f \in EventType /\ f.kind = "MarketOrderExecuted"
  BY <1>2, MarketEventTyped DEF Kinds, LoggedEvents
<1>9. e.kind = "OrderMatched"  BY DEF Event
<1> HIDE DEF d, f, e
<1>10. Tells(d, f, d)  BY <1>8 DEF Tells, Finds, OrdersWith, MarketsWith
<1>11. Advances(d, f, d)  BY <1>7, <1>8, <1>10, OtherAdvances
<1>12. t = Outcome(d, <<e, f>>)  BY <1>1 DEF d, e, f, n
<1> QED  BY <1>6, <1>8, <1>9, <1>11, <1>12, PerformsTwo

LEMMA OutcomePerforms ==
  ASSUME NEW c, ChainTyped(c), NEW t \in Outcomes(c)
  PROVE  Performs(c, t)
<1>1. t \in Initialise(c) \cup PlaceOrder(c) \cup MarketOrder(c) \cup CancelOrder(c)
          \cup SetWinningSide(c) \cup CloseMarket(c) \cup UpdateMetadata(c)
          \cup SplitTokens(c)
  BY DEF Outcomes
<1> QED  BY <1>1, MarketInstructions, CancelPerforms, PlacePerforms, MarketPerforms

LEMMA PerformsReaches ==
  ASSUME NEW c, ChainTyped(c), NEW s, NEW d, Reaches(c, s, d), NEW t, Performs(d, t)
  PROVE  Reaches(c, s \o t.events, t.after)
<1>1. s \in Seq(EventType)  BY DEF Reaches
<1>2. ASSUME NEW e, t.events = <<e>>, Advances(d, e, t.after)
      PROVE  Reaches(c, s \o t.events, t.after)
  <2>1. Reaches(c, Append(s, e), t.after)  BY <1>2, ReachesMore
  <2>2. s \o <<e>> = Append(s, e)  BY <1>1
  <2> QED  BY <1>2, <2>1, <2>2
<1>3. ASSUME NEW e, NEW f, NEW b, t.events = <<e, f>>, Advances(d, e, b),
             Advances(b, f, t.after)
      PROVE  Reaches(c, s \o t.events, t.after)
  <2>1. Reaches(c, Append(s, e), b)  BY <1>3, ReachesMore
  <2>2. Reaches(c, Append(Append(s, e), f), t.after)  BY <1>3, <2>1, ReachesMore
  <2>3. s \o <<e, f>> = Append(Append(s, e), f)  BY <1>1
  <2> QED  BY <1>3, <2>2, <2>3
<1> QED  BY <1>2, <1>3 DEF Performs

\* What a transaction does to the accounts is what its events say.
LEMMA TransactionReaches ==
  ASSUME NEW c, ChainTyped(c), NEW t \in Transactions(c)
  PROVE  Reaches(c, t.events, t.after)
<1>1. ASSUME NEW o \in Outcomes(c)
      PROVE  Reaches(c, o.events, o.after)
  <2>1. Reaches(c, << >> \o o.events, o.after)
    BY <1>1, OutcomePerforms, PerformsReaches, ReachesNone
  <2>2. Performs(c, o)  BY <1>1, OutcomePerforms
  <2>3. << >> \o o.events = o.events
    BY <2>2 DEF Performs
  <2> QED  BY <2>1, <2>3
<1>2. CASE t \in Outcomes(c)
  BY <1>1, <1>2
<1>3. ASSUME NEW first \in Outcomes(c), NEW second \in Outcomes(first.after),
             t = Outcome(second.after, first.events \o second.events)
      PROVE  Reaches(c, t.events, t.after)
  <2>1. Reaches(c, first.events, first.after)  BY <1>1, <1>3
  <2>2. ChainTyped(first.after)  BY <2>1 DEF Reaches
  <2>3. Performs(first.after, second)  BY <1>3, <2>2, OutcomePerforms
  <2>4. Reaches(c, first.events \o second.events, second.after)
    BY <2>1, <2>3, PerformsReaches
  <2> QED  BY <1>3, <2>4 DEF Outcome
<1> QED  BY <1>2, <1>3 DEF Transactions

-----------------------------------------------------------------------------
(* The ledger, and what of it is not in the log yet *)

LEMMA SumExtends ==
  ASSUME NEW n \in Nat, NEW f, NEW h, \A i \in 1..n : f[i] = h[i],
         \A i \in 1..(n + 1) : h[i] \in Int
  PROVE  SumFunctionOnSet(h, 1..(n + 1)) = SumFunctionOnSet(f, 1..n) + h[n + 1]
<1>1. IsFiniteSet(1..n)  BY FS_Interval
<1>2. 1..(n + 1) = (1..n) \cup {n + 1} /\ n + 1 \notin 1..n  OBVIOUS
<1>3. \A i \in 1..n : f[i] \in Int /\ f[i] = h[i]  OBVIOUS
<1>4. SumFunctionOnSet(f, 1..n) = SumFunctionOnSet(h, 1..n)  BY <1>1, <1>3, SumAgrees
<1>5. SumFunctionOnSet(f, 1..n) \in Int  BY <1>1, <1>3, SumTyped
<1>6. \A i \in (1..n) \cup {n + 1} : h[i] \in Int  BY <1>2
<1>7. SumFunctionOnSet(h, (1..n) \cup {n + 1}) = h[n + 1] + SumFunctionOnSet(h, 1..n)
  BY <1>1, <1>2, <1>6, SumAddsElement
<1>8. h[n + 1] \in Int  BY <1>6
<1>9. SumFunctionOnSet(h, 1..(n + 1)) = h[n + 1] + SumFunctionOnSet(h, 1..n)
  BY <1>2, <1>7
<1> QED  BY <1>4, <1>5, <1>8, <1>9

LEMMA SumDrops ==
  ASSUME NEW f, NEW h, NEW S, IsFiniteSet(S), NEW x \in S, NEW a \in Int,
         \A y \in S : f[y] \in Int /\ h[y] \in Int /\ h[y] <= f[y],
         h[x] + a <= f[x]
  PROVE  SumFunctionOnSet(h, S) + a <= SumFunctionOnSet(f, S)
<1>0. (\A y \in S : f[y] \in Int) /\ (\A y \in S : h[y] \in Int)  OBVIOUS
<1>1. /\ SumFunctionOnSet(f, S) = f[x] + SumFunctionOnSet(f, S \ {x})
      /\ SumFunctionOnSet(f, S \ {x}) \in Int
  BY <1>0, SumSplit
<1>5. /\ SumFunctionOnSet(h, S) = h[x] + SumFunctionOnSet(h, S \ {x})
      /\ SumFunctionOnSet(h, S \ {x}) \in Int
  BY <1>0, SumSplit
<1>2. IsFiniteSet(S \ {x})  BY FS_Subset, S \ {x} \subseteq S
<1>3. SumFunctionOnSet(h, S \ {x}) <= SumFunctionOnSet(f, S \ {x})
  BY <1>2, SumGrows
<1>4. f[x] \in Int /\ h[x] \in Int  OBVIOUS
<1> QED  BY <1>1, <1>3, <1>4, <1>5

\* Of one transaction, of all.  L is the keys of the log.
Unlogged(n, s, L, key) ==
  [i \in 1..Len(s) |-> IF UniqueKey(n, s[i]) \in L THEN 0 ELSE Amount(s[i], key)]
DueIn(tx, n, L, key) ==
  IF tx.ok THEN SumFunctionOnSet(Unlogged(n, tx.events, L, key), 1..Len(tx.events)) ELSE 0
Dues(l, L, key) == [n \in 1..Len(l) |-> DueIn(l[n], n, L, key)]
Due(l, L, key) == SumFunctionOnSet(Dues(l, L, key), 1..Len(l))

TxTyped(tx) == tx.ok \in BOOLEAN /\ tx.events \in Seq(EventType)
LedgerTyped(l) ==
  /\ \E S : l \in Seq(S)
  /\ Len(l) \in Nat
  /\ \A n \in 1..Len(l) : TxTyped(l[n])

LEMMA UnloggedTyped ==
  ASSUME NEW s \in Seq(EventType), NEW n, NEW L, NEW key \in Keys
  PROVE  /\ IsFiniteSet(1..Len(s))
         /\ \A i \in 1..Len(s) :
              /\ Unlogged(n, s, L, key)[i]
                   = IF UniqueKey(n, s[i]) \in L THEN 0 ELSE Amount(s[i], key)
              /\ Unlogged(n, s, L, key)[i] \in Nat
              /\ Amount(s[i], key) \in Nat
<1>1. Len(s) \in Nat /\ \A i \in 1..Len(s) : s[i] \in EventType  BY ElementOfSeq
<1>2. IsFiniteSet(1..Len(s))  BY <1>1, FS_Interval
<1> QED  BY <1>1, <1>2, AmountTyped DEF Unlogged

LEMMA UnloggedFalls ==
  ASSUME NEW s \in Seq(EventType), NEW n, NEW L, NEW M, L \subseteq M, NEW key \in Keys
  PROVE  /\ IsFiniteSet(1..Len(s))
         /\ \A i \in 1..Len(s) :
              /\ Unlogged(n, s, L, key)[i] \in Nat /\ Unlogged(n, s, M, key)[i] \in Nat
              /\ Unlogged(n, s, M, key)[i] <= Unlogged(n, s, L, key)[i]
<1>1. IsFiniteSet(1..Len(s))  BY UnloggedTyped
<1>2. ASSUME NEW i \in 1..Len(s)
      PROVE  /\ Unlogged(n, s, L, key)[i] \in Nat /\ Unlogged(n, s, M, key)[i] \in Nat
             /\ Unlogged(n, s, M, key)[i] <= Unlogged(n, s, L, key)[i]
  <2>1. /\ Unlogged(n, s, L, key)[i]
             = IF UniqueKey(n, s[i]) \in L THEN 0 ELSE Amount(s[i], key)
        /\ Unlogged(n, s, M, key)[i]
             = IF UniqueKey(n, s[i]) \in M THEN 0 ELSE Amount(s[i], key)
        /\ Amount(s[i], key) \in Nat
    BY UnloggedTyped
  <2> QED  BY <2>1
<1> QED  BY <1>1, <1>2

LEMMA DueInTyped ==
  ASSUME NEW tx, TxTyped(tx), NEW n, NEW L, NEW key \in Keys
  PROVE  DueIn(tx, n, L, key) \in Nat
<1>1. SumFunctionOnSet(Unlogged(n, tx.events, L, key), 1..Len(tx.events)) \in Nat
  BY UnloggedTyped, SumCovers DEF TxTyped
<1> QED  BY <1>1 DEF DueIn

LEMMA DueTyped ==
  ASSUME NEW l, LedgerTyped(l), NEW L, NEW key \in Keys
  PROVE  /\ IsFiniteSet(1..Len(l))
         /\ \A n \in 1..Len(l) : /\ Dues(l, L, key)[n] = DueIn(l[n], n, L, key)
                               /\ Dues(l, L, key)[n] \in Nat
         /\ Due(l, L, key) \in Nat
<1>1. IsFiniteSet(1..Len(l))  BY FS_Interval DEF LedgerTyped
<1>2. \A n \in 1..Len(l) : /\ Dues(l, L, key)[n] = DueIn(l[n], n, L, key)
                         /\ Dues(l, L, key)[n] \in Nat
  BY DueInTyped DEF LedgerTyped, Dues
<1> QED  BY <1>1, <1>2, SumCovers DEF Due

\* The more is logged, the less is due.
LEMMA DueInFalls ==
  ASSUME NEW tx, TxTyped(tx), NEW n, NEW L, NEW M, L \subseteq M, NEW key \in Keys
  PROVE  DueIn(tx, n, M, key) <= DueIn(tx, n, L, key)
<1> DEFINE f == Unlogged(n, tx.events, L, key)
           h == Unlogged(n, tx.events, M, key)
           S == 1..Len(tx.events)
<1>1. tx.events \in Seq(EventType)  BY DEF TxTyped
<1>2. /\ IsFiniteSet(S)
      /\ \A i \in S : /\ f[i] \in Nat /\ h[i] \in Nat
                     /\ h[i] <= f[i]
  BY <1>1, UnloggedFalls
<1> HIDE DEF f, h, S
<1>3. SumFunctionOnSet(h, S) <= SumFunctionOnSet(f, S)  BY <1>2, SumGrows
<1>4. DueIn(tx, n, M, key) \in Nat /\ DueIn(tx, n, L, key) \in Nat  BY DueInTyped
<1> QED  BY <1>3, <1>4 DEF DueIn, f, h, S

LEMMA DuesFall ==
  ASSUME NEW l, LedgerTyped(l), NEW L, NEW M, L \subseteq M, NEW key \in Keys
  PROVE  /\ IsFiniteSet(1..Len(l))
         /\ \A n \in 1..Len(l) :
              /\ Dues(l, L, key)[n] \in Int /\ Dues(l, M, key)[n] \in Int
              /\ Dues(l, M, key)[n] <= Dues(l, L, key)[n]
<1>1. IsFiniteSet(1..Len(l))  BY DueTyped
<1>2. ASSUME NEW n \in 1..Len(l)
      PROVE  /\ Dues(l, L, key)[n] \in Int /\ Dues(l, M, key)[n] \in Int
             /\ Dues(l, M, key)[n] <= Dues(l, L, key)[n]
  <2>1. /\ Dues(l, L, key)[n] = DueIn(l[n], n, L, key) /\ Dues(l, L, key)[n] \in Nat
        /\ Dues(l, M, key)[n] = DueIn(l[n], n, M, key) /\ Dues(l, M, key)[n] \in Nat
    BY DueTyped
  <2>2. DueIn(l[n], n, M, key) <= DueIn(l[n], n, L, key)  BY DueInFalls DEF LedgerTyped
  <2> QED  BY <2>1, <2>2
<1> QED  BY <1>1, <1>2

LEMMA DueFalls ==
  ASSUME NEW l, LedgerTyped(l), NEW L, NEW M, L \subseteq M, NEW key \in Keys
  PROVE  Due(l, M, key) <= Due(l, L, key)
<1> DEFINE f == Dues(l, L, key)
           h == Dues(l, M, key)
           S == 1..Len(l)
<1>1. IsFiniteSet(S) /\ \A n \in S : f[n] \in Int /\ h[n] \in Int /\ h[n] <= f[n]
  BY DuesFall
<1> HIDE DEF f, h, S
<1>2. SumFunctionOnSet(h, S) <= SumFunctionOnSet(f, S)  BY <1>1, SumGrows
<1> QED  BY <1>2 DEF Due, f, h, S

\* An event that is logged takes its amount off what is due.
LEMMA LoggedFalls ==
  ASSUME NEW l, LedgerTyped(l), NEW L, NEW n \in 1..Len(l), l[n].ok,
         NEW i \in 1..Len(l[n].events), UniqueKey(n, l[n].events[i]) \notin L,
         NEW key \in Keys
  PROVE  Due(l, L \cup {UniqueKey(n, l[n].events[i])}, key) + Amount(l[n].events[i], key)
           <= Due(l, L, key)
<1> DEFINE s == l[n].events
           a == Amount(s[i], key)
           M == L \cup {UniqueKey(n, s[i])}
<1>1. TxTyped(l[n]) /\ s \in Seq(EventType) /\ L \subseteq M  BY DEF LedgerTyped, TxTyped
<1>2. UniqueKey(n, s[i]) \in M  OBVIOUS
<1>3. DueIn(l[n], n, M, key) + a <= DueIn(l[n], n, L, key)
  <2> DEFINE f == Unlogged(n, s, L, key)
             h == Unlogged(n, s, M, key)
             S == 1..Len(s)
  <2> HIDE DEF M
  <2>1. /\ IsFiniteSet(S)
        /\ \A j \in S : f[j] \in Nat /\ h[j] \in Nat /\ h[j] <= f[j]
    BY <1>1, UnloggedFalls
  <2>3. h[i] = 0 /\ f[i] = a /\ a \in Nat
    <3>1. f[i] = IF UniqueKey(n, s[i]) \in L THEN 0 ELSE Amount(s[i], key)
      BY <1>1, UnloggedTyped
    <3>3. Amount(s[i], key) \in Nat
      BY <1>1, UnloggedTyped
    <3>2. h[i] = IF UniqueKey(n, s[i]) \in M THEN 0 ELSE Amount(s[i], key)
      BY <1>1, UnloggedTyped
    <3> QED  BY <1>2, <3>1, <3>2, <3>3
  <2> HIDE DEF f, h, a
  <2>2. i \in S /\ a \in Int /\ h[i] + a <= f[i]
        /\ \A j \in S : f[j] \in Int /\ h[j] \in Int /\ h[j] <= f[j]
    BY <2>1, <2>3
  <2> HIDE DEF S
  <2>4. SumFunctionOnSet(h, S) + a <= SumFunctionOnSet(f, S)  BY <2>1, <2>2, SumDrops
  <2> QED  BY <2>4 DEF DueIn, f, h, S
<1> DEFINE f == Dues(l, L, key)
           h == Dues(l, M, key)
           S == 1..Len(l)
<1>4. a \in Nat  BY <1>1, UnloggedTyped
<1> HIDE DEF M, a
<1>5. /\ IsFiniteSet(S) /\ n \in S
      /\ \A k \in S : f[k] \in Int /\ h[k] \in Int /\ h[k] <= f[k]
      /\ h[n] + a <= f[n]
  BY <1>1, <1>3, DueTyped, DuesFall
<1> HIDE DEF f, h, S
<1>6. a \in Int  BY <1>4
<1>7. SumFunctionOnSet(h, S) + a <= SumFunctionOnSet(f, S)  BY <1>5, <1>6, SumDrops
<1>8. Due(l, M, key) + a <= Due(l, L, key)  BY <1>7 DEF Due, f, h, S
<1> QED  BY <1>8 DEF M, a

\* One more transaction.
LEMMA LedgerGrows ==
  ASSUME NEW l, LedgerTyped(l), NEW tx, TxTyped(tx)
  PROVE  /\ LedgerTyped(Append(l, tx))
         /\ Len(Append(l, tx)) = Len(l) + 1
         /\ Append(l, tx)[Len(l) + 1] = tx
         /\ \A n \in 1..Len(l) : Append(l, tx)[n] = l[n]
         /\ Append(l, tx) # << >>
         /\ Last(Append(l, tx)) = tx
<1>1. PICK R : l \in Seq(R)  BY DEF LedgerTyped
<1> DEFINE S == R \cup {tx}
           t == Append(l, tx)
<1>2. l \in Seq(S)  BY <1>1, SeqMonotonic
<1>3. tx \in S  OBVIOUS
<1> HIDE DEF S
<1>4. /\ t \in Seq(S) /\ Len(t) = Len(l) + 1 /\ t[Len(l) + 1] = tx
      /\ \A n \in 1..Len(l) : t[n] = l[n]
  BY <1>2, <1>3, AppendProperties
<1>5. Len(l) \in Nat  BY DEF LedgerTyped
<1> HIDE DEF t
<1>6. \A n \in 1..Len(t) : TxTyped(t[n])  BY <1>4, <1>5 DEF LedgerTyped
<1>7. t # << >> /\ Last(t) = tx  BY <1>4, <1>5 DEF Last
<1> QED  BY <1>4, <1>5, <1>6, <1>7 DEF LedgerTyped, t

LEMMA DueGrows ==
  ASSUME NEW l, LedgerTyped(l), NEW tx, TxTyped(tx), NEW L, NEW key \in Keys
  PROVE  Due(Append(l, tx), L, key) = Due(l, L, key) + DueIn(tx, Len(l) + 1, L, key)
<1> DEFINE t == Append(l, tx)
           n == Len(l)
           f == Dues(l, L, key)
           h == Dues(t, L, key)
<1>1. /\ LedgerTyped(t) /\ n \in Nat /\ Len(t) = n + 1 /\ t[n + 1] = tx
      /\ \A k \in 1..n : t[k] = l[k]
  BY LedgerGrows DEF LedgerTyped
<1>2. \A k \in 1..n : f[k] = DueIn(l[k], k, L, key)  BY DueTyped
<1>3. \A k \in 1..(n + 1) : h[k] = DueIn(t[k], k, L, key) /\ h[k] \in Nat
  <2> HIDE DEF t
  <2> QED  BY <1>1, DueTyped
<1> HIDE DEF t, f, h, n
<1>4. \A k \in 1..n : f[k] = h[k]  BY <1>1, <1>2, <1>3
<1>5. \A k \in 1..(n + 1) : h[k] \in Int  BY <1>3
<1>6. SumFunctionOnSet(h, 1..(n + 1)) = SumFunctionOnSet(f, 1..n) + h[n + 1]
  BY <1>1, <1>4, <1>5, SumExtends
<1>7. h[n + 1] = DueIn(tx, n + 1, L, key)  BY <1>1, <1>3
<1> QED  BY <1>1, <1>6, <1>7 DEF Due, t, f, h, n

\* Nothing of a new transaction is logged.
LEMMA AllDue ==
  ASSUME NEW tx, TxTyped(tx), tx.ok, NEW n, NEW L, \A k \in L : k[2] # n, NEW key \in Keys
  PROVE  DueIn(tx, n, L, key) = FilledBy(tx.events, key)
<1> DEFINE s == tx.events
           f == Unlogged(n, s, L, key)
           h == Amounts(s, key)
           S == 1..Len(s)
<1>1. s \in Seq(EventType)  BY DEF TxTyped
<1>2. \A i \in S : UniqueKey(n, s[i]) \notin L  BY UniqueKeyParts
<1>3. IsFiniteSet(S) /\ \A i \in S : f[i] \in Int /\ f[i] = h[i]
  <2>1. IsFiniteSet(S)  BY <1>1, UnloggedTyped
  <2>2. ASSUME NEW i \in S PROVE f[i] \in Int /\ f[i] = h[i]
    <3>1. f[i] = IF UniqueKey(n, s[i]) \in L THEN 0 ELSE Amount(s[i], key)
      BY <1>1, UnloggedTyped
    <3>2. h[i] = Amount(s[i], key) /\ h[i] \in Nat  BY <1>1, AmountsTyped
    <3> QED  BY <1>2, <3>1, <3>2
  <2> QED  BY <2>1, <2>2
<1> HIDE DEF f, h, S
<1>4. SumFunctionOnSet(f, S) = SumFunctionOnSet(h, S)  BY <1>3, SumAgrees
<1> QED  BY <1>4 DEF DueIn, FilledBy, f, h, S

-----------------------------------------------------------------------------
(* The ledger and the accounts, the table and the ledger *)

\* What the orders have traded is what the ledger says.
LedgerSound(l, c) ==
  /\ LedgerTyped(l)
  /\ Len(l) <= TxBound
  /\ ChainTyped(c)
  /\ \A n \in 1..Len(l) :
       l[n].ok => \A i \in 1..Len(l[n].events) : EventFits(l[n].events[i], c)
  /\ \A key \in Keys : Spent(c, key) = Due(l, {}, key)

\* A row has what its order has left and what the log has still to take off it.
RowType == [order : Markets, remaining_quantity : Int, status : OrderStatus]
RowCovers(row, c, key, due) ==
  /\ key \in Keys /\ key \in DOMAIN c.orders
  /\ row \in RowType
  /\ row.remaining_quantity >= c.orders[key].left + due
RowsCover(t, c, l, L) == \A key \in DOMAIN t : RowCovers(t[key], c, key, Due(l, L, key))

LEMMA SpentTyped ==
  ASSUME NEW c, ChainTyped(c), NEW key \in DOMAIN c.orders
  PROVE  /\ key \in Keys /\ c.orders[key].left \in Nat /\ c.orders[key].quantity \in Nat
         /\ Spent(c, key) = c.orders[key].quantity - c.orders[key].left
BY DEF ChainTyped, OrderState, Spent

LEMMA CommitSound ==
  ASSUME NEW l, NEW c, LedgerSound(l, c), Len(l) < TxBound, NEW t \in Transactions(c),
         NEW ok \in BOOLEAN, NEW tx,
         tx = [ok |-> ok, events |-> t.events, after |-> IF ok THEN t.after ELSE c]
  PROVE  TxTyped(tx) /\ LedgerSound(Append(l, tx), tx.after)
<1>1. LedgerTyped(l) /\ ChainTyped(c)  BY DEF LedgerSound
<1>2. Reaches(c, t.events, t.after)  BY <1>1, TransactionReaches
<1>3. tx.ok = ok /\ tx.events = t.events /\ tx.after = IF ok THEN t.after ELSE c
  OBVIOUS
<1>4. TxTyped(tx)  BY <1>2, <1>3 DEF TxTyped, Reaches
<1> DEFINE m == Append(l, tx)
           N == Len(l) + 1
<1>5. /\ LedgerTyped(m) /\ Len(m) = N /\ m[N] = tx /\ \A n \in 1..Len(l) : m[n] = l[n]
  BY <1>1, <1>4, LedgerGrows
<1>6. Len(l) \in Nat /\ TxBound \in Nat  BY <1>1, ChainAssumption DEF LedgerTyped
<1>7. ChainTyped(tx.after) /\ Grows(c, tx.after)
  BY <1>1, <1>2, <1>3 DEF Reaches, Grows
<1>8. ASSUME NEW key \in Keys PROVE Spent(tx.after, key) = Due(m, {}, key)
  <2>1. Due(m, {}, key) = Due(l, {}, key) + DueIn(tx, N, {}, key)
    BY <1>1, <1>4, DueGrows
  <2>2. Spent(c, key) = Due(l, {}, key)  BY DEF LedgerSound
  <2>3. CASE ok
    <3>1. DueIn(tx, N, {}, key) = FilledBy(tx.events, key)
      BY <1>3, <1>4, <2>3, AllDue
    <3>2. Spent(t.after, key) = Spent(c, key) + FilledBy(t.events, key)
      BY <1>2 DEF Reaches
    <3> QED  BY <1>3, <2>1, <2>2, <2>3, <3>1, <3>2
  <2>4. CASE ~ok
    <3>1. DueIn(tx, N, {}, key) = 0  BY <1>3, <2>4 DEF DueIn
    <3>2. Due(l, {}, key) \in Nat  BY <1>1, DueTyped
    <3> QED  BY <1>3, <2>1, <2>2, <2>4, <3>1, <3>2
  <2> QED  BY <2>3, <2>4
<1> HIDE DEF m
<1>9. ASSUME NEW n \in 1..Len(m), m[n].ok, NEW i \in 1..Len(m[n].events)
      PROVE  EventFits(m[n].events[i], tx.after)
  <2>1. CASE n = N
    <3>1. tx.after = t.after /\ m[n].events = t.events  BY <1>3, <1>5, <1>9, <2>1
    <3> QED  BY <1>2, <1>9, <3>1 DEF Reaches
  <2>2. CASE n # N
    <3>1. n \in 1..Len(l) /\ m[n] = l[n]  BY <1>5, <1>6, <2>2
    <3>2. EventFits(l[n].events[i], c)  BY <1>9, <3>1 DEF LedgerSound
    <3> QED  BY <1>7, <3>1, <3>2, FitsOn
  <2> QED  BY <2>1, <2>2
<1>10. Len(m) <= TxBound  BY <1>5, <1>6
<1>11. LedgerSound(m, tx.after)  BY <1>5, <1>7, <1>8, <1>9, <1>10 DEF LedgerSound
<1> QED  BY <1>4, <1>11 DEF m

LEMMA CommitCovers ==
  ASSUME NEW l, NEW c, LedgerSound(l, c), Len(l) < TxBound, NEW t \in Transactions(c),
         NEW ok \in BOOLEAN, NEW tx,
         tx = [ok |-> ok, events |-> t.events, after |-> IF ok THEN t.after ELSE c],
         NEW L, \A k \in L : k[2] \in 1..Len(l), NEW table, RowsCover(table, c, l, L)
  PROVE  RowsCover(table, tx.after, Append(l, tx), L)
<1>1. LedgerTyped(l) /\ ChainTyped(c) /\ Len(l) \in Nat  BY DEF LedgerSound, LedgerTyped
<1>2. Reaches(c, t.events, t.after)  BY <1>1, TransactionReaches
<1>3. tx.ok = ok /\ tx.events = t.events /\ tx.after = IF ok THEN t.after ELSE c
  OBVIOUS
<1>4. TxTyped(tx)  BY <1>2, <1>3 DEF TxTyped, Reaches
<1> DEFINE m == Append(l, tx)
           N == Len(l) + 1
<1>5. ASSUME NEW key \in DOMAIN table
      PROVE  RowCovers(table[key], tx.after, key, Due(m, L, key))
  <2>1. RowCovers(table[key], c, key, Due(l, L, key))  BY DEF RowsCover
  <2>2. /\ key \in Keys /\ key \in DOMAIN c.orders /\ table[key] \in RowType
        /\ table[key].remaining_quantity >= c.orders[key].left + Due(l, L, key)
    BY <2>1 DEF RowCovers
  <2>3. Due(m, L, key) = Due(l, L, key) + DueIn(tx, N, L, key)
    BY <1>1, <1>4, <2>2, DueGrows
  <2>4. Due(l, L, key) \in Nat  BY <1>1, <2>2, DueTyped
  <2>5. CASE ok
    <3>1. \A k \in L : k[2] # N  BY <1>1
    <3>2. DueIn(tx, N, L, key) = FilledBy(tx.events, key)
      BY <1>3, <1>4, <2>2, <2>5, <3>1, AllDue
    <3>3. /\ key \in DOMAIN t.after.orders
          /\ t.after.orders[key].quantity = c.orders[key].quantity
          /\ Spent(t.after, key) = Spent(c, key) + FilledBy(t.events, key)
          /\ ChainTyped(t.after)
      BY <1>2, <2>2 DEF Reaches, Grows
    <3>4. /\ c.orders[key].left \in Nat /\ c.orders[key].quantity \in Nat
          /\ Spent(c, key) = c.orders[key].quantity - c.orders[key].left
      BY <1>1, <2>2, SpentTyped
    <3>5. /\ t.after.orders[key].left \in Nat
          /\ Spent(t.after, key) = t.after.orders[key].quantity - t.after.orders[key].left
      BY <3>3, SpentTyped
    <3>6. DueIn(tx, N, L, key) \in Nat  BY <1>4, <2>2, DueInTyped
    <3>7. DueIn(tx, N, L, key) = FilledBy(t.events, key)  BY <1>3, <3>2
    <3> HIDE DEF m, N
    <3>8. t.after.orders[key].left + Due(m, L, key) = c.orders[key].left + Due(l, L, key)
      <4> DEFINE left == c.orders[key].left
                 now == t.after.orders[key].left
                 d == DueIn(tx, N, L, key)
      <4>1. Spent(t.after, key) = Spent(c, key) + d  BY <3>3, <3>7
      <4>2. Spent(t.after, key) = c.orders[key].quantity - now  BY <3>3, <3>5
      <4>3. Spent(c, key) = c.orders[key].quantity - left  BY <3>4
      <4>4. left \in Nat /\ now \in Nat /\ d \in Nat /\ c.orders[key].quantity \in Nat
        BY <3>4, <3>5, <3>6
      <4>5. Due(m, L, key) = Due(l, L, key) + d  BY <2>3
      <4> HIDE DEF left, now, d
      <4>6. now = left - d  BY <4>1, <4>2, <4>3, <4>4
      <4>7. now + Due(m, L, key) = left + Due(l, L, key)  BY <2>4, <4>4, <4>5, <4>6
      <4> QED  BY <4>7 DEF now, left
    <3> QED  BY <1>3, <2>2, <2>5, <3>3, <3>8 DEF RowCovers
  <2>6. CASE ~ok
    <3>1. DueIn(tx, N, L, key) = 0  BY <1>3, <2>6 DEF DueIn
    <3>2. Due(m, L, key) = Due(l, L, key)  BY <2>3, <2>4, <3>1
    <3> QED  BY <1>3, <2>1, <2>6, <3>2
  <2> QED  BY <2>5, <2>6
<1> QED  BY <1>5 DEF RowsCover

\* What is logged without touching a row leaves it covered.
LEMMA LoggingCovers ==
  ASSUME NEW l, NEW c, LedgerSound(l, c), NEW L, NEW M, L \subseteq M,
         NEW key, NEW row, RowCovers(row, c, key, Due(l, L, key))
  PROVE  RowCovers(row, c, key, Due(l, M, key))
<1>1. LedgerTyped(l) /\ ChainTyped(c)  BY DEF LedgerSound
<1>2. /\ key \in Keys /\ key \in DOMAIN c.orders /\ row \in RowType
      /\ row.remaining_quantity >= c.orders[key].left + Due(l, L, key)
  BY DEF RowCovers
<1>3. Due(l, M, key) <= Due(l, L, key) /\ Due(l, M, key) \in Nat /\ Due(l, L, key) \in Nat
  BY <1>1, <1>2, DueFalls, DueTyped
<1>4. c.orders[key].left \in Nat /\ row.remaining_quantity \in Int
  BY <1>1, <1>2, SpentTyped DEF RowType
<1>5. row.remaining_quantity >= c.orders[key].left + Due(l, M, key)  BY <1>2, <1>3, <1>4
<1> QED  BY <1>2, <1>5 DEF RowCovers

\* A new row has all that its order asked for.
LEMMA NewRowCovers ==
  ASSUME NEW l, NEW c, LedgerSound(l, c), NEW L, NEW key \in DOMAIN c.orders, NEW m \in Markets
  PROVE  RowCovers([order |-> m, remaining_quantity |-> c.orders[key].quantity,
                    status |-> "open"], c, key, Due(l, L, key))
<1>1. LedgerTyped(l) /\ ChainTyped(c)  BY DEF LedgerSound
<1>2. /\ key \in Keys /\ c.orders[key].left \in Nat /\ c.orders[key].quantity \in Nat
      /\ Spent(c, key) = c.orders[key].quantity - c.orders[key].left
  BY <1>1, SpentTyped
<1>3. Due(l, L, key) <= Due(l, {}, key) /\ Due(l, L, key) \in Nat /\ Due(l, {}, key) \in Nat
  BY <1>1, <1>2, DueFalls, DueTyped
<1>4. Spent(c, key) = Due(l, {}, key)  BY <1>2 DEF LedgerSound
<1>5. c.orders[key].quantity >= c.orders[key].left + Due(l, L, key)  BY <1>2, <1>3, <1>4
<1> QED  BY <1>2, <1>5 DEF RowCovers, RowType, OrderStatus

\* A row that loses what the event that is logged takes off its order.
LEMMA FillCovers ==
  ASSUME NEW l, NEW c, LedgerSound(l, c), NEW L, NEW n \in 1..Len(l), l[n].ok,
         NEW i \in 1..Len(l[n].events), UniqueKey(n, l[n].events[i]) \notin L,
         NEW key, NEW row, RowCovers(row, c, key, Due(l, L, key)),
         NEW new \in RowType,
         new.remaining_quantity = row.remaining_quantity - Amount(l[n].events[i], key)
  PROVE  RowCovers(new, c, key, Due(l, L \cup {UniqueKey(n, l[n].events[i])}, key))
<1> DEFINE e == l[n].events[i]
           M == L \cup {UniqueKey(n, e)}
<1>1. LedgerTyped(l) /\ ChainTyped(c)  BY DEF LedgerSound
<1>2. /\ key \in Keys /\ key \in DOMAIN c.orders /\ row \in RowType
      /\ row.remaining_quantity >= c.orders[key].left + Due(l, L, key)
  BY DEF RowCovers
<1>3. Due(l, M, key) + Amount(e, key) <= Due(l, L, key)  BY <1>1, <1>2, LoggedFalls
<1>4. Due(l, M, key) \in Nat /\ Due(l, L, key) \in Nat  BY <1>1, <1>2, DueTyped
<1>5. c.orders[key].left \in Nat /\ row.remaining_quantity \in Int
  BY <1>1, <1>2, SpentTyped DEF RowType
<1>6. Amount(e, key) \in Nat
  <2>1. EventFits(e, c)  BY DEF LedgerSound
  <2> QED  BY <1>2, <2>1, AmountTyped DEF EventFits
<1> HIDE DEF e, M
<1>7. new.remaining_quantity = row.remaining_quantity - Amount(e, key)  BY DEF e
<1>8. new.remaining_quantity >= c.orders[key].left + Due(l, M, key)
  BY <1>2, <1>3, <1>4, <1>5, <1>6, <1>7
<1>9. RowCovers(new, c, key, Due(l, M, key))  BY <1>2, <1>8 DEF RowCovers
<1> QED  BY <1>9 DEF M, e

-----------------------------------------------------------------------------
(* The invariant of the tables *)

Steps == {"store", "maker", "taker", "publish", "cursor"}
MainSteps == {"boot", "list", "fetch", "connect", "listen", "pending"}
TradeRows == [signature : Signatures, key : Keys, quantity : Nat]

\* What any source can deliver: the events of transactions that succeeded.
Deliveries(l) ==
  {d \in [signature : 1..Len(l), event : EventType] :
     /\ l[d.signature].ok
     /\ \E i \in 1..Len(l[d.signature].events) : d.event = l[d.signature].events[i]}

WorkFits(w, l) ==
  /\ w.todo \in Seq(Deliveries(l))
  /\ w.step \in Steps
  /\ w.removed \subseteq Keys
  /\ w.added \subseteq Entries

\* A trade is a fill that happened and whose event is logged.
TradeFits(row, l, L) ==
  /\ row \in TradeRows
  /\ row.signature \in 1..Len(l)
  /\ l[row.signature].ok
  /\ \E i \in 1..Len(l[row.signature].events) :
       LET e == l[row.signature].events[i]
       IN e.kind = "OrderMatched" /\ OrderKey(e) = row.key /\ e.quantity = row.quantity
  /\ <<"OrderMatched", row.signature, row.key[2]>> \in L

ChainSound == LedgerSound(ledger, chain)
OrdersSound == RowsCover(live_orders, chain, ledger, DOMAIN event_log)
LogSound == \A key \in DOMAIN event_log : key[2] \in 1..Len(ledger)
TradesSound ==
  \A row \in DOMAIN trades : TradeFits(row, ledger, DOMAIN event_log) /\ trades[row] = 1
WorkSound == \A p \in Processes : WorkFits(work[p], ledger)
TablesSound ==
  /\ \A m \in DOMAIN markets : m \in Markets /\ markets[m] \in MarketRows
  /\ indexer_cursor \in 0..Len(ledger)
  /\ book \subseteq Entries
  /\ posted \subseteq 1..Len(ledger)
MainSound ==
  /\ DOMAIN main = {"step", "until", "tip", "fetch", "at", "seen_signatures"}
  /\ main.step \in MainSteps
  /\ main.until \in 0..Len(ledger)
  /\ main.fetch \in Seq(1..Len(ledger))

IndexInv ==
  /\ CursorInv
  /\ ChainSound
  /\ OrdersSound
  /\ LogSound
  /\ TradesSound
  /\ WorkSound
  /\ TablesSound
  /\ MainSound

-----------------------------------------------------------------------------
(* What is delivered *)

LEMMA LogsDelivered ==
  ASSUME ChainSound, NEW n \in 1..Len(ledger), ledger[n].ok
  PROVE  Logs(n) \in Seq(Deliveries(ledger))
<1> DEFINE s == ledger[n].events
<1>1. s \in Seq(EventType)  BY DEF ChainSound, LedgerSound, LedgerTyped, TxTyped
<1>2. Len(s) \in Nat /\ \A i \in 1..Len(s) : s[i] \in EventType  BY <1>1, ElementOfSeq
<1>3. \A i \in 1..Len(s) : [signature |-> n, event |-> s[i]] \in Deliveries(ledger)
  BY <1>2 DEF Deliveries
<1>4. Logs(n) = [i \in 1..Len(s) |-> [signature |-> n, event |-> s[i]]]  BY DEF Logs
<1> HIDE DEF s
<1> QED  BY <1>2, <1>3, <1>4

\* A delivered event is one of its transaction's.
LEMMA DeliveredIs ==
  ASSUME ChainSound, NEW d \in Deliveries(ledger)
  PROVE  /\ d.signature \in 1..Len(ledger) /\ ledger[d.signature].ok
         /\ d.event \in EventType /\ EventFits(d.event, chain)
         /\ \E i \in 1..Len(ledger[d.signature].events) :
              d.event = ledger[d.signature].events[i]
BY DEF Deliveries, ChainSound, LedgerSound

LEMMA DeliveriesGrow ==
  ASSUME NEW l, LedgerTyped(l), NEW tx, TxTyped(tx)
  PROVE  Deliveries(l) \subseteq Deliveries(Append(l, tx))
<1> DEFINE m == Append(l, tx)
<1>1. /\ Len(m) = Len(l) + 1 /\ Len(l) \in Nat /\ \A n \in 1..Len(l) : m[n] = l[n]
  BY LedgerGrows DEF LedgerTyped
<1> HIDE DEF m
<1>2. \A n \in 1..Len(l) : n \in 1..Len(m)  BY <1>1
<1>3. Deliveries(l) \subseteq Deliveries(m)  BY <1>1, <1>2 DEF Deliveries
<1> QED  BY <1>3 DEF m

Batched(f, batch, N) ==
  f = [n \in 0..N |-> IF n = 0 THEN << >>
                      ELSE f[n - 1] \o (IF n \in batch /\ ledger[n].ok THEN Logs(n) ELSE << >>)]

LEMMA BatchedExists ==
  ASSUME NEW batch, NEW N \in Nat
  PROVE  \E f : Batched(f, batch, N)
<1> DEFINE B == {n \in Nat : ~ \E f : Batched(f, batch, n)}
<1> SUFFICES ASSUME B # {} PROVE FALSE
  OBVIOUS
<1>1. PICK n \in B : \A k \in B : ~(<<k, n>> \in OpToRel(<, Nat))
  <2>1. B \subseteq Nat  OBVIOUS
  <2> HIDE DEF B
  <2> QED  BY <2>1, NatLessThanWellFounded, WFMin
<1>2. \A k \in Nat : k < n => k \notin B
  BY <1>1 DEF OpToRel
<1>3. n # 0
  <2>1. Batched([i \in 0..0 |-> << >>], batch, 0)  BY DEF Batched
  <2> QED  BY <1>1, <2>1
<1>0. n \in Nat  BY <1>1
<1>4. n - 1 \in Nat /\ n - 1 < n
  <2> HIDE DEF B
  <2> QED  BY <1>0, <1>3
<1>5. PICK g : Batched(g, batch, n - 1)  BY <1>0, <1>2, <1>4
<1> DEFINE piece == IF n \in batch /\ ledger[n].ok THEN Logs(n) ELSE << >>
           f == [i \in 0..n |-> IF i = n THEN g[n - 1] \o piece ELSE g[i]]
<1>6. ASSUME NEW i \in 0..n
      PROVE  f[i] = IF i = 0 THEN << >>
                    ELSE f[i - 1] \o (IF i \in batch /\ ledger[i].ok THEN Logs(i) ELSE << >>)
  <2>1. CASE i = n
    BY <1>0, <1>4, <2>1
  <2>2. CASE i # n
    <3>1. i \in 0..(n - 1) /\ (i # 0 => i - 1 \in 0..n /\ i - 1 # n)  BY <1>0, <1>4, <2>2
    <3>2. f[i] = g[i] /\ (i # 0 => f[i - 1] = g[i - 1])  BY <2>2, <3>1
    <3> HIDE DEF f
    <3> QED  BY <1>5, <3>1, <3>2 DEF Batched
  <2> QED  BY <2>1, <2>2
<1>7. Batched(f, batch, n)
  <2>1. f = [i \in 0..n |-> f[i]]  OBVIOUS
  <2> HIDE DEF f
  <2> QED  BY <1>6, <2>1 DEF Batched
<1> QED  BY <1>1, <1>7

LEMMA BatchDelivered ==
  ASSUME ChainSound, NEW batch
  PROVE  BatchLogs(batch) \in Seq(Deliveries(ledger))
<1> DEFINE N == Len(ledger)
           D == Deliveries(ledger)
<1>1. N \in Nat  BY DEF ChainSound, LedgerSound, LedgerTyped
<1>2. PICK f : f = (CHOOSE g : Batched(g, batch, N))  OBVIOUS
<1>3. Batched(f, batch, N)  BY <1>1, <1>2, BatchedExists
<1>4. BatchLogs(batch) = f[N]  BY <1>2 DEF BatchLogs, Batched
<1> DEFINE B == {n \in 0..N : f[n] \notin Seq(D)}
<1>5. CASE B = {}
  BY <1>1, <1>4, <1>5
<1>6. CASE B # {}
  <2>1. PICK n \in B : \A k \in B : ~(<<k, n>> \in OpToRel(<, Nat))
    <3>1. B \subseteq Nat  BY <1>1
    <3> HIDE DEF B
    <3> QED  BY <1>6, <3>1, NatLessThanWellFounded, WFMin
  <2>0. n \in 0..N  BY <2>1
  <2>2. n \in Nat /\ n <= N
    <3> HIDE DEF B, N
    <3> QED  BY <1>1, <2>0
  <2>3. CASE n = 0
    <3>1. f[n] = << >>  BY <1>3, <2>1, <2>3 DEF Batched
    <3>2. << >> \in Seq(D)  BY EmptySeq
    <3> QED  BY <2>1, <3>1, <3>2
  <2>4. CASE n # 0
    <3>1. n - 1 \in Nat /\ n - 1 \in 0..N /\ n \in 1..N  BY <1>1, <2>2, <2>4
    <3>2. <<n - 1, n>> \in OpToRel(<, Nat)  BY <2>2, <3>1 DEF OpToRel
    <3>3. f[n - 1] \in Seq(D)  BY <2>1, <3>1, <3>2
    <3> DEFINE piece == IF n \in batch /\ ledger[n].ok THEN Logs(n) ELSE << >>
    <3>4. piece \in Seq(D)
      <4>1. CASE n \in batch /\ ledger[n].ok  BY <3>1, <4>1, LogsDelivered
      <4>2. CASE ~(n \in batch /\ ledger[n].ok)  BY <4>2, EmptySeq
      <4> QED  BY <4>1, <4>2
    <3>5. f[n] = f[n - 1] \o piece  BY <1>3, <2>1, <2>4 DEF Batched
    <3> HIDE DEF piece
    <3>6. f[n - 1] \o piece \in Seq(D)  BY <3>3, <3>4, ConcatProperties
    <3> QED  BY <2>1, <3>5, <3>6
  <2> QED  BY <2>3, <2>4
<1> QED  BY <1>5, <1>6

-----------------------------------------------------------------------------
(* What an event does to the rows of the orders *)

LEMMA RowsLogged ==
  ASSUME NEW l, NEW c, LedgerSound(l, c), NEW L, NEW M, L \subseteq M,
         NEW table, RowsCover(table, c, l, L)
  PROVE  RowsCover(table, c, l, M)
<1>1. ASSUME NEW key \in DOMAIN table
      PROVE  RowCovers(table[key], c, key, Due(l, M, key))
  <2>1. RowCovers(table[key], c, key, Due(l, L, key))  BY DEF RowsCover
  <2> QED  BY <2>1, LoggingCovers
<1> QED  BY <1>1 DEF RowsCover

LEMMA RowsPlaced ==
  ASSUME NEW l, NEW c, LedgerSound(l, c), NEW L, NEW table, RowsCover(table, c, l, L),
         NEW e, EventFits(e, c), e.kind = "OrderPlaced"
  PROVE  RowsCover(Placed(table, OrderKey(e), e.market_id, e.quantity), c, l, L)
<1> DEFINE key == OrderKey(e)
           row == [order |-> e.market_id, remaining_quantity |-> e.quantity, status |-> "open"]
           t == Placed(table, key, e.market_id, e.quantity)
<1>1. e.market_id \in Markets /\ key \in DOMAIN c.orders /\ c.orders[key].quantity = e.quantity
  BY DEF EventFits, EventType
<1>2. RowCovers(row, c, key, Due(l, L, key))
  <2> HIDE DEF key
  <2>1. RowCovers([order |-> e.market_id, remaining_quantity |-> c.orders[key].quantity,
                   status |-> "open"], c, key, Due(l, L, key))
    BY <1>1, NewRowCovers
  <2> QED  BY <1>1, <2>1
<1>3. /\ DOMAIN t = DOMAIN table \cup {key}
      /\ \A k \in DOMAIN t : t[k] = IF k \in DOMAIN table THEN table[k] ELSE row
  BY DEF Placed, Inserted
<1> HIDE DEF t, key, row
<1>4. ASSUME NEW k \in DOMAIN t PROVE RowCovers(t[k], c, k, Due(l, L, k))
  <2>1. CASE k \in DOMAIN table  BY <1>3, <2>1 DEF RowsCover
  <2>2. CASE k \notin DOMAIN table
    <3>1. k = key /\ t[k] = row  BY <1>3, <2>2
    <3> QED  BY <1>2, <3>1
  <2> QED  BY <2>1, <2>2
<1>5. RowsCover(t, c, l, L)  BY <1>4 DEF RowsCover
<1> QED  BY <1>5 DEF t, key

LEMMA RowsCancelled ==
  ASSUME NEW l, NEW c, NEW L, NEW table, RowsCover(table, c, l, L), NEW key
  PROVE  RowsCover(Cancelled(table, key), c, l, L)
<1> DEFINE t == Cancelled(table, key)
<1>1. ASSUME NEW k \in DOMAIN t PROVE RowCovers(t[k], c, k, Due(l, L, k))
  <2>1. k \in DOMAIN table  BY DEF Cancelled
  <2>2. RowCovers(table[k], c, k, Due(l, L, k))  BY <2>1 DEF RowsCover
  <2>3. t[k] = table[k] \/ t[k] = [table[k] EXCEPT !.status = "cancelled"]
    BY <2>1 DEF Cancelled
  <2> HIDE DEF t
  <2>4. t[k] \in RowType /\ t[k].remaining_quantity = table[k].remaining_quantity
    BY <2>2, <2>3 DEF RowCovers, RowType, OrderStatus
  <2> QED  BY <2>2, <2>4 DEF RowCovers
<1> QED  BY <1>1 DEF RowsCover

RowsTyped(table) == \A k \in DOMAIN table : table[k] \in RowType

LEMMA ReducedIs ==
  ASSUME NEW table, RowsTyped(table), NEW key, NEW quantity \in Int
  PROVE  /\ RowsTyped(Reduced(table, key, quantity))
         /\ DOMAIN Reduced(table, key, quantity) = DOMAIN table
         /\ \A k \in DOMAIN table :
              Reduced(table, key, quantity)[k].remaining_quantity =
                table[k].remaining_quantity - (IF k = key THEN quantity ELSE 0)
<1> DEFINE t == Reduced(table, key, quantity)
<1>1. DOMAIN t = DOMAIN table  BY ReducedRows
<1>2. ASSUME NEW k \in DOMAIN table
      PROVE  /\ t[k] \in RowType
             /\ t[k].remaining_quantity
                  = table[k].remaining_quantity - (IF k = key THEN quantity ELSE 0)
  <2> DEFINE left == table[k].remaining_quantity - quantity
             status == IF left <= 0 THEN "filled" ELSE "partially_filled"
  <2>1. table[k] \in RowType  BY DEF RowsTyped
  <2>2. CASE k # key
    <3>1. t[k] = table[k]  BY <2>2 DEF Reduced
    <3> HIDE DEF t
    <3> QED  BY <2>1, <2>2, <3>1 DEF RowType
  <2>3. CASE k = key
    <3>1. t[k] = [table[k] EXCEPT !.remaining_quantity = left, !.status = status]
      BY <2>3 DEF Reduced
    <3>2. left \in Int /\ status \in OrderStatus  BY <2>1 DEF RowType, OrderStatus
    <3>3. left = table[k].remaining_quantity - (IF k = key THEN quantity ELSE 0)
      BY <2>3
    <3> HIDE DEF t, left, status
    <3> QED  BY <2>1, <3>1, <3>2, <3>3 DEF RowType
  <2> QED  BY <2>2, <2>3
<1> QED  BY <1>1, <1>2 DEF RowsTyped

LEMMA MatchedIs ==
  ASSUME NEW table, RowsTyped(table), NEW maker, NEW taker, NEW quantity \in Int,
         NEW limit \in BOOLEAN
  PROVE  LET t == Matched(table, maker, taker, quantity, limit)
         IN /\ RowsTyped(t)
            /\ DOMAIN t = DOMAIN table
            /\ \A k \in DOMAIN table :
                 t[k].remaining_quantity =
                   table[k].remaining_quantity
                     - (IF k = maker THEN quantity ELSE 0)
                     - (IF limit /\ k = taker THEN quantity ELSE 0)
<1> DEFINE r == Reduced(table, maker, quantity)
           u == Reduced(r, taker, quantity)
           t == Matched(table, maker, taker, quantity, limit)
<1>1. /\ RowsTyped(r) /\ DOMAIN r = DOMAIN table
      /\ \A k \in DOMAIN table :
           r[k].remaining_quantity
             = table[k].remaining_quantity - (IF k = maker THEN quantity ELSE 0)
  BY ReducedIs
<1> HIDE DEF r
<1>2. /\ RowsTyped(u) /\ DOMAIN u = DOMAIN r
      /\ \A k \in DOMAIN r :
           u[k].remaining_quantity
             = r[k].remaining_quantity - (IF k = taker THEN quantity ELSE 0)
  BY <1>1, ReducedIs
<1>3. t = IF limit THEN u ELSE r  BY DEF Matched, r
<1> HIDE DEF u, t
<1>4. \A k \in DOMAIN table : /\ table[k].remaining_quantity \in Int
                             /\ r[k].remaining_quantity \in Int
  BY <1>1 DEF RowsTyped, RowType
<1>5. ASSUME NEW k \in DOMAIN table
      PROVE  t[k].remaining_quantity = table[k].remaining_quantity
                - (IF k = maker THEN quantity ELSE 0) - (IF limit /\ k = taker THEN quantity ELSE 0)
  <2>1. r[k].remaining_quantity
          = table[k].remaining_quantity - (IF k = maker THEN quantity ELSE 0)
    BY <1>1
  <2>2. u[k].remaining_quantity
          = r[k].remaining_quantity - (IF k = taker THEN quantity ELSE 0)
    BY <1>1, <1>2
  <2> DEFINE a == IF k = maker THEN quantity ELSE 0
             b == IF k = taker THEN quantity ELSE 0
             d == IF limit /\ k = taker THEN quantity ELSE 0
  <2>3. a \in Int /\ b \in Int /\ d = IF limit THEN b ELSE 0  OBVIOUS
  <2> HIDE DEF a, b, d
  <2>4. t[k].remaining_quantity = table[k].remaining_quantity - a - d
    <3>1. CASE limit  BY <1>3, <2>1, <2>2, <2>3, <3>1 DEF a, b
    <3>2. CASE ~limit  BY <1>3, <1>4, <2>1, <2>3, <3>2 DEF a
    <3> QED  BY <3>1, <3>2
  <2> QED  BY <2>4 DEF a, d
<1> QED  BY <1>1, <1>2, <1>3, <1>5 DEF t

\* A match takes off two rows what the log has no longer to take off them.
LEMMA RowsMatched ==
  ASSUME NEW l, NEW c, LedgerSound(l, c), NEW L, NEW n \in 1..Len(l), l[n].ok,
         NEW i \in 1..Len(l[n].events), NEW e, e = l[n].events[i],
         e.kind = "OrderMatched", UniqueKey(n, e) \notin L,
         NEW table, RowsCover(table, c, l, L)
  PROVE  RowsCover(Matched(table, OrderKey(e), <<e.market_id, e.taker_order_id>>,
                           e.quantity, e.taker_order_id # 0),
                   c, l, L \cup {UniqueKey(n, e)})
<1> DEFINE maker == OrderKey(e)
           taker == <<e.market_id, e.taker_order_id>>
           limit == e.taker_order_id # 0
           t == Matched(table, maker, taker, e.quantity, limit)
           M == L \cup {UniqueKey(n, e)}
<1>1. e \in EventType /\ e.quantity \in Int /\ limit \in BOOLEAN
  BY DEF LedgerSound, EventFits, EventType
<1>2. RowsTyped(table)  BY DEF RowsCover, RowCovers, RowsTyped
<1>3. /\ RowsTyped(t)
      /\ DOMAIN t = DOMAIN table
      /\ \A k \in DOMAIN table :
           t[k].remaining_quantity =
             table[k].remaining_quantity
               - (IF k = maker THEN e.quantity ELSE 0)
               - (IF limit /\ k = taker THEN e.quantity ELSE 0)
  <2> HIDE DEF maker, taker, limit
  <2> QED  BY <1>1, <1>2, MatchedIs
<1> HIDE DEF t
<1>4. ASSUME NEW k \in DOMAIN t PROVE RowCovers(t[k], c, k, Due(l, M, k))
  <2>1. k \in DOMAIN table /\ RowCovers(table[k], c, k, Due(l, L, k))
    BY <1>3 DEF RowsCover
  <2>2. k \in Keys /\ table[k].remaining_quantity \in Int
    BY <2>1 DEF RowCovers, RowType
  <2>3. Takes1(e, k) = IF k = maker THEN e.quantity ELSE 0
    BY <2>2 DEF Takes1, OrderKey, Keys
  <2>4. Takes2(e, k) = IF limit /\ k = taker THEN e.quantity ELSE 0
    BY <2>2 DEF Takes2, Keys
  <2> DEFINE a == Takes1(e, k)
             b == Takes2(e, k)
  <2>5. a \in Int /\ b \in Int  BY <1>1 DEF Takes1, Takes2
  <2>6. t[k].remaining_quantity = table[k].remaining_quantity - a - b
    <3> HIDE DEF maker, taker, limit
    <3> QED  BY <1>3, <2>1, <2>3, <2>4
  <2> HIDE DEF a, b
  <2>7. t[k].remaining_quantity = table[k].remaining_quantity - (a + b)
    BY <2>2, <2>5, <2>6
  <2>8. t[k].remaining_quantity = table[k].remaining_quantity - Amount(l[n].events[i], k)
    BY <2>7 DEF a, b, Amount
  <2>9. t[k] \in RowType  BY <1>3 DEF RowsTyped
  <2> QED  BY <2>1, <2>8, <2>9, FillCovers
<1>5. RowsCover(t, c, l, M)  BY <1>4 DEF RowsCover
<1> QED  BY <1>5 DEF t

-----------------------------------------------------------------------------
(* The steps of handle_event *)

LEMMA Handled ==
  ASSUME ChainSound, WorkSound, NEW p \in Processes, work[p].todo # << >>
  PROVE  /\ Signature(p) \in 1..Len(ledger) /\ ledger[Signature(p)].ok
         /\ Ev(p) \in EventType /\ EventFits(Ev(p), chain)
         /\ \E i \in 1..Len(ledger[Signature(p)].events) :
              Ev(p) = ledger[Signature(p)].events[i]
         /\ Tail(work[p].todo) \in Seq(Deliveries(ledger))
         /\ Key(p) = OrderKey(Ev(p)) /\ Key(p) \in Keys /\ TakerKey(p) \in Keys
<1>1. work[p].todo \in Seq(Deliveries(ledger))  BY DEF WorkSound, WorkFits
<1>2. /\ Head(work[p].todo) \in Deliveries(ledger)
      /\ Tail(work[p].todo) \in Seq(Deliveries(ledger))
  BY <1>1, HeadTailProperties
<1>3. /\ Signature(p) \in 1..Len(ledger) /\ ledger[Signature(p)].ok
      /\ Ev(p) \in EventType /\ EventFits(Ev(p), chain)
      /\ \E i \in 1..Len(ledger[Signature(p)].events) :
           Ev(p) = ledger[Signature(p)].events[i]
  BY <1>2, DeliveredIs DEF Signature, Ev
<1>4. Key(p) = OrderKey(Ev(p)) /\ Key(p) \in Keys /\ TakerKey(p) \in Keys
  BY <1>3 DEF Key, TakerKey, OrderKey, Keys, EventType
<1> QED  BY <1>2, <1>3, <1>4

LEMMA OneFits ==
  ASSUME WorkTyped, WorkSound, NEW p \in Processes, NEW w, WorkFits(w, ledger),
         work' = [work EXCEPT ![p] = w], ledger' = ledger
  PROVE  WorkSound'
<1>1. work'[p] = w /\ \A q \in Processes \ {p} : work'[q] = work[q]
  BY DEF WorkTyped
<1>2. \A q \in Processes : WorkFits(work'[q], ledger)  BY <1>1 DEF WorkSound
<1> QED  BY <1>2 DEF WorkSound

LEMMA FinishFits ==
  ASSUME ChainSound, WorkTyped, WorkSound, NEW p \in Processes, work[p].todo # << >>,
         Finish(p), ledger' = ledger
  PROVE  WorkSound'
<1> DEFINE w == [Idle EXCEPT !.todo = Tail(work[p].todo)]
<1>1. WorkFits(w, ledger)  BY Handled DEF Idle, WorkFits, Steps
<1>2. work' = [work EXCEPT ![p] = w]  BY DEF Finish
<1> HIDE DEF w
<1> QED  BY <1>1, <1>2, OneFits

LEMMA DiffFits ==
  ASSUME WorkTyped, WorkSound, NEW p \in Processes, NEW step \in Steps,
         NEW removed \in SUBSET Keys, NEW added \in SUBSET Entries,
         Diff(p, step, removed, added), ledger' = ledger
  PROVE  WorkSound'
<1> DEFINE w == [work[p] EXCEPT !.step = step, !.removed = @ \cup removed,
                                !.added = @ \cup added]
<1>1. /\ w.todo = work[p].todo /\ w.step = step
      /\ w.removed = work[p].removed \cup removed /\ w.added = work[p].added \cup added
  BY DEF WorkTyped
<1>2. work' = [work EXCEPT ![p] = w]  BY DEF Diff, WorkTyped
<1> HIDE DEF w
<1>3. WorkFits(w, ledger)  BY <1>1 DEF WorkSound, WorkFits
<1> QED  BY <1>2, <1>3, OneFits

LEMMA GotoFits ==
  ASSUME WorkTyped, WorkSound, NEW p \in Processes, NEW step \in Steps,
         Goto(p, step), ledger' = ledger
  PROVE  WorkSound'
<1> DEFINE w == [work[p] EXCEPT !.step = step]
<1>1. /\ w.todo = work[p].todo /\ w.step = step
      /\ w.removed = work[p].removed /\ w.added = work[p].added
  BY DEF WorkTyped
<1>2. work' = [work EXCEPT ![p] = w]  BY DEF Goto
<1> HIDE DEF w
<1>3. WorkFits(w, ledger)  BY <1>1 DEF WorkSound, WorkFits
<1> QED  BY <1>2, <1>3, OneFits

LEMMA TradeStays ==
  ASSUME NEW l, NEW L, NEW M, L \subseteq M, NEW row, TradeFits(row, l, L)
  PROVE  TradeFits(row, l, M)
BY DEF TradeFits

\* A row of the log, and no row of the orders or the trades.
LEMMA LogsOnly ==
  ASSUME IndexInv, NEW p \in Processes, work[p].todo # << >>, Logged(p),
         live_orders' = live_orders, trades' = trades, ledger' = ledger
  PROVE  OrdersSound' /\ LogSound' /\ TradesSound'
<1>1. /\ DOMAIN event_log' = DOMAIN event_log \cup {RowKey(p)}
      /\ RowKey(p)[2] = Signature(p)
  BY LoggedAdds, UniqueKeyParts DEF RowKey
<1>2. Signature(p) \in 1..Len(ledger)  BY Handled DEF IndexInv
<1>3. LogSound'  BY <1>1, <1>2 DEF LogSound, IndexInv
<1>4. TradesSound'  BY <1>1, TradeStays DEF TradesSound, IndexInv
<1>5. RowsCover(live_orders, chain, ledger, DOMAIN event_log')
  BY <1>1, RowsLogged DEF IndexInv, ChainSound, OrdersSound
<1>6. chain' = chain  BY DEF chain
<1> QED  BY <1>3, <1>4, <1>5, <1>6 DEF OrdersSound

LEMMA NothingStored ==
  ASSUME IndexInv, event_log' = event_log, live_orders' = live_orders, trades' = trades,
         ledger' = ledger
  PROVE  ChainSound' /\ OrdersSound' /\ LogSound' /\ TradesSound'
<1>1. chain' = chain  BY DEF chain
<1> QED  BY <1>1 DEF IndexInv, ChainSound, OrdersSound, LogSound, TradesSound

LEMMA PlacedSound ==
  ASSUME IndexInv, NEW p \in Processes, StoreOrderPlaced(p), ledger' = ledger
  PROVE  OrdersSound' /\ LogSound' /\ TradesSound' /\ WorkSound'
<1>0. ChainSound /\ WorkTyped /\ WorkSound  BY DEF IndexInv, CursorInv
<1>1. work[p].todo # << >> /\ Ev(p).kind = "OrderPlaced" /\ trades' = trades
  BY DEF StoreOrderPlaced, Stores, Handles
<1>2. /\ Signature(p) \in 1..Len(ledger) /\ EventFits(Ev(p), chain) /\ Ev(p) \in EventType
      /\ Key(p) = OrderKey(Ev(p)) /\ Key(p) \in Keys
  BY <1>0, <1>1, Handled
<1>3. CASE Finish(p) /\ UNCHANGED <<event_log, live_orders>>
  BY <1>0, <1>1, <1>3, FinishFits, NothingStored
<1>4. CASE /\ Logged(p)
           /\ live_orders' = Placed(live_orders, Key(p), Ev(p).market_id, Ev(p).quantity)
           /\ Diff(p, "publish", {}, {<<Key(p), Ev(p).quantity>>})
  <2>1. /\ DOMAIN event_log' = DOMAIN event_log \cup {RowKey(p)}
        /\ RowKey(p)[2] = Signature(p)
    BY <1>4, LoggedAdds, UniqueKeyParts DEF RowKey
  <2>2. LogSound'  BY <1>2, <2>1 DEF LogSound, IndexInv
  <2>3. TradesSound'  BY <1>1, <2>1, TradeStays DEF TradesSound, IndexInv
  <2>4. RowsCover(Placed(live_orders, OrderKey(Ev(p)), Ev(p).market_id, Ev(p).quantity),
                  chain, ledger, DOMAIN event_log)
    BY <1>1, <1>2, RowsPlaced DEF IndexInv, ChainSound, OrdersSound
  <2>5. RowsCover(live_orders', chain, ledger, DOMAIN event_log)  BY <1>2, <1>4, <2>4
  <2>6. RowsCover(live_orders', chain, ledger, DOMAIN event_log')
    BY <2>1, <2>5, RowsLogged DEF IndexInv, ChainSound
  <2>7. chain' = chain  BY DEF chain
  <2>8. "publish" \in Steps /\ {<<Key(p), Ev(p).quantity>>} \in SUBSET Entries
    BY <1>2 DEF Steps, Entries, EventType
  <2>9. WorkSound'  BY <1>0, <1>4, <2>8, DiffFits
  <2> QED  BY <2>2, <2>3, <2>6, <2>7, <2>9 DEF OrdersSound
<1> QED  BY <1>3, <1>4 DEF StoreOrderPlaced, Skip

LEMMA CancelledSound ==
  ASSUME IndexInv, NEW p \in Processes, StoreOrderCancelled(p), ledger' = ledger
  PROVE  OrdersSound' /\ LogSound' /\ TradesSound' /\ WorkSound'
<1>0. ChainSound /\ WorkTyped /\ WorkSound  BY DEF IndexInv, CursorInv
<1>1. work[p].todo # << >> /\ trades' = trades
  BY DEF StoreOrderCancelled, Stores, Handles
<1>2. Signature(p) \in 1..Len(ledger) /\ Key(p) \in Keys
  BY <1>0, <1>1, Handled
<1>3. CASE Finish(p) /\ UNCHANGED <<event_log, live_orders>>
  BY <1>0, <1>1, <1>3, FinishFits, NothingStored
<1>4. CASE /\ Logged(p)
           /\ live_orders' = Cancelled(live_orders, Key(p))
           /\ Diff(p, "publish", {Key(p)}, {})
  <2>1. /\ DOMAIN event_log' = DOMAIN event_log \cup {RowKey(p)}
        /\ RowKey(p)[2] = Signature(p)
    BY <1>4, LoggedAdds, UniqueKeyParts DEF RowKey
  <2>2. LogSound'  BY <1>2, <2>1 DEF LogSound, IndexInv
  <2>3. TradesSound'  BY <1>1, <2>1, TradeStays DEF TradesSound, IndexInv
  <2>4. RowsCover(live_orders', chain, ledger, DOMAIN event_log)
    BY <1>4, RowsCancelled DEF IndexInv, OrdersSound
  <2>5. RowsCover(live_orders', chain, ledger, DOMAIN event_log')
    BY <2>1, <2>4, RowsLogged DEF IndexInv, ChainSound
  <2>6. chain' = chain  BY DEF chain
  <2>7. "publish" \in Steps /\ {Key(p)} \in SUBSET Keys /\ {} \in SUBSET Entries
    BY <1>2 DEF Steps
  <2>8. WorkSound'  BY <1>0, <1>4, <2>7, DiffFits
  <2> QED  BY <2>2, <2>3, <2>5, <2>6, <2>8 DEF OrdersSound
<1> QED  BY <1>3, <1>4 DEF StoreOrderCancelled

\* The UNIQUE constraint of the fills keeps the table of the trades a set.
LEMMA TradeAdds ==
  ASSUME IndexInv, NEW p \in Processes, work[p].todo # << >>, Ev(p).kind = "OrderMatched",
         ~Duplicate(p), Logged(p), trades' = trades (+) SetToBag({Trade(p)}),
         ledger' = ledger
  PROVE  TradesSound'
<1> DEFINE row == Trade(p)
           L == DOMAIN event_log
           M == DOMAIN event_log'
<1>1. /\ Signature(p) \in 1..Len(ledger) /\ ledger[Signature(p)].ok /\ Ev(p) \in EventType
      /\ \E i \in 1..Len(ledger[Signature(p)].events) :
           Ev(p) = ledger[Signature(p)].events[i]
      /\ Key(p) = OrderKey(Ev(p)) /\ Key(p) \in Keys
  BY Handled DEF IndexInv
<1>2. M = L \cup {RowKey(p)} /\ RowKey(p) \notin L  BY LoggedAdds DEF Duplicate
<1>3. RowKey(p) = <<"OrderMatched", Signature(p), Ev(p).order_id>>
  BY DEF RowKey, UniqueKey, OrderEvents, MarketEvents
<1>4. /\ row.signature = Signature(p) /\ row.key = Key(p) /\ row.quantity = Ev(p).quantity
      /\ row.key[2] = Ev(p).order_id
      /\ row = [signature |-> Signature(p), key |-> Key(p), quantity |-> Ev(p).quantity]
  BY DEF Trade, Key
<1>5. row.signature \in Signatures
  <2>1. Len(ledger) \in Nat /\ Len(ledger) <= TxBound /\ TxBound \in Nat
    BY ChainAssumption DEF IndexInv, ChainSound, LedgerSound, LedgerTyped
  <2> QED  BY <1>1, <1>4, <2>1 DEF Signatures
<1>6. row \in TradeRows  BY <1>1, <1>4, <1>5 DEF TradeRows, EventType
<1> HIDE DEF row
<1>7. TradeFits(row, ledger, M)  BY <1>1, <1>2, <1>3, <1>4, <1>6 DEF TradeFits
<1>8. row \notin DOMAIN trades
  BY <1>2, <1>3, <1>4 DEF IndexInv, TradesSound, TradeFits
<1>9. /\ DOMAIN trades' = DOMAIN trades \cup {row}
      /\ trades'[row] = 1
      /\ \A r \in DOMAIN trades : trades'[r] = trades[r]
  <2>1. \A r \in DOMAIN trades : trades[r] = 1  BY DEF IndexInv, TradesSound
  <2> QED  BY <1>8, <2>1 DEF (+), SetToBag, row
<1>10. \A r \in DOMAIN trades : TradeFits(r, ledger, M) /\ trades[r] = 1
  BY <1>2, TradeStays DEF IndexInv, TradesSound
<1> QED  BY <1>7, <1>9, <1>10 DEF TradesSound

LEMMA MatchedSound ==
  ASSUME IndexInv, NEW p \in Processes, StoreOrderMatched(p), ledger' = ledger
  PROVE  OrdersSound' /\ LogSound' /\ TradesSound' /\ WorkSound'
<1>0. ChainSound /\ WorkTyped /\ WorkSound  BY DEF IndexInv, CursorInv
<1>1. work[p].todo # << >> /\ Ev(p).kind = "OrderMatched"
  BY DEF StoreOrderMatched, Stores, Handles
<1>2. /\ Signature(p) \in 1..Len(ledger) /\ ledger[Signature(p)].ok
      /\ \E i \in 1..Len(ledger[Signature(p)].events) :
           Ev(p) = ledger[Signature(p)].events[i]
      /\ Key(p) = OrderKey(Ev(p))
  BY <1>0, <1>1, Handled
<1>3. CASE Finish(p) /\ UNCHANGED <<event_log, live_orders, trades>>
  BY <1>0, <1>1, <1>3, FinishFits, NothingStored
<1>4. CASE /\ ~Duplicate(p) /\ Logged(p)
           /\ trades' = trades (+) SetToBag({Trade(p)})
           /\ live_orders' = Matched(live_orders, Key(p), TakerKey(p), Ev(p).quantity,
                                     Ev(p).taker_order_id # 0)
           /\ Goto(p, "maker")
  <2>1. /\ DOMAIN event_log' = DOMAIN event_log \cup {RowKey(p)}
        /\ RowKey(p)[2] = Signature(p) /\ RowKey(p) \notin DOMAIN event_log
        /\ RowKey(p) = UniqueKey(Signature(p), Ev(p))
    BY <1>4, LoggedAdds, UniqueKeyParts DEF RowKey, Duplicate
  <2>2. LogSound'  BY <1>2, <2>1 DEF LogSound, IndexInv
  <2>3. TradesSound'  BY <1>1, <1>4, TradeAdds
  <2>4. PICK i \in 1..Len(ledger[Signature(p)].events) :
          Ev(p) = ledger[Signature(p)].events[i]
    BY <1>2
  <2>5. RowsCover(Matched(live_orders, OrderKey(Ev(p)), <<Ev(p).market_id, Ev(p).taker_order_id>>,
                          Ev(p).quantity, Ev(p).taker_order_id # 0),
                  chain, ledger, DOMAIN event_log \cup {UniqueKey(Signature(p), Ev(p))})
    <3> DEFINE e == Ev(p)
               n == Signature(p)
               L == DOMAIN event_log
    <3>1. LedgerSound(ledger, chain) /\ RowsCover(live_orders, chain, ledger, L)
      BY DEF IndexInv, ChainSound, OrdersSound
    <3>2. /\ n \in 1..Len(ledger) /\ ledger[n].ok /\ e = ledger[n].events[i]
          /\ e.kind = "OrderMatched" /\ UniqueKey(n, e) \notin L
      BY <1>1, <1>2, <2>1, <2>4
    <3> HIDE DEF e, n, L
    <3>3. i \in 1..Len(ledger[n].events)  BY <2>4 DEF n
    <3>4. RowsCover(Matched(live_orders, OrderKey(e), <<e.market_id, e.taker_order_id>>,
                            e.quantity, e.taker_order_id # 0),
                    chain, ledger, L \cup {UniqueKey(n, e)})
      BY <3>1, <3>2, <3>3, RowsMatched
    <3> QED  BY <3>4 DEF e, n, L
  <2>6. RowsCover(live_orders', chain, ledger, DOMAIN event_log')
    BY <1>2, <1>4, <2>1, <2>5 DEF TakerKey
  <2>7. chain' = chain  BY DEF chain
  <2>8. "maker" \in Steps  BY DEF Steps
  <2>9. WorkSound'  BY <1>0, <1>4, <2>8, GotoFits
  <2> QED  BY <2>2, <2>3, <2>6, <2>7, <2>9 DEF OrdersSound
<1> QED  BY <1>3, <1>4 DEF StoreOrderMatched

\* The events of a market, and those that are only logged.
LEMMA OtherSound ==
  ASSUME IndexInv, NEW p \in Processes, ledger' = ledger,
         \/ StoreMarketInitialized(p) \/ StoreWinningSideSet(p) \/ StoreMarketClosed(p)
         \/ StoreMetadataUpdated(p) \/ StoreLogged(p)
  PROVE  /\ OrdersSound' /\ LogSound' /\ TradesSound' /\ WorkSound'
         /\ \A m \in DOMAIN markets' : m \in Markets /\ markets'[m] \in MarketRows
         /\ book' = book
<1>0. ChainSound /\ WorkTyped /\ WorkSound  BY DEF IndexInv, CursorInv
<1>1. /\ work[p].todo # << >> /\ Logged(p) /\ Goto(p, "cursor") /\ book' = book
      /\ live_orders' = live_orders /\ trades' = trades
  BY DEF StoreMarketInitialized, StoreWinningSideSet, StoreMarketClosed, StoreMetadataUpdated,
     UpdateMarket, StoreLogged, Stores, Handles
<1>2. OrdersSound' /\ LogSound' /\ TradesSound'  BY <1>1, LogsOnly
<1>3. "cursor" \in Steps  BY DEF Steps
<1>4. WorkSound'  BY <1>0, <1>1, <1>3, GotoFits
<1>5. Ev(p) \in EventType  BY <1>0, <1>1, Handled
<1>6. \A m \in DOMAIN markets : m \in Markets /\ markets[m] \in MarketRows
  BY DEF IndexInv, TablesSound
<1>7. Ev(p).market_id \in Markets /\ Ev(p).quantity \in Nat  BY <1>5 DEF EventType
<1>8. \A m \in DOMAIN markets' : m \in Markets /\ markets'[m] \in MarketRows
  <2>1. CASE StoreMarketInitialized(p)
    BY <1>6, <1>7, <2>1 DEF StoreMarketInitialized, Inserted, MarketRows
  <2>2. ASSUME NEW row, UpdateMarket(p, row), MarketKnown(p) => row \in MarketRows
        PROVE  \A m \in DOMAIN markets' : m \in Markets /\ markets'[m] \in MarketRows
    BY <1>6, <2>2 DEF UpdateMarket
  <2>3. MarketKnown(p) => Row(p) \in MarketRows  BY <1>6 DEF MarketKnown, Row
  <2>4. ASSUME MarketKnown(p)
        PROVE  /\ [Row(p) EXCEPT !.status = "settled"] \in MarketRows
               /\ [Row(p) EXCEPT !.status = "closed"] \in MarketRows
               /\ [Row(p) EXCEPT !.meta_data_url = Ev(p).quantity] \in MarketRows
    BY <1>7, <2>3, <2>4 DEF MarketRows
  <2>5. CASE StoreWinningSideSet(p)
    BY <2>2, <2>4, <2>5 DEF StoreWinningSideSet
  <2>6. CASE StoreMarketClosed(p)
    BY <2>2, <2>4, <2>6 DEF StoreMarketClosed
  <2>7. CASE StoreMetadataUpdated(p)
    BY <2>2, <2>4, <2>7 DEF StoreMetadataUpdated
  <2>8. CASE StoreLogged(p)
    BY <1>6, <2>8 DEF StoreLogged
  <2> QED  BY <2>1, <2>5, <2>6, <2>7, <2>8
<1> QED  BY <1>1, <1>2, <1>4, <1>8

\* A row that is read back has a quantity that a diff can carry.
LEMMA RowIs ==
  ASSUME IndexInv, NEW key \in DOMAIN live_orders
  PROVE  /\ key \in Keys /\ live_orders[key] \in Orders
         /\ key \in DOMAIN chain.orders
         /\ live_orders[key].remaining_quantity >= chain.orders[key].left
<1>1. /\ LedgerTyped(ledger) /\ ChainTyped(chain)
      /\ RowCovers(live_orders[key], chain, key, Due(ledger, DOMAIN event_log, key))
  BY DEF IndexInv, ChainSound, LedgerSound, OrdersSound, RowsCover
<1> DEFINE row == live_orders[key]
           due == Due(ledger, DOMAIN event_log, key)
           left == chain.orders[key].left
<1>2. /\ key \in Keys /\ key \in DOMAIN chain.orders /\ row \in RowType
      /\ row.remaining_quantity >= left + due
  BY <1>1 DEF RowCovers
<1>3. left \in Nat  BY <1>1, <1>2, SpentTyped
<1>4. due \in Nat  BY <1>1, <1>2, DueTyped
<1>5. row.remaining_quantity \in Int  BY <1>2 DEF RowType
<1> HIDE DEF row, due, left
<1>6. row.remaining_quantity >= left /\ row.remaining_quantity \in Nat
  BY <1>2, <1>3, <1>4, <1>5
<1>7. row \in Orders  BY <1>2, <1>6 DEF RowType, Orders
<1> QED  BY <1>2, <1>6, <1>7 DEF row, left

LEMMA ReadBackFits ==
  ASSUME IndexInv, NEW p \in Processes, NEW key, NEW step \in Steps,
         ReadBack(p, key, step), ledger' = ledger
  PROVE  WorkSound'
<1>0. WorkTyped /\ WorkSound  BY DEF IndexInv, CursorInv
<1>1. CASE Goto(p, step)
  BY <1>0, <1>1, GotoFits
<1>2. CASE key \in DOMAIN live_orders
  <2>1. key \in Keys /\ live_orders[key].remaining_quantity \in Nat
    BY <1>2, RowIs DEF Orders
  <2>2. {key} \in SUBSET Keys /\ {} \in SUBSET Entries
        /\ {<<key, live_orders[key].remaining_quantity>>} \in SUBSET Entries
    BY <2>1 DEF Entries
  <2>3. CASE Diff(p, step, {key}, {<<key, live_orders[key].remaining_quantity>>})
    BY <1>0, <2>2, <2>3, DiffFits
  <2>4. CASE Diff(p, step, {key}, {})
    BY <1>0, <2>2, <2>4, DiffFits
  <2> QED  BY <1>1, <1>2, <2>3, <2>4 DEF ReadBack
<1> QED  BY <1>1, <1>2 DEF ReadBack

LEMMA HandleEventKeeps ==
  ASSUME IndexInv, NEW p \in Processes, HandleEvent(p)
  PROVE  ChainSound' /\ OrdersSound' /\ LogSound' /\ TradesSound' /\ WorkSound' /\ TablesSound'
<1>0. ChainSound /\ WorkTyped /\ WorkSound /\ TablesSound  BY DEF IndexInv, CursorInv
<1>1. ledger' = ledger /\ posted' = posted  BY DEF HandleEvent
<1>2. ChainSound'  BY <1>0, <1>1 DEF ChainSound, chain
<1>3. ASSUME event_log' = event_log, live_orders' = live_orders, trades' = trades,
             markets' = markets
      PROVE  OrdersSound' /\ LogSound' /\ TradesSound'
  BY <1>1, <1>3, NothingStored
<1>4. ASSUME markets' = markets, indexer_cursor' = indexer_cursor, book' = book
      PROVE  TablesSound'
  BY <1>0, <1>1, <1>4 DEF TablesSound
<1>5. "publish" \in Steps /\ "cursor" \in Steps /\ AfterMaker(p) \in Steps
  BY DEF Steps, AfterMaker
<1>6. CASE Store(p) /\ indexer_cursor' = indexer_cursor
  <2>1. CASE StoreOrderPlaced(p)
    BY <1>1, <1>2, <1>4, <1>6, <2>1, PlacedSound DEF StoreOrderPlaced
  <2>2. CASE StoreOrderMatched(p)
    BY <1>1, <1>2, <1>4, <1>6, <2>2, MatchedSound DEF StoreOrderMatched
  <2>3. CASE StoreOrderCancelled(p)
    BY <1>1, <1>2, <1>4, <1>6, <2>3, CancelledSound DEF StoreOrderCancelled
  <2>4. CASE \/ StoreMarketInitialized(p) \/ StoreWinningSideSet(p) \/ StoreMarketClosed(p)
             \/ StoreMetadataUpdated(p) \/ StoreLogged(p)
    <3>1. /\ OrdersSound' /\ LogSound' /\ TradesSound' /\ WorkSound'
          /\ \A m \in DOMAIN markets' : m \in Markets /\ markets'[m] \in MarketRows
          /\ book' = book
      BY <1>1, <2>4, OtherSound
    <3>2. TablesSound'  BY <1>0, <1>1, <1>6, <3>1 DEF TablesSound
    <3> QED  BY <1>2, <3>1, <3>2
  <2> QED  BY <1>6, <2>1, <2>2, <2>3, <2>4 DEF Store
<1>7. CASE ReadMaker(p) /\ indexer_cursor' = indexer_cursor
  <2>1. WorkSound'  BY <1>1, <1>5, <1>7, ReadBackFits DEF ReadMaker
  <2> QED  BY <1>2, <1>3, <1>4, <1>7, <2>1 DEF ReadMaker
<1>8. CASE ReadTaker(p) /\ indexer_cursor' = indexer_cursor
  <2>1. WorkSound'  BY <1>1, <1>5, <1>8, ReadBackFits DEF ReadTaker
  <2> QED  BY <1>2, <1>3, <1>4, <1>8, <2>1 DEF ReadTaker
<1>9. CASE PublishDiff(p) /\ indexer_cursor' = indexer_cursor
  <2>1. WorkSound'  BY <1>0, <1>1, <1>5, <1>9, GotoFits DEF PublishDiff
  <2>2. book' \subseteq Entries
    BY <1>0, <1>9 DEF PublishDiff, WorkSound, WorkFits, TablesSound
  <2>3. TablesSound'  BY <1>0, <1>1, <1>9, <2>2 DEF PublishDiff, TablesSound
  <2> QED  BY <1>2, <1>3, <1>9, <2>1, <2>3 DEF PublishDiff
<1>10. CASE UpdateCursor(p)
  <2>1. work[p].todo # << >> /\ Finish(p)  BY <1>10 DEF UpdateCursor, Handles
  <2>2. WorkSound'  BY <1>0, <1>1, <2>1, FinishFits
  <2>3. indexer_cursor' \in 1..Len(ledger)
    BY <1>0, <1>10, <2>1, Handled DEF UpdateCursor
  <2>4. Len(ledger) \in Nat  BY <1>0 DEF ChainSound, LedgerSound, LedgerTyped
  <2>5. indexer_cursor' \in 0..Len(ledger)  BY <2>3, <2>4
  <2>6. TablesSound'  BY <1>0, <1>1, <1>10, <2>5 DEF UpdateCursor, TablesSound
  <2> QED  BY <1>2, <1>3, <1>10, <2>2, <2>6 DEF UpdateCursor
<1>11. CASE RedisUnavailable(p)
  <2>1. WorkSound'
    BY <1>0, <1>1, <1>11, FinishFits DEF RedisUnavailable, Handles
  <2> QED  BY <1>2, <1>3, <1>4, <1>11, <2>1 DEF RedisUnavailable, db
<1>12. CASE DatabaseFails(p)
  <2>1. work[p].todo # << >>  BY <1>12 DEF DatabaseFails, Handles
  <2>2. Finish(p) \/ \E step \in Steps : Goto(p, step)
    BY <1>5, <1>12 DEF DatabaseFails
  <2>3. WorkSound'  BY <1>0, <1>1, <2>1, <2>2, FinishFits, GotoFits
  <2> QED  BY <1>2, <1>3, <1>4, <1>12, <2>3 DEF DatabaseFails, db
<1> QED  BY <1>6, <1>7, <1>8, <1>9, <1>10, <1>11, <1>12 DEF HandleEvent

-----------------------------------------------------------------------------
(* The other steps *)

\* What is delivered and what was traded stays so on a longer ledger.
LEMMA TransactKeeps ==
  ASSUME IndexInv, Transact, UNCHANGED <<db, main, work, posted, book>>
  PROVE  ChainSound' /\ OrdersSound' /\ LogSound' /\ TradesSound' /\ WorkSound' /\ TablesSound'
         /\ MainSound'
<1>1. PICK t \in Transactions(chain) : Commit(TRUE, t) \/ Commit(FALSE, t)
  BY DEF Transact
<1>2. PICK ok \in BOOLEAN : Commit(ok, t)  BY <1>1
<1> DEFINE tx == [ok |-> ok, events |-> t.events, after |-> IF ok THEN t.after ELSE chain]
           l == ledger
           m == Append(l, tx)
           L == DOMAIN event_log
<1>3. Len(l) < TxBound /\ ledger' = m  BY <1>2 DEF Commit
<1>4. /\ LedgerSound(l, chain) /\ RowsCover(live_orders, chain, l, L)
      /\ \A k \in L : k[2] \in 1..Len(l)
  BY DEF IndexInv, ChainSound, OrdersSound, LogSound
<1> HIDE DEF l
<1>5. TxTyped(tx) /\ LedgerSound(m, tx.after)  BY <1>3, <1>4, CommitSound
<1>6. RowsCover(live_orders, tx.after, m, L)  BY <1>3, <1>4, CommitCovers
<1>7. LedgerTyped(l)  BY <1>4 DEF LedgerSound
<1> HIDE DEF tx
<1>8. /\ Len(m) = Len(l) + 1 /\ Len(l) \in Nat /\ \A n \in 1..Len(l) : m[n] = l[n]
      /\ m # << >> /\ Last(m) = tx
  BY <1>5, <1>7, LedgerGrows DEF LedgerTyped
<1>9. Deliveries(l) \subseteq Deliveries(m)  BY <1>5, <1>7, DeliveriesGrow
<1> HIDE DEF m
<1>10. 1..Len(l) \subseteq 1..Len(m) /\ 0..Len(l) \subseteq 0..Len(m)  BY <1>8
<1>11. chain' = tx.after  BY <1>3, <1>8 DEF chain
<1>12. event_log' = event_log /\ live_orders' = live_orders /\ trades' = trades
       /\ markets' = markets /\ indexer_cursor' = indexer_cursor
  BY DEF db
<1>13. ChainSound'  BY <1>3, <1>5, <1>11 DEF ChainSound
<1>14. OrdersSound'  BY <1>3, <1>6, <1>11, <1>12 DEF OrdersSound, L
<1>15. LogSound'  BY <1>3, <1>4, <1>10, <1>12 DEF LogSound, L
<1>16. TradesSound'
  <2>1. ASSUME NEW row \in DOMAIN trades PROVE TradeFits(row, m, L) /\ trades[row] = 1
    <3>1. TradeFits(row, l, L) /\ trades[row] = 1  BY DEF IndexInv, TradesSound, l
    <3>2. row.signature \in 1..Len(m) /\ m[row.signature] = l[row.signature]
      BY <1>8, <1>10, <3>1 DEF TradeFits
    <3> QED  BY <3>1, <3>2 DEF TradeFits
  <2> QED  BY <1>3, <1>12, <2>1 DEF TradesSound, L
<1>17. WorkSound'
  <2>1. ASSUME NEW p \in Processes PROVE WorkFits(work[p], m)
    <3>1. WorkFits(work[p], l)  BY DEF IndexInv, WorkSound, l
    <3>2. work[p].todo \in Seq(Deliveries(m))  BY <1>9, <3>1, SeqMonotonic DEF WorkFits
    <3> QED  BY <3>1, <3>2 DEF WorkFits
  <2> QED  BY <1>3, <2>1 DEF WorkSound
<1>18. TablesSound'
  BY <1>3, <1>10, <1>12 DEF IndexInv, TablesSound, l
<1>19. MainSound'
  <2>1. main.fetch \in Seq(1..Len(l))  BY DEF IndexInv, MainSound, l
  <2>2. main.fetch \in Seq(1..Len(m))  BY <1>10, <2>1, SeqMonotonic
  <2> QED  BY <1>3, <1>10, <2>2 DEF IndexInv, MainSound, l
<1> QED  BY <1>13, <1>14, <1>15, <1>16, <1>17, <1>18, <1>19

LEMMA TakesFits ==
  ASSUME IndexInv, NEW p \in Processes, NEW todo \in Seq(Deliveries(ledger)),
         work' = [work EXCEPT ![p].todo = todo], ledger' = ledger
  PROVE  WorkSound'
<1>0. WorkTyped /\ WorkSound  BY DEF IndexInv, CursorInv
<1> DEFINE w == [work[p] EXCEPT !.todo = todo]
<1>1. /\ w.todo = todo /\ w.step = work[p].step
      /\ w.removed = work[p].removed /\ w.added = work[p].added
  BY <1>0 DEF WorkTyped
<1>2. work' = [work EXCEPT ![p] = w]  OBVIOUS
<1> HIDE DEF w
<1>3. WorkFits(w, ledger)  BY <1>0, <1>1 DEF WorkSound, WorkFits
<1> QED  BY <1>0, <1>2, <1>3, OneFits

LEMMA OldestFirstTyped ==
  ASSUME ChainSound, NEW until \in 0..Len(ledger)
  PROVE  OldestFirst(until) \in Seq(1..Len(ledger))
<1> DEFINE N == Len(ledger)
           k == N - until
<1>1. N \in Nat  BY DEF ChainSound, LedgerSound, LedgerTyped
<1>2. until \in Nat /\ until <= N  BY <1>1
<1>3. OldestFirst(until) = [i \in 1..k |-> until + i]  BY DEF OldestFirst
<1> HIDE DEF N
<1>4. k \in Nat /\ \A i \in 1..k : until + i \in 1..N  BY <1>1, <1>2
<1> HIDE DEF k
<1>5. [i \in 1..k |-> until + i] \in Seq(1..N)  BY <1>4
<1> QED  BY <1>3, <1>5 DEF N

LEMMA MainKeeps ==
  ASSUME IndexInv, MainStep
  PROVE  WorkSound' /\ MainSound'
<1>0. ChainSound /\ MainSound /\ WorkSound /\ TablesSound  BY DEF IndexInv
<1>1. ledger' = ledger  BY DEF MainStep
<1>2. Main \in Processes  BY DEF Processes
<1>3. ASSUME work' = work PROVE WorkSound'
  BY <1>0, <1>1, <1>3 DEF WorkSound
<1>4. ASSUME NEW n \in 1..Len(ledger), ledger[n].ok, Takes(n) PROVE WorkSound'
  <2>1. Logs(n) \in Seq(Deliveries(ledger))  BY <1>0, <1>4, LogsDelivered
  <2> QED  BY <1>1, <1>2, <1>4, <2>1, TakesFits DEF Takes
<1>5. ASSUME NEW step \in MainSteps, main' = [main EXCEPT !.step = step] PROVE MainSound'
  BY <1>0, <1>1, <1>5 DEF MainSound
<1>6. ASSUME main' = AfterBackfill PROVE MainSound'
  <2>1. /\ "pending" \in MainSteps /\ "connect" \in MainSteps  BY DEF MainSteps
  <2>2. main' = [main EXCEPT !.step = "pending"] \/ main' = [main EXCEPT !.step = "connect"]
    BY <1>6 DEF AfterBackfill
  <2> QED  BY <1>5, <2>1, <2>2
<1>7. CASE ReadCursor
  <2>1. ASSUME main' = [main EXCEPT !.step = "list", !.until = indexer_cursor]
        PROVE  MainSound'
    BY <1>0, <1>1, <2>1 DEF MainSound, TablesSound, MainSteps
  <2> QED  BY <1>3, <1>6, <1>7, <2>1 DEF ReadCursor
<1>8. CASE ListSignatures
  <2>1. ASSUME main' = [main EXCEPT !.step = "fetch", !.fetch = OldestFirst(main.until),
                                    !.tip = Len(ledger)]
        PROVE  MainSound'
    <3>1. OldestFirst(main.until) \in Seq(1..Len(ledger))
      BY <1>0, OldestFirstTyped DEF MainSound
    <3> QED  BY <1>0, <1>1, <2>1, <3>1 DEF MainSound, MainSteps
  <2> QED  BY <1>3, <1>6, <1>8, <2>1 DEF ListSignatures
<1>9. CASE FetchTransaction
  <2>1. main.fetch # << >> /\ main.fetch \in Seq(1..Len(ledger))
    BY <1>0, <1>9 DEF FetchTransaction, MainSound
  <2>2. Head(main.fetch) \in 1..Len(ledger) /\ Tail(main.fetch) \in Seq(1..Len(ledger))
    BY <2>1, HeadTailProperties
  <2>3. main' = [main EXCEPT !.fetch = Tail(main.fetch)]  BY <1>9 DEF FetchTransaction
  <2>4. MainSound'  BY <1>0, <1>1, <2>2, <2>3 DEF MainSound
  <2>5. WorkSound'  BY <1>3, <1>4, <1>9, <2>2 DEF FetchTransaction
  <2> QED  BY <2>4, <2>5
<1>10. CASE EndBackfill
  BY <1>3, <1>6, <1>10 DEF EndBackfill
<1>11. CASE Subscribe
  BY <1>0, <1>1, <1>3, <1>11 DEF Subscribe, MainSound, MainSteps
<1>12. CASE Receive
  <2>1. DOMAIN ledger = 1..Len(ledger)
    BY <1>0, LenProperties DEF ChainSound, LedgerSound, LedgerTyped
  <2>2. PICK n \in DOMAIN ledger :
          IF Seen(n) \/ ~ledger[n].ok
          THEN main' = [main EXCEPT !.at = Max({@, n + 1})] /\ UNCHANGED work
          ELSE /\ main' = [main EXCEPT !.at = Max({@, n + 1}), !.seen_signatures = @ \cup {n}]
               /\ Takes(n)
    BY <1>12 DEF Receive
  <2>3. MainSound'
    <3>1. /\ DOMAIN main' = DOMAIN main /\ main'.step = main.step /\ main'.until = main.until
          /\ main'.fetch = main.fetch
      BY <1>0, <2>2 DEF MainSound
    <3> QED  BY <1>0, <1>1, <3>1 DEF MainSound
  <2>4. WorkSound'  BY <1>3, <1>4, <2>1, <2>2
  <2> QED  BY <2>3, <2>4
<1>13. CASE Disconnect
  BY <1>0, <1>1, <1>3, <1>13 DEF Disconnect, MainSound, MainSteps
<1> QED  BY <1>7, <1>8, <1>9, <1>10, <1>11, <1>12, <1>13 DEF MainStep

LEMMA PostKeeps ==
  ASSUME IndexInv, NEW t \in Tasks, WebhookPost(t)
  PROVE  WorkSound' /\ TablesSound'
<1>0. ChainSound /\ WorkSound /\ TablesSound  BY DEF IndexInv
<1>1. PICK batch \in SUBSET DOMAIN ledger :
        /\ posted' = posted \cup batch
        /\ work' = [work EXCEPT ![t].todo = BatchLogs(batch)]
  BY DEF WebhookPost
<1>2. ledger' = ledger /\ book' = book /\ markets' = markets /\ indexer_cursor' = indexer_cursor
  BY DEF WebhookPost, db
<1>3. DOMAIN ledger = 1..Len(ledger)
  BY <1>0, LenProperties DEF ChainSound, LedgerSound, LedgerTyped
<1>4. BatchLogs(batch) \in Seq(Deliveries(ledger))  BY <1>0, BatchDelivered
<1>5. t \in Processes  BY DEF Processes
<1>6. WorkSound'  BY <1>1, <1>2, <1>4, <1>5, TakesFits
<1>7. TablesSound'  BY <1>0, <1>1, <1>2, <1>3 DEF TablesSound
<1> QED  BY <1>6, <1>7

LEMMA CrashKeeps ==
  ASSUME IndexInv, Crash
  PROVE  WorkSound' /\ MainSound'
<1>0. ChainSound  BY DEF IndexInv
<1>1. Len(ledger) \in Nat /\ ledger' = ledger
  BY <1>0 DEF Crash, ChainSound, LedgerSound, LedgerTyped
<1>2. << >> \in Seq(Deliveries(ledger)) /\ << >> \in Seq(1..Len(ledger))  BY EmptySeq
<1>3. WorkSound'
  BY <1>1, <1>2 DEF Crash, WorkSound, WorkFits, Idle, Steps
<1>4. MainSound'
  BY <1>1, <1>2 DEF Crash, MainSound, Boot, MainSteps
<1> QED  BY <1>3, <1>4

LEMMA StepKeepsIndex == IndexInv /\ [Next]_vars => IndexInv'
<1> SUFFICES ASSUME IndexInv, [Next]_vars PROVE IndexInv'
  OBVIOUS
<1>1. CursorInv'  BY StepKeepsCursor DEF IndexInv
<1>2. ASSUME ledger' = ledger, UNCHANGED db
      PROVE  ChainSound' /\ OrdersSound' /\ LogSound' /\ TradesSound'
  BY <1>2, NothingStored DEF db
<1>3. CASE NewTransaction
  BY <1>1, <1>3, TransactKeeps DEF NewTransaction, IndexInv
<1>4. CASE MainStep
  <2>1. TablesSound'  BY <1>4 DEF MainStep, IndexInv, TablesSound, db
  <2> QED  BY <1>1, <1>2, <1>4, <2>1, MainKeeps DEF MainStep, IndexInv
<1>5. ASSUME NEW p \in Processes, HandleEvent(p) PROVE IndexInv'
  <2>1. MainSound'  BY <1>5 DEF HandleEvent, IndexInv, MainSound
  <2> QED  BY <1>1, <1>5, <2>1, HandleEventKeeps DEF IndexInv
<1>6. ASSUME NEW t \in Tasks, WebhookPost(t) PROVE IndexInv'
  <2>1. MainSound'  BY <1>6 DEF WebhookPost, IndexInv, MainSound
  <2> QED  BY <1>1, <1>2, <1>6, <2>1, PostKeeps DEF WebhookPost, IndexInv
<1>7. CASE Crash
  <2>1. TablesSound'  BY <1>7 DEF Crash, IndexInv, TablesSound, db
  <2> QED  BY <1>1, <1>2, <1>7, <2>1, CrashKeeps DEF Crash, IndexInv
<1>8. CASE UNCHANGED vars
  <2>1. WorkSound' /\ TablesSound' /\ MainSound'
    BY <1>8 DEF vars, db, IndexInv, WorkSound, TablesSound, MainSound
  <2> QED  BY <1>1, <1>2, <1>8, <2>1 DEF vars, IndexInv
<1> QED  BY <1>3, <1>4, <1>5, <1>6, <1>7, <1>8 DEF Next

LEMMA InitIndex == Init => IndexInv
<1> SUFFICES ASSUME Init PROVE IndexInv
  OBVIOUS
<1>1. CursorInv
  BY DEF Init, CursorInv, CursorStored, WorkTyped, WorkLogged, Idle
<1>2. ledger = << >> /\ chain = NewChain  BY DEF Init, ChainInit, chain
<1>3. LedgerTyped(ledger) /\ Len(ledger) = 0
  <2>1. \E S : ledger \in Seq(S)  BY <1>2, EmptySeq
  <2>2. Len(ledger) = 0  BY <1>2
  <2> QED  BY <2>1, <2>2 DEF LedgerTyped
<1>4. ChainTyped(NewChain)
  <2>1. ASSUME NEW m \in Markets PROVE OrdersOf(NewChain, m) = Numbers(m, 0)
    BY DEF OrdersOf, Numbers, NewChain
  <2> QED  BY <2>1 DEF ChainTyped, NewChain
<1>5. ASSUME NEW key \in Keys PROVE Spent(NewChain, key) = Due(ledger, {}, key)
  <2>1. Spent(NewChain, key) = 0  BY DEF Spent, NewChain
  <2>2. 1..Len(ledger) = {}  BY <1>3
  <2>3. Due(ledger, {}, key) = 0  BY <2>2, SumOfNone DEF Due
  <2> QED  BY <2>1, <2>3
<1>6. ChainSound
  BY <1>2, <1>3, <1>4, <1>5, ChainAssumption DEF ChainSound, LedgerSound
<1>7. OrdersSound /\ LogSound /\ TradesSound
  BY DEF Init, OrdersSound, RowsCover, LogSound, TradesSound, EmptyTable, EmptyBag, SetToBag
<1>8. << >> \in Seq(Deliveries(ledger)) /\ << >> \in Seq(1..Len(ledger))  BY EmptySeq
<1>9. WorkSound
  <2>1. WorkFits(Idle, ledger)  BY <1>8 DEF WorkFits, Idle, Steps
  <2> QED  BY <2>1 DEF Init, WorkSound
<1>10. 0 \in 0..Len(ledger)  BY <1>3
<1>11. TablesSound  BY <1>10 DEF Init, TablesSound
<1>12. MainSound  BY <1>8, <1>10 DEF Init, MainSound, Boot, MainSteps
<1> QED  BY <1>1, <1>6, <1>7, <1>9, <1>11, <1>12 DEF IndexInv

THEOREM IndexInvariant == Spec => []IndexInv
BY InitIndex, StepKeepsIndex, PTL DEF Spec

-----------------------------------------------------------------------------
(* What it says of the tables *)

\* No fill is taken off a row twice: a row has at least what its order has left
\* on chain, over every crash, redelivery and interleaving of the sources.
THEOREM NeverOverfilledCorrect == Spec => []NeverOverfilled
<1>1. IndexInv => NeverOverfilled  BY RowIs DEF NeverOverfilled
<1> QED  BY <1>1, IndexInvariant, PTL

\* trades has no unique key, and its transaction has made every fill it holds.
THEOREM TradesHappenedCorrect == Spec => []TradesHappened
<1>1. ASSUME IndexInv PROVE TradesHappened
  <2>1. ASSUME NEW row \in DOMAIN trades
        PROVE  /\ Committed(row.signature)
               /\ trades[row] <= Cardinality({i \in DOMAIN ledger[row.signature].events :
                                    LET e == ledger[row.signature].events[i]
                                    IN /\ e.kind = "OrderMatched"
                                       /\ <<e.market_id, e.order_id>> = row.key
                                       /\ e.quantity = row.quantity})
    <3> DEFINE n == row.signature
               s == ledger[n].events
               Fills == {i \in DOMAIN s : /\ s[i].kind = "OrderMatched"
                                          /\ <<s[i].market_id, s[i].order_id>> = row.key
                                          /\ s[i].quantity = row.quantity}
    <3>1. TradeFits(row, ledger, DOMAIN event_log) /\ trades[row] = 1
      BY <1>1 DEF IndexInv, TradesSound
    <3>2. LedgerTyped(ledger) /\ DOMAIN ledger = 1..Len(ledger)
      BY <1>1, LenProperties DEF IndexInv, ChainSound, LedgerSound, LedgerTyped
    <3>3. n \in 1..Len(ledger) /\ ledger[n].ok  BY <3>1 DEF TradeFits
    <3>4. s \in Seq(EventType)  BY <3>2, <3>3 DEF LedgerTyped, TxTyped
    <3>5. Len(s) \in Nat /\ DOMAIN s = 1..Len(s)  BY <3>4, LenProperties
    <3>6. \E i \in DOMAIN s : i \in Fills  BY <3>1, <3>5 DEF TradeFits, OrderKey
    <3>7. IsFiniteSet(1..Len(s)) /\ Fills \subseteq 1..Len(s)  BY <3>5, FS_Interval
    <3> HIDE DEF Fills
    <3>8. IsFiniteSet(Fills)  BY <3>7, FS_Subset
    <3>9. Cardinality(Fills) \in Nat /\ Cardinality(Fills) # 0
      BY <3>6, <3>8, FS_CardinalityType, FS_EmptySet
    <3>10. trades[row] <= Cardinality(Fills)  BY <3>1, <3>9
    <3>11. Committed(n)  BY <3>2, <3>3 DEF Committed
    <3> QED  BY <3>10, <3>11 DEF Fills
  <2> QED  BY <2>1 DEF TradesHappened
<1> QED  BY <1>1, IndexInvariant, PTL

\* The types of the tables, of main and of the work, an order's quantity among
\* them: no diff ever carries a negative one.
THEOREM IndexerTypeCorrect == Spec => []TypeOK
<1>1. ASSUME IndexInv PROVE TypeOK
  <2>1. Len(ledger) \in Nat /\ Len(ledger) <= TxBound /\ TxBound \in Nat
    BY <1>1, ChainAssumption DEF IndexInv, ChainSound, LedgerSound, LedgerTyped
  <2>2. 1..Len(ledger) \subseteq Signatures /\ 0..Len(ledger) \subseteq Signatures \cup {0}
    BY <2>1 DEF Signatures
  <2>3. \A key \in DOMAIN live_orders : key \in Keys /\ live_orders[key] \in Orders
    BY <1>1, RowIs
  <2>4. \A row \in DOMAIN trades : row \in TradeRows
    BY <1>1 DEF IndexInv, TradesSound, TradeFits
  <2>5. \A key \in DOMAIN event_log : key[2] \in Signatures
    BY <1>1, <2>2 DEF IndexInv, LogSound
  <2>6. \A p \in Processes : /\ work[p].step \in Steps
                           /\ work[p].removed \subseteq Keys
                           /\ work[p].added \subseteq Entries
    BY <1>1 DEF IndexInv, WorkSound, WorkFits
  <2>7. /\ \A m \in DOMAIN markets : m \in Markets /\ markets[m] \in MarketRows
        /\ indexer_cursor \in Signatures \cup {0}
        /\ posted \subseteq Signatures
        /\ book \subseteq Entries
    BY <1>1, <2>2 DEF IndexInv, TablesSound
  <2>8. main.step \in MainSteps  BY <1>1 DEF IndexInv, MainSound
  <2> QED  BY <2>3, <2>4, <2>5, <2>6, <2>7, <2>8 DEF TypeOK, TradeRows, Steps, MainSteps
<1> QED  BY <1>1, IndexInvariant, PTL

-----------------------------------------------------------------------------
(* The cursor of a single source *)

Todo == work[Main].todo

\* What main has in hand is of one transaction, at or after the cursor, and
\* what it takes next comes no earlier.
ForwardInv ==
  /\ \A i \in 1..Len(Todo) :
       Todo[i].signature = Signature(Main) /\ Todo[i].signature >= indexer_cursor
  /\ main.step \in {"boot", "list", "connect"} => MainIdle
  /\ main.step = "list" => main.until >= indexer_cursor
  /\ main.step = "fetch" =>
       \A i \in 1..Len(main.fetch) :
         /\ main.fetch[i] >= indexer_cursor
         /\ MainIdle \/ main.fetch[i] >= Signature(Main)
         /\ \A j \in 1..Len(main.fetch) : i <= j => main.fetch[i] <= main.fetch[j]
  /\ main.step = "listen" =>
       /\ main.at \in Nat
       /\ main.at > indexer_cursor
       /\ MainIdle \/ main.at > Signature(Main)

LEMMA HandleMoves ==
  ASSUME WorkTyped, HandleEvent(Main)
  PROVE  /\ Todo # << >> /\ main' = main
         /\ Todo' = Todo \/ Todo' = Tail(Todo)
         /\ indexer_cursor' = indexer_cursor \/ indexer_cursor' = Signature(Main)
<1>0. Main \in Processes  BY DEF Processes
<1>1. main' = main  BY DEF HandleEvent
<1>2. ASSUME NEW step, Goto(Main, step) PROVE Todo' = Todo
  BY <1>0, <1>2 DEF Goto, WorkTyped, Todo
<1>3. ASSUME NEW step, NEW removed, NEW added, Diff(Main, step, removed, added)
      PROVE  Todo' = Todo
  BY <1>0, <1>3 DEF Diff, WorkTyped, Todo
<1>4. ASSUME Finish(Main) PROVE Todo' = Tail(Todo)
  BY <1>0, <1>4 DEF Finish, WorkTyped, Todo, Idle
<1>5. ASSUME NEW key, NEW step, ReadBack(Main, key, step) PROVE Todo' = Todo
  <2>1. Goto(Main, step) \/ \E removed, added : Diff(Main, step, removed, added)
    BY <1>5 DEF ReadBack
  <2> QED  BY <1>2, <1>3, <2>1
<1>6. CASE Store(Main) /\ indexer_cursor' = indexer_cursor
  <2>1. Todo # << >>
    BY <1>6 DEF Store, StoreMarketInitialized, StoreWinningSideSet, StoreMarketClosed,
       StoreMetadataUpdated, StoreOrderPlaced, StoreOrderMatched, StoreOrderCancelled,
       StoreLogged, Stores, Handles, Todo
  <2>2. \/ Finish(Main)
        \/ \E step : Goto(Main, step)
        \/ \E removed, added : Diff(Main, "publish", removed, added)
    BY <1>6 DEF Store, StoreMarketInitialized, StoreWinningSideSet, StoreMarketClosed,
       StoreMetadataUpdated, UpdateMarket, StoreOrderPlaced, StoreOrderMatched,
       StoreOrderCancelled, StoreLogged, Skip
  <2> QED  BY <1>1, <1>2, <1>3, <1>4, <1>6, <2>1, <2>2
<1>7. CASE (ReadMaker(Main) \/ ReadTaker(Main)) /\ indexer_cursor' = indexer_cursor
  BY <1>1, <1>5, <1>7 DEF ReadMaker, ReadTaker, Handles, Todo
<1>8. CASE PublishDiff(Main) /\ indexer_cursor' = indexer_cursor
  BY <1>1, <1>2, <1>8 DEF PublishDiff, Handles, Todo
<1>9. CASE UpdateCursor(Main)
  BY <1>1, <1>4, <1>9 DEF UpdateCursor, Handles, Todo
<1>10. CASE RedisUnavailable(Main)
  BY <1>1, <1>4, <1>10 DEF RedisUnavailable, Handles, Todo, db
<1>11. CASE DatabaseFails(Main)
  <2>1. Finish(Main) \/ \E step : Goto(Main, step)  BY <1>11 DEF DatabaseFails
  <2> QED  BY <1>1, <1>2, <1>4, <1>11, <2>1 DEF DatabaseFails, Handles, Todo, db
<1> QED  BY <1>6, <1>7, <1>8, <1>9, <1>10, <1>11 DEF HandleEvent

LEMMA TodoTyped ==
  ASSUME IndexInv
  PROVE  /\ Todo \in Seq(Deliveries(ledger)) /\ Len(Todo) \in Nat
         /\ \A i \in 1..Len(Todo) : Todo[i].signature \in 1..Len(ledger)
         /\ Len(ledger) \in Nat /\ indexer_cursor \in 0..Len(ledger)
<1>1. Main \in Processes  BY DEF Processes
<1>2. Todo \in Seq(Deliveries(ledger))  BY <1>1 DEF IndexInv, WorkSound, WorkFits, Todo
<1>3. Len(Todo) \in Nat /\ \A i \in 1..Len(Todo) : Todo[i] \in Deliveries(ledger)
  BY <1>2, ElementOfSeq
<1>4. Len(ledger) \in Nat /\ indexer_cursor \in 0..Len(ledger)
  BY DEF IndexInv, TablesSound, ChainSound, LedgerSound, LedgerTyped
<1> QED  BY <1>2, <1>3, <1>4 DEF Deliveries

\* The event in hand is stored, published, given up or marked as the last.
LEMMA HandleForward ==
  ASSUME IndexInv, ForwardInv, HandleEvent(Main)
  PROVE  ForwardInv' /\ indexer_cursor' >= indexer_cursor
<1> DEFINE s == Signature(Main)
           c == indexer_cursor
           t == Todo
           N == Len(ledger)
<1>1. /\ t # << >> /\ main' = main
      /\ Todo' = t \/ Todo' = Tail(t)
      /\ indexer_cursor' = c \/ indexer_cursor' = s
  BY HandleMoves DEF IndexInv, CursorInv
<1>2. /\ t \in Seq(Deliveries(ledger)) /\ Len(t) \in Nat /\ N \in Nat /\ c \in 0..N
      /\ \A i \in 1..Len(t) : t[i].signature \in 1..N
      /\ \A i \in 1..Len(t) : t[i].signature = s /\ t[i].signature >= c
  BY TodoTyped DEF ForwardInv
<1>3. Len(t) # 0  BY <1>1, <1>2, EmptySeq
<1>4. s = t[1].signature  BY <1>2, <1>3
<1>5. s \in 1..N /\ s >= c  BY <1>2, <1>3, <1>4
<1>6. /\ ~MainIdle
      /\ main.step \notin {"boot", "list", "connect"}
      /\ main.step = "fetch" =>
           \A i \in 1..Len(main.fetch) :
             /\ main.fetch[i] >= c
             /\ main.fetch[i] >= s
             /\ \A j \in 1..Len(main.fetch) : i <= j => main.fetch[i] <= main.fetch[j]
      /\ main.step = "listen" => main.at \in Nat /\ main.at > c /\ main.at > s
  BY <1>1 DEF ForwardInv, MainIdle, Todo
<1>7. indexer_cursor' \in 0..N /\ indexer_cursor' >= c /\ s >= indexer_cursor'
  BY <1>1, <1>2, <1>5
<1>8. /\ \A i \in 1..Len(Todo') : Todo'[i].signature = s
      /\ Todo' # << >> => Signature(Main)' = s
  <2>1. CASE Todo' = t
    <3>1. Signature(Main)' = s  BY <2>1 DEF Signature, Todo
    <3> QED  BY <1>2, <2>1, <3>1
  <2>2. CASE Todo' = Tail(t)
    <3>1. /\ Tail(t) \in Seq(Deliveries(ledger)) /\ Len(Tail(t)) = Len(t) - 1
          /\ \A i \in 1..Len(Tail(t)) : Tail(t)[i] = t[i + 1]
      BY <1>1, <1>2, HeadTailProperties
    <3>2. \A i \in 1..Len(Tail(t)) : i + 1 \in 1..Len(t)  BY <1>2, <3>1
    <3>3. \A i \in 1..Len(Tail(t)) : Tail(t)[i].signature = s
      <4> HIDE DEF t, s
      <4> QED  BY <1>2, <3>1, <3>2
    <3>4. ASSUME Todo' # << >> PROVE Signature(Main)' = s
      <4> DEFINE r == Tail(t)
      <4>1. Len(r) \in Nat \ {0}  BY <2>2, <3>1, <3>4, EmptySeq
      <4>2. Head(r) = r[1] /\ 1 \in 1..Len(r)
        <5> HIDE DEF r
        <5> QED  BY <4>1
      <4>3. Signature(Main)' = Head(Todo').signature  BY DEF Signature, Todo
      <4> QED  BY <2>2, <3>3, <4>2, <4>3
    <3> QED  BY <2>2, <3>3, <3>4
  <2> QED  BY <1>1, <2>1, <2>2
<1>9. MainIdle' \/ Signature(Main)' = s  BY <1>8 DEF MainIdle, Todo
<1>10. \A i \in 1..Len(Todo') :
         Todo'[i].signature = Signature(Main)' /\ Todo'[i].signature >= indexer_cursor'
  <2>1. ASSUME NEW i \in 1..Len(Todo') PROVE Todo' # << >>
    BY <2>1
  <2> QED  BY <1>7, <1>8, <2>1
<1>11. main.step = "fetch" =>
         \A i \in 1..Len(main.fetch) :
           /\ main.fetch[i] >= indexer_cursor'
           /\ MainIdle' \/ main.fetch[i] >= Signature(Main)'
           /\ \A j \in 1..Len(main.fetch) : i <= j => main.fetch[i] <= main.fetch[j]
  <2>1. ASSUME main.step = "fetch", NEW i \in 1..Len(main.fetch)
        PROVE  main.fetch[i] >= indexer_cursor'
    BY <1>1, <1>6, <2>1
  <2> HIDE DEF s
  <2> QED  BY <1>6, <1>9, <2>1
<1>12. main.step = "listen" =>
         /\ main.at \in Nat
         /\ main.at > indexer_cursor'
         /\ MainIdle' \/ main.at > Signature(Main)'
  <2> HIDE DEF s
  <2> QED  BY <1>1, <1>6, <1>9
<1> QED  BY <1>1, <1>6, <1>7, <1>10, <1>11, <1>12 DEF ForwardInv

LEMMA MaxOfTwo ==
  ASSUME NEW a \in Nat, NEW b \in Nat
  PROVE  Max({a, b}) \in Nat /\ Max({a, b}) >= a /\ Max({a, b}) >= b
<1>1. \E x \in {a, b} : \A y \in {a, b} : x >= y
  <2>1. CASE a >= b  BY <2>1
  <2>2. CASE b >= a  BY <2>2
  <2> QED  BY <2>1, <2>2
<1> QED  BY <1>1 DEF Max

\* main takes a transaction in hand.
LEMMA TakesForward ==
  ASSUME IndexInv, NEW n \in 1..Len(ledger), Takes(n)
  PROVE  /\ \A i \in 1..Len(Todo') : Todo'[i].signature = n
         /\ MainIdle' \/ Signature(Main)' = n
<1>1. Main \in Processes /\ Todo' = Logs(n)
  BY DEF Processes, Takes, IndexInv, CursorInv, WorkTyped, Todo
<1> DEFINE e == ledger[n].events
           k == Len(e)
<1>2. e \in Seq(EventType)
  BY DEF IndexInv, ChainSound, LedgerSound, LedgerTyped, TxTyped
<1>3. k \in Nat  BY <1>2, LenProperties
<1>4. Todo' = [i \in 1..k |-> [signature |-> n, event |-> e[i]]]  BY <1>1 DEF Logs
<1> HIDE DEF e, k
<1>5. Len(Todo') = k  BY <1>3, <1>4
<1>6. \A i \in 1..k : Todo'[i].signature = n  BY <1>4
<1>7. CASE k = 0
  <2>1. Todo' = << >>  BY <1>4, <1>7
  <2> QED  BY <1>5, <1>6, <2>1 DEF MainIdle, Todo
<1>8. CASE k # 0
  <2>1. 1 \in 1..k /\ Head(Todo') = Todo'[1]  BY <1>3, <1>4, <1>8
  <2>2. Signature(Main)' = Head(Todo').signature  BY DEF Signature, Todo
  <2> QED  BY <1>5, <1>6, <2>1, <2>2
<1> QED  BY <1>7, <1>8

\* No step of main but its handling of events moves the cursor.
LEMMA MainForward ==
  ASSUME IndexInv, ForwardInv, MainStep
  PROVE  ForwardInv'
<1> DEFINE N == Len(ledger)
           c == indexer_cursor
<1>1. /\ N \in Nat /\ c \in 0..N /\ Len(Todo) \in Nat /\ Todo \in Seq(Deliveries(ledger))
      /\ \A i \in 1..Len(Todo) : Todo[i].signature \in 1..N
  BY TodoTyped
<1>2. indexer_cursor' = c /\ ledger' = ledger  BY DEF MainStep, db
<1>3. /\ DOMAIN main = {"step", "until", "tip", "fetch", "at", "seen_signatures"}
      /\ main.until \in 0..N /\ main.fetch \in Seq(1..N)
  BY DEF IndexInv, MainSound
<1>4. MainIdle => Len(Todo) = 0  BY DEF MainIdle, Todo
<1>5. /\ \A i \in 1..Len(Todo) :
           Todo[i].signature = Signature(Main) /\ Todo[i].signature >= c
      /\ main.step \in {"boot", "list", "connect"} => MainIdle
      /\ main.step = "list" => main.until >= c
      /\ main.step = "fetch" =>
           \A i \in 1..Len(main.fetch) :
             /\ main.fetch[i] >= c
             /\ MainIdle \/ main.fetch[i] >= Signature(Main)
             /\ \A j \in 1..Len(main.fetch) : i <= j => main.fetch[i] <= main.fetch[j]
      /\ main.step = "listen" =>
           /\ main.at \in Nat
           /\ main.at > c
           /\ MainIdle \/ main.at > Signature(Main)
  BY DEF ForwardInv
\* From an idle main that keeps idle.
<1>6. ASSUME work' = work
      PROVE  Todo' = Todo /\ MainIdle' = MainIdle /\ Signature(Main)' = Signature(Main)
  BY <1>6 DEF Todo, MainIdle, Signature
<1>7. ASSUME work' = work, MainIdle, main'.step \in {"pending", "connect"}
      PROVE  ForwardInv'
  BY <1>2, <1>4, <1>6, <1>7 DEF ForwardInv
<1>8. ASSUME work' = work, MainIdle, main' = AfterBackfill PROVE ForwardInv'
  BY <1>3, <1>7, <1>8 DEF AfterBackfill
<1>9. CASE ReadCursor
  <2>1. MainIdle /\ work' = work  BY <1>5, <1>9 DEF ReadCursor
  <2>2. ASSUME main' = [main EXCEPT !.step = "list", !.until = c] PROVE ForwardInv'
    <3>1. main'.step = "list" /\ main'.until = c  BY <1>3, <2>2
    <3>2. c >= c  BY <1>1
    <3> QED  BY <1>2, <1>4, <1>6, <2>1, <3>1, <3>2 DEF ForwardInv
  <2> QED  BY <1>8, <1>9, <2>1, <2>2 DEF ReadCursor
<1>10. CASE ListSignatures
  <2>1. MainIdle /\ work' = work /\ main.until >= c  BY <1>5, <1>10 DEF ListSignatures
  <2>2. ASSUME main' = [main EXCEPT !.step = "fetch", !.fetch = OldestFirst(main.until),
                                    !.tip = Len(ledger)]
        PROVE  ForwardInv'
    <3> DEFINE u == main.until
               k == N - u
               f == OldestFirst(u)
    <3>1. main'.step = "fetch" /\ main'.fetch = f  BY <1>3, <2>2
    <3>2. f = [i \in 1..k |-> u + i]  BY DEF OldestFirst
    <3>3. u \in Nat /\ u <= N /\ c \in Nat /\ u >= c  BY <1>1, <1>3, <2>1
    <3> HIDE DEF u, f, c, N
    <3>4. k \in Nat  BY <1>1, <3>3
    <3>5. \A i \in 1..k : u + i >= c /\ \A j \in 1..k : i <= j => u + i <= u + j
      BY <3>3, <3>4
    <3> HIDE DEF k
    <3>6. Len(f) = k /\ \A i \in 1..k : f[i] = u + i  BY <3>2, <3>4
    <3> QED  BY <1>2, <1>4, <1>6, <2>1, <3>1, <3>5, <3>6 DEF ForwardInv
  <2> QED  BY <1>8, <1>10, <2>1, <2>2 DEF ListSignatures
<1>11. CASE FetchTransaction
  <2>1. MainIdle /\ main.step = "fetch" /\ main.fetch # << >>
    BY <1>11 DEF FetchTransaction
  <2> DEFINE f == main.fetch
             g == Tail(f)
             n == Head(f)
  <2>2. f \in Seq(1..N) /\ f # << >>  BY <1>3, <2>1
  <2>3. /\ n \in 1..N /\ g \in Seq(1..N) /\ Len(g) = Len(f) - 1 /\ Len(f) \in Nat
        /\ \A i \in 1..Len(g) : g[i] = f[i + 1]
    BY <2>2, HeadTailProperties, LenProperties
  <2>4. Len(f) # 0  BY <2>2, EmptySeq
  <2>5. main'.step = "fetch" /\ main'.fetch = g  BY <1>3, <1>11 DEF FetchTransaction
  <2>6. \A i \in 1..Len(f) : f[i] >= c /\ \A j \in 1..Len(f) : i <= j => f[i] <= f[j]
    BY <1>5, <2>1
  <2>7. n = f[1]  BY <2>2
  <2> HIDE DEF f, g, n
  <2>8. \A i \in 1..Len(g) : i + 1 \in 1..Len(f)  BY <2>3
  <2>9. 1 \in 1..Len(f)  BY <2>3, <2>4
  <2>10. n >= c  BY <2>6, <2>7, <2>9
  <2>11. ASSUME NEW i \in 1..Len(g)
         PROVE  /\ g[i] >= c /\ g[i] >= n
                /\ \A j \in 1..Len(g) : i <= j => g[i] <= g[j]
    <3>1. g[i] = f[i + 1] /\ i + 1 \in 1..Len(f) /\ 1 <= i + 1  BY <2>3, <2>8
    <3>2. g[i] \in 1..N  BY <2>3, ElementOfSeq
    <3>3. g[i] >= c  BY <2>6, <3>1
    <3>4. f[1] <= f[i + 1]  BY <2>6, <2>9, <3>1
    <3>5. g[i] >= n  BY <2>3, <2>7, <3>1, <3>2, <3>4
    <3>6. ASSUME NEW j \in 1..Len(g), i <= j PROVE g[i] <= g[j]
      <4>1. g[j] = f[j + 1] /\ j + 1 \in 1..Len(f) /\ i + 1 <= j + 1  BY <2>3, <2>8, <3>6
      <4> QED  BY <2>6, <3>1, <4>1
    <3> QED  BY <3>3, <3>5, <3>6
  <2>12. CASE Takes(n)
    <3>1. /\ \A i \in 1..Len(Todo') : Todo'[i].signature = n
          /\ MainIdle' \/ Signature(Main)' = n
      BY <2>3, <2>12, TakesForward
    <3>2. \A i \in 1..Len(Todo') :
            Todo'[i].signature = Signature(Main)' /\ Todo'[i].signature >= indexer_cursor'
      <4>1. ASSUME NEW i \in 1..Len(Todo') PROVE ~MainIdle'
        BY <4>1 DEF MainIdle, Todo
      <4> QED  BY <1>2, <2>10, <3>1, <4>1
    <3> QED  BY <1>2, <2>5, <2>11, <3>1, <3>2 DEF ForwardInv
  <2>13. CASE work' = work
    BY <1>2, <1>4, <1>6, <2>1, <2>5, <2>11, <2>13 DEF ForwardInv
  <2> QED  BY <1>11, <2>12, <2>13 DEF FetchTransaction, n, f
<1>12. CASE EndBackfill
  BY <1>8, <1>12 DEF EndBackfill
<1>13. CASE Subscribe
  <2>1. MainIdle /\ work' = work  BY <1>5, <1>13 DEF Subscribe
  <2>2. main'.step = "listen" /\ main'.at = N + 1  BY <1>3, <1>13 DEF Subscribe
  <2>3. N + 1 \in Nat /\ N + 1 > c  BY <1>1
  <2> QED  BY <1>2, <1>4, <1>6, <2>1, <2>2, <2>3 DEF ForwardInv
<1>14. CASE Receive
  <2>1. DOMAIN ledger = 1..N
    BY LenProperties DEF IndexInv, ChainSound, LedgerSound, LedgerTyped
  <2>2. MainIdle /\ main.step = "listen" /\ main.at \in Nat /\ main.at > c
    BY <1>5, <1>14 DEF Receive
  <2>3. PICK n \in DOMAIN ledger :
          /\ n = main.at \/ (n < main.at /\ n \in main.seen_signatures)
          /\ IF Seen(n) \/ ~ledger[n].ok
             THEN main' = [main EXCEPT !.at = Max({@, n + 1})] /\ UNCHANGED work
             ELSE /\ main' = [main EXCEPT !.at = Max({@, n + 1}), !.seen_signatures = @ \cup {n}]
                  /\ Takes(n)
    BY <1>14 DEF Receive
  <2>4. n \in 1..N /\ n \in Nat  BY <1>1, <2>1, <2>3
  <2> DEFINE a == Max({main.at, n + 1})
  <2>5. main'.step = "listen" /\ main'.at = a  BY <1>3, <2>2, <2>3
  <2>6. a \in Nat /\ a >= main.at /\ a >= n + 1  BY <2>2, <2>4, MaxOfTwo
  <2> HIDE DEF a
  <2>7. a \in Nat /\ a > c /\ a > n  BY <1>1, <2>2, <2>4, <2>6
  <2>8. CASE work' = work
    BY <1>2, <1>4, <1>6, <2>2, <2>5, <2>7, <2>8 DEF ForwardInv
  <2>9. CASE Takes(n) /\ ~Seen(n)
    <3>1. n >= c  BY <1>1, <2>2, <2>3, <2>9 DEF Seen
    <3>2. /\ \A i \in 1..Len(Todo') : Todo'[i].signature = n
          /\ MainIdle' \/ Signature(Main)' = n
      BY <2>4, <2>9, TakesForward
    <3>3. \A i \in 1..Len(Todo') :
            Todo'[i].signature = Signature(Main)' /\ Todo'[i].signature >= indexer_cursor'
      <4>1. ASSUME NEW i \in 1..Len(Todo') PROVE ~MainIdle'
        BY <4>1 DEF MainIdle, Todo
      <4> QED  BY <1>2, <3>1, <3>2, <4>1
    <3> QED  BY <1>2, <2>5, <2>7, <3>2, <3>3 DEF ForwardInv
  <2> QED  BY <2>3, <2>8, <2>9
<1>15. CASE Disconnect
  <2>1. MainIdle /\ work' = work /\ main'.step = "connect"
    BY <1>3, <1>15 DEF Disconnect
  <2> QED  BY <1>7, <2>1
<1> QED  BY <1>9, <1>10, <1>11, <1>12, <1>13, <1>14, <1>15 DEF MainStep

LEMMA StepForward ==
  ASSUME Tasks = {}
  PROVE  IndexInv /\ ForwardInv /\ [Next]_vars
           => ForwardInv' /\ indexer_cursor' >= indexer_cursor
<1> SUFFICES ASSUME IndexInv, ForwardInv, [Next]_vars
             PROVE  ForwardInv' /\ indexer_cursor' >= indexer_cursor
  OBVIOUS
<1>1. indexer_cursor \in Int  BY TodoTyped
<1>2. ASSUME indexer_cursor' = indexer_cursor, work' = work, main' = main PROVE ForwardInv'
  BY <1>2 DEF ForwardInv, Todo, MainIdle, Signature
<1>3. CASE NewTransaction \/ UNCHANGED vars
  BY <1>1, <1>2, <1>3 DEF NewTransaction, vars, db
<1>4. CASE MainStep
  BY <1>1, <1>4, MainForward DEF MainStep, db
<1>5. ASSUME NEW p \in Processes, HandleEvent(p)
      PROVE  ForwardInv' /\ indexer_cursor' >= indexer_cursor
  BY <1>5, HandleForward DEF Processes
<1>6. CASE Crash
  <2>1. Todo' = << >> /\ main'.step = "boot" /\ MainIdle' /\ indexer_cursor' = indexer_cursor
    BY <1>6 DEF Crash, Todo, MainIdle, Idle, Boot, Processes, db
  <2>2. Len(Todo') = 0  BY <2>1
  <2> QED  BY <1>1, <2>1, <2>2 DEF ForwardInv
<1> QED  BY <1>3, <1>4, <1>5, <1>6 DEF Next

\* As long as main is the only source the cursor never goes back, over every
\* crash, backfill, reconnect and failure of the database, of Redis or the RPC.
THEOREM CursorForward ==
  ASSUME Tasks = {}
  PROVE  Spec => CursorNeverGoesBack
<1>1. Init => ForwardInv
  <2> SUFFICES ASSUME Init PROVE ForwardInv
    OBVIOUS
  <2>1. Todo = << >> /\ main.step = "boot" /\ MainIdle
    BY DEF Init, Todo, MainIdle, Idle, Boot, Processes
  <2>2. Len(Todo) = 0  BY <2>1
  <2> QED  BY <2>1, <2>2 DEF ForwardInv
<1>2. IndexInv /\ ForwardInv /\ [Next]_vars =>
        ForwardInv' /\ [indexer_cursor' >= indexer_cursor]_vars
  BY StepForward
<1> QED  BY <1>1, <1>2, IndexInvariant, PTL DEF Spec, CursorNeverGoesBack

-----------------------------------------------------------------------------
(* The history of the accounts *)

\* What cannot happen after an order was placed: that its market is
\* initialised, and that it is placed again.
Excludes(e, f) ==
  /\ e.kind = "OrderPlaced"
  /\ \/ f.kind = "MarketInitialized" /\ f.market_id = e.market_id
     \/ f.kind = "OrderPlaced" /\ OrderKey(f) = OrderKey(e)

\* The accounts before a transaction.
Before(l, n) == IF n = 1 THEN NewChain ELSE l[n - 1].after
Linked(l, n) ==
  IF l[n].ok THEN \E st : Path(Before(l, n), l[n].events, l[n].after, st)
  ELSE l[n].after = Before(l, n)
HistorySound(l, c) ==
  /\ c = Before(l, Len(l) + 1)
  /\ \A n \in 1..Len(l) : Linked(l, n)
  /\ \A n \in 1..Len(l) : l[n].ok =>
       \A i \in 1..Len(l[n].events) :
         /\ l[n].events[i].kind = "OrderPlaced" => l[n].events[i].market_id \in DOMAIN c.markets
         /\ \A k \in n..Len(l) : l[k].ok =>
              \A j \in 1..Len(l[k].events) :
                n < k \/ i < j => ~Excludes(l[n].events[i], l[k].events[j])
HistoryInv == HistorySound(ledger, chain)

LEMMA PathExcludes ==
  ASSUME NEW c, NEW s \in Seq(EventType), NEW d, NEW st, Path(c, s, d, st)
  PROVE  /\ DOMAIN c.markets \subseteq DOMAIN d.markets
         /\ \A i \in 1..Len(s) :
              s[i].kind = "OrderPlaced" => s[i].market_id \in DOMAIN d.markets
         /\ \A i \in 1..Len(s) :
              /\ s[i].kind = "MarketInitialized" => s[i].market_id \notin DOMAIN c.markets
              /\ s[i].kind = "OrderPlaced" => OrderKey(s[i]) \notin DOMAIN c.orders
         /\ \A i, j \in 1..Len(s) : i < j => ~Excludes(s[i], s[j])
<1> DEFINE N == Len(s)
<1>1. N \in Nat  BY LenProperties
<1>2. /\ st[0] = c /\ st[N] = d
      /\ \A i \in 1..N : Tells(st[i - 1], s[i], st[i])
      /\ \A i, j \in 0..N : i <= j => /\ DOMAIN st[i].orders \subseteq DOMAIN st[j].orders
                                      /\ DOMAIN st[i].markets \subseteq DOMAIN st[j].markets
  BY DEF Path
<1>3. DOMAIN c.markets \subseteq DOMAIN d.markets
  <2>1. 0 \in 0..N /\ N \in 0..N /\ 0 <= N  BY <1>1
  <2> QED  BY <1>2, <2>1
<1>4. ASSUME NEW i \in 1..N
      PROVE  /\ i - 1 \in 0..N /\ i \in 0..N /\ 0 <= i - 1 /\ i - 1 <= N /\ 0 \in 0..N /\ N \in 0..N
             /\ Finds(st[i - 1], s[i])
             /\ DOMAIN st[i - 1].markets \subseteq DOMAIN d.markets
             /\ DOMAIN c.markets \subseteq DOMAIN st[i - 1].markets
             /\ DOMAIN c.orders \subseteq DOMAIN st[i - 1].orders
             /\ s[i].kind = "OrderPlaced" => OrderKey(s[i]) \in DOMAIN st[i].orders
  <2>1. i - 1 \in 0..N /\ i \in 0..N /\ 0 <= i - 1 /\ i - 1 <= N /\ 0 \in 0..N /\ N \in 0..N
    BY <1>1
  <2>2. Finds(st[i - 1], s[i]) /\ st[i].orders = OrdersWith(st[i - 1].orders, s[i])
    BY <1>2 DEF Tells
  <2>3. s[i].kind = "OrderPlaced" => OrderKey(s[i]) \in DOMAIN st[i].orders
    BY <2>2 DEF OrdersWith, With
  <2> HIDE DEF N
  <2>4. /\ DOMAIN st[i - 1].markets \subseteq DOMAIN st[N].markets
        /\ DOMAIN st[0].markets \subseteq DOMAIN st[i - 1].markets
        /\ DOMAIN st[0].orders \subseteq DOMAIN st[i - 1].orders
    BY <1>2, <2>1
  <2> QED  BY <1>2, <2>1, <2>2, <2>3, <2>4
<1>5. ASSUME NEW i \in 1..N, NEW j \in 1..N, i < j, Excludes(s[i], s[j])
      PROVE  FALSE
  <2>1. /\ s[i].kind = "OrderPlaced" /\ s[i].market_id \in DOMAIN st[i - 1].markets
        /\ OrderKey(s[i]) \in DOMAIN st[i].orders
    BY <1>4, <1>5 DEF Excludes, Finds
  <2>2. /\ i - 1 \in 0..N /\ i \in 0..N /\ j - 1 \in 0..N /\ i - 1 <= j - 1 /\ i <= j - 1
    BY <1>1, <1>5
  <2> HIDE DEF N
  <2>3. /\ DOMAIN st[i - 1].markets \subseteq DOMAIN st[j - 1].markets
        /\ DOMAIN st[i].orders \subseteq DOMAIN st[j - 1].orders
    BY <1>2, <2>2
  <2>4. Finds(st[j - 1], s[j])  BY <1>4
  <2> QED  BY <1>5, <2>1, <2>3, <2>4 DEF Finds, Excludes
<1> HIDE DEF N
<1>6. ASSUME NEW i \in 1..N
      PROVE  /\ s[i].kind = "OrderPlaced" => s[i].market_id \in DOMAIN d.markets
             /\ s[i].kind = "MarketInitialized" => s[i].market_id \notin DOMAIN c.markets
             /\ s[i].kind = "OrderPlaced" => OrderKey(s[i]) \notin DOMAIN c.orders
  BY <1>4 DEF Finds
<1> QED  BY <1>3, <1>5, <1>6 DEF N

LEMMA CommitHistory ==
  ASSUME NEW l, NEW c, LedgerSound(l, c), HistorySound(l, c), NEW t \in Transactions(c),
         NEW ok \in BOOLEAN, NEW tx,
         tx = [ok |-> ok, events |-> t.events, after |-> IF ok THEN t.after ELSE c]
  PROVE  HistorySound(Append(l, tx), tx.after)
<1>1. LedgerTyped(l) /\ ChainTyped(c)  BY DEF LedgerSound
<1>2. Reaches(c, t.events, t.after)  BY <1>1, TransactionReaches
<1>3. tx.ok = ok /\ tx.events = t.events /\ tx.after = IF ok THEN t.after ELSE c
  OBVIOUS
<1>4. TxTyped(tx)  BY <1>2, <1>3 DEF TxTyped, Reaches
<1> DEFINE m == Append(l, tx)
           N == Len(l) + 1
           s == t.events
<1>5. /\ LedgerTyped(m) /\ Len(m) = N /\ m[N] = tx /\ \A n \in 1..Len(l) : m[n] = l[n]
  BY <1>1, <1>4, LedgerGrows
<1>6. Len(l) \in Nat  BY <1>1 DEF LedgerTyped
<1>7. s \in Seq(EventType)  BY <1>2 DEF Reaches
<1>8. PICK st : Path(c, s, t.after, st)  BY <1>2 DEF Reaches
<1>9. /\ DOMAIN c.markets \subseteq DOMAIN t.after.markets
      /\ \A i \in 1..Len(s) :
           s[i].kind = "OrderPlaced" => s[i].market_id \in DOMAIN t.after.markets
      /\ \A i \in 1..Len(s) :
           /\ s[i].kind = "MarketInitialized" => s[i].market_id \notin DOMAIN c.markets
           /\ s[i].kind = "OrderPlaced" => OrderKey(s[i]) \notin DOMAIN c.orders
      /\ \A i, j \in 1..Len(s) : i < j => ~Excludes(s[i], s[j])
  <2> HIDE DEF s
  <2> QED  BY <1>7, <1>8, PathExcludes
<1> HIDE DEF m, s
<1>10. /\ c = Before(l, N)
       /\ \A n \in 1..Len(l) : Linked(l, n)
       /\ \A n \in 1..Len(l) : l[n].ok =>
            \A i \in 1..Len(l[n].events) :
              /\ l[n].events[i].kind = "OrderPlaced"
                   => l[n].events[i].market_id \in DOMAIN c.markets
              /\ \A k \in n..Len(l) : l[k].ok =>
                   \A j \in 1..Len(l[k].events) :
                     n < k \/ i < j => ~Excludes(l[n].events[i], l[k].events[j])
  BY DEF HistorySound
<1>11. ASSUME NEW n \in 1..N PROVE Before(m, n) = Before(l, n)
  <2>1. n # 1 => n - 1 \in 1..Len(l)  BY <1>6
  <2> QED  BY <1>5, <2>1 DEF Before
<1>12. Before(m, Len(m) + 1) = tx.after
  <2>1. N + 1 # 1 /\ (N + 1) - 1 = N  BY <1>6
  <2> QED  BY <1>5, <2>1 DEF Before
<1>13. ASSUME NEW n \in 1..Len(m) PROVE Linked(m, n)
  <2>1. CASE n = N
    <3>1. Before(m, n) = c /\ m[n] = tx  BY <1>5, <1>10, <1>11, <2>1
    <3>2. ok => tx.events = s /\ tx.after = t.after  BY <1>3 DEF s
    <3> QED  BY <1>3, <1>8, <3>1, <3>2 DEF Linked
  <2>2. CASE n # N
    <3>1. n \in 1..Len(l) /\ n \in 1..N  BY <1>5, <1>6, <2>2
    <3> QED  BY <1>5, <1>10, <1>11, <3>1 DEF Linked
  <2> QED  BY <2>1, <2>2
<1>14. DOMAIN c.markets \subseteq DOMAIN tx.after.markets  BY <1>3, <1>9
<1>15. ASSUME NEW n \in 1..Len(m), m[n].ok, NEW i \in 1..Len(m[n].events)
       PROVE  /\ m[n].events[i].kind = "OrderPlaced"
                   => m[n].events[i].market_id \in DOMAIN tx.after.markets
              /\ \A k \in n..Len(m) : m[k].ok =>
                   \A j \in 1..Len(m[k].events) :
                     n < k \/ i < j => ~Excludes(m[n].events[i], m[k].events[j])
  <2>1. CASE n = N
    <3>1. ok /\ m[n].events = s /\ tx.after = t.after /\ i \in 1..Len(s)
      BY <1>3, <1>5, <1>15, <2>1 DEF s
    <3>2. \A k \in n..Len(m) : k = n  BY <1>5, <1>6, <2>1
    <3>3. \A j \in 1..Len(s) : i < j => ~Excludes(s[i], s[j])  BY <1>9, <3>1
    <3>4. ~(n < n)  BY <1>6, <2>1
    <3> QED  BY <1>9, <3>1, <3>2, <3>3, <3>4
  <2>2. CASE n # N
    <3>1. n \in 1..Len(l) /\ m[n] = l[n]  BY <1>5, <1>6, <2>2
    <3>2. /\ l[n].events[i].kind = "OrderPlaced" => l[n].events[i].market_id \in DOMAIN c.markets
          /\ \A k \in n..Len(l) : l[k].ok =>
               \A j \in 1..Len(l[k].events) :
                 n < k \/ i < j => ~Excludes(l[n].events[i], l[k].events[j])
      BY <1>10, <1>15, <3>1
    <3>3. ASSUME NEW k \in n..Len(m), m[k].ok, NEW j \in 1..Len(m[k].events), n < k \/ i < j,
                 Excludes(m[n].events[i], m[k].events[j])
          PROVE  FALSE
      <4>1. CASE k = N
        <5>1. ok /\ m[k].events = s /\ j \in 1..Len(s)
          BY <1>3, <1>5, <3>3, <4>1 DEF s
        <5>2. EventFits(l[n].events[i], c)  BY <1>15, <3>1 DEF LedgerSound
        <5>3. l[n].events[i].kind = "OrderPlaced"  BY <3>1, <3>3 DEF Excludes
        <5>4. OrderKey(l[n].events[i]) \in DOMAIN c.orders  BY <5>2, <5>3 DEF EventFits
        <5> QED  BY <1>9, <3>1, <3>2, <3>3, <5>1, <5>3, <5>4 DEF Excludes
      <4>2. CASE k # N
        <5>1. k \in n..Len(l) /\ k \in 1..Len(l) /\ m[k] = l[k]  BY <1>5, <1>6, <4>2
        <5> QED  BY <3>1, <3>2, <3>3, <5>1
      <4> QED  BY <4>1, <4>2
    <3> QED  BY <1>14, <3>1, <3>2, <3>3
  <2> QED  BY <2>1, <2>2
<1>16. HistorySound(m, tx.after)  BY <1>12, <1>13, <1>15 DEF HistorySound
<1> QED  BY <1>16 DEF m

LEMMA StepHistory == IndexInv /\ HistoryInv /\ [Next]_vars => HistoryInv'
<1> SUFFICES ASSUME IndexInv, HistoryInv, [Next]_vars PROVE HistoryInv'
  OBVIOUS
<1>1. CASE ledger' = ledger
  BY <1>1 DEF HistoryInv, chain
<1>2. CASE NewTransaction
  <2>1. PICK t \in Transactions(chain) : Commit(TRUE, t) \/ Commit(FALSE, t)
    BY <1>2 DEF NewTransaction, Transact
  <2>2. PICK ok \in BOOLEAN : Commit(ok, t)  BY <2>1
  <2> DEFINE tx == [ok |-> ok, events |-> t.events, after |-> IF ok THEN t.after ELSE chain]
             m == Append(ledger, tx)
  <2>3. ledger' = m  BY <2>2 DEF Commit
  <2>4. LedgerSound(ledger, chain)  BY DEF IndexInv, ChainSound
  <2>5. HistorySound(m, tx.after)  BY <2>4, CommitHistory DEF HistoryInv
  <2>6. m # << >> /\ Last(m) = tx
    <3>1. Len(ledger) \in Nat /\ \E S : ledger \in Seq(S)
      BY <2>4 DEF LedgerSound, LedgerTyped
    <3> HIDE DEF tx
    <3>2. PICK S : ledger \in Seq(S)  BY <3>1
    <3>3. /\ Len(m) = Len(ledger) + 1 /\ m[Len(ledger) + 1] = tx /\ m \in Seq(S \cup {tx})
      <4>1. ledger \in Seq(S \cup {tx})  BY <3>2, SeqMonotonic
      <4> QED  BY <4>1, AppendProperties
    <3> HIDE DEF m
    <3> QED  BY <3>1, <3>3 DEF Last
  <2>7. chain' = tx.after
    <3> HIDE DEF tx, m
    <3> QED  BY <2>3, <2>6 DEF chain
  <2> HIDE DEF tx, m
  <2> QED  BY <2>3, <2>5, <2>7 DEF HistoryInv
<1> QED
  BY <1>1, <1>2 DEF Next, MainStep, HandleEvent, WebhookPost, Crash, vars

LEMMA InitHistory == Init => HistoryInv
<1> SUFFICES ASSUME Init PROVE HistoryInv
  OBVIOUS
<1>1. ledger = << >> /\ Len(ledger) = 0 /\ chain = NewChain  BY DEF Init, ChainInit, chain
<1> QED  BY <1>1 DEF HistoryInv, HistorySound, Before

LEMMA HistoryInvariant == Spec => []HistoryInv
BY InitHistory, StepHistory, IndexInvariant, PTL DEF Spec

-----------------------------------------------------------------------------
(* The backfill of a single source *)

InHand(n, i) ==
  \E j \in 1..Len(Todo) : Todo[j] = [signature |-> n, event |-> ledger[n].events[i]]
\* An order whose market is not in the database and does not get there any more.
Unlisted(n, i) ==
  LET e == ledger[n].events[i]
  IN /\ e.kind = "OrderPlaced"
     /\ e.market_id \notin DOMAIN markets
     /\ \A j \in 1..Len(Todo) : ~Excludes(e, Todo[j].event)
\* How far the backfill is.
Position == main.tip - Len(main.fetch)

\* What the backfill has passed is stored, in hand or an order of an unknown
\* market, and what is ahead is all of the rest.
BackfillInv ==
  /\ \A i, j \in 1..Len(Todo) : i < j => ~Excludes(Todo[i].event, Todo[j].event)
  /\ main.tip \in 0..Len(ledger)
  /\ main.step \in {"boot", "list"} => main.tip = 0
  /\ main.step # "fetch" => main.fetch = << >>
  /\ \A i \in 1..Len(main.fetch) : main.fetch[i] = Position + i
  /\ main.step = "listen" => main.at \in Nat /\ main.at > main.tip
  /\ \A n \in (main.until + 1)..Position :
       ledger[n].ok => \A i \in 1..Len(ledger[n].events) :
         HasRow(n, i) \/ Unlisted(n, i) \/ (main.step = "fetch" /\ InHand(n, i))

\* An event that is done with has its row, unless its market is unknown.
LEMMA HandleLogs ==
  ASSUME IndexInv, "db" \notin Faults, HandleEvent(Main)
  PROVE  /\ main' = main /\ ledger' = ledger /\ Todo # << >>
         /\ DOMAIN event_log \subseteq DOMAIN event_log'
         /\ \A m \in DOMAIN markets' :
              \/ m \in DOMAIN markets
              \/ Ev(Main).kind = "MarketInitialized" /\ m = Ev(Main).market_id
         /\ \/ Todo' = Todo
            \/ /\ Todo' = Tail(Todo)
               /\ \/ RowKey(Main) \in DOMAIN event_log'
                  \/ Ev(Main).kind = "OrderPlaced" /\ Ev(Main).market_id \notin DOMAIN markets'
<1>0. Main \in Processes /\ WorkTyped /\ WorkLogged
  BY DEF Processes, IndexInv, CursorInv
<1>1. main' = main /\ ledger' = ledger /\ Todo # << >>
  BY <1>0, HandleMoves DEF HandleEvent
<1>2. ASSUME NEW step, Goto(Main, step) PROVE Todo' = Todo
  BY <1>0, <1>2 DEF Goto, WorkTyped, Todo
<1>3. ASSUME NEW step, NEW removed, NEW added, Diff(Main, step, removed, added)
      PROVE  Todo' = Todo
  BY <1>0, <1>3 DEF Diff, WorkTyped, Todo
<1>4. ASSUME Finish(Main) PROVE Todo' = Tail(Todo)
  BY <1>0, <1>4 DEF Finish, WorkTyped, Todo, Idle
<1>5. ASSUME NEW key, NEW step, ReadBack(Main, key, step) PROVE Todo' = Todo
  <2>1. Goto(Main, step) \/ \E removed, added : Diff(Main, step, removed, added)
    BY <1>5 DEF ReadBack
  <2> QED  BY <1>2, <1>3, <2>1
<1>6. ASSUME event_log' = event_log, markets' = markets,
             Todo' = Todo \/ (Todo' = Tail(Todo) /\ work[Main].step # "store")
      PROVE  /\ DOMAIN event_log \subseteq DOMAIN event_log'
             /\ \A m \in DOMAIN markets' : m \in DOMAIN markets
             /\ Todo' = Todo \/ (Todo' = Tail(Todo) /\ RowKey(Main) \in DOMAIN event_log')
  BY <1>0, <1>6 DEF WorkLogged
<1>7. CASE Store(Main)
  <2>1. DOMAIN event_log \subseteq DOMAIN event_log'  BY <1>0, <1>7, StoreKeepsWork
  <2>2. CASE StoreMarketInitialized(Main)
    <3>1. Todo' = Todo /\ Ev(Main).kind = "MarketInitialized"
      BY <1>2, <2>2 DEF StoreMarketInitialized, Stores
    <3>2. DOMAIN markets' = DOMAIN markets \cup {Ev(Main).market_id}
      BY <2>2 DEF StoreMarketInitialized, Inserted
    <3> QED  BY <1>1, <2>1, <3>1, <3>2
  <2>3. CASE StoreWinningSideSet(Main) \/ StoreMarketClosed(Main) \/ StoreMetadataUpdated(Main)
    <3>1. PICK row : UpdateMarket(Main, row)
      BY <2>3 DEF StoreWinningSideSet, StoreMarketClosed, StoreMetadataUpdated
    <3>2. Todo' = Todo  BY <1>2, <3>1 DEF UpdateMarket
    <3>3. DOMAIN markets' = DOMAIN markets  BY <3>1 DEF UpdateMarket
    <3> QED  BY <1>1, <2>1, <3>2, <3>3
  <2>4. CASE StoreOrderPlaced(Main)
    <3>1. markets' = markets /\ Ev(Main).kind = "OrderPlaced"
      BY <2>4 DEF StoreOrderPlaced, Stores
    <3>2. CASE Duplicate(Main) /\ Finish(Main)
      <4>1. RowKey(Main) \in DOMAIN event_log'  BY <2>1, <3>2 DEF Duplicate
      <4> QED  BY <1>1, <1>4, <2>1, <3>1, <3>2, <4>1
    <3>3. CASE ~MarketKnown(Main) /\ Skip(Main)
      BY <1>1, <1>4, <2>1, <3>1, <3>3 DEF Skip, MarketKnown
    <3>4. CASE Diff(Main, "publish", {}, {<<Key(Main), Ev(Main).quantity>>})
      BY <1>1, <1>3, <2>1, <3>1, <3>4
    <3> QED  BY <2>4, <3>2, <3>3, <3>4 DEF StoreOrderPlaced
  <2>5. CASE StoreOrderMatched(Main)
    <3>1. CASE Duplicate(Main) /\ Finish(Main)
      <4>1. RowKey(Main) \in DOMAIN event_log'  BY <2>1, <3>1 DEF Duplicate
      <4> QED  BY <1>1, <1>4, <2>1, <2>5, <3>1, <4>1 DEF StoreOrderMatched
    <3>2. CASE Goto(Main, "maker")
      BY <1>1, <1>2, <2>1, <2>5, <3>2 DEF StoreOrderMatched
    <3> QED  BY <2>5, <3>1, <3>2 DEF StoreOrderMatched
  <2>6. CASE StoreOrderCancelled(Main)
    <3>1. CASE Duplicate(Main) /\ Finish(Main)
      <4>1. RowKey(Main) \in DOMAIN event_log'  BY <2>1, <3>1 DEF Duplicate
      <4> QED  BY <1>1, <1>4, <2>1, <2>6, <3>1, <4>1 DEF StoreOrderCancelled
    <3>2. CASE Diff(Main, "publish", {Key(Main)}, {})
      BY <1>1, <1>3, <2>1, <2>6, <3>2 DEF StoreOrderCancelled
    <3> QED  BY <2>6, <3>1, <3>2 DEF StoreOrderCancelled
  <2>7. CASE StoreLogged(Main)
    BY <1>1, <1>2, <2>1, <2>7 DEF StoreLogged
  <2> QED  BY <1>7, <2>2, <2>3, <2>4, <2>5, <2>6, <2>7 DEF Store
<1>8. CASE ReadMaker(Main) \/ ReadTaker(Main)
  BY <1>1, <1>5, <1>6, <1>8 DEF ReadMaker, ReadTaker
<1>9. CASE PublishDiff(Main)
  BY <1>1, <1>2, <1>6, <1>9 DEF PublishDiff
<1>10. CASE UpdateCursor(Main)
  BY <1>1, <1>4, <1>6, <1>10 DEF UpdateCursor, Handles
<1>11. CASE RedisUnavailable(Main)
  BY <1>1, <1>4, <1>6, <1>11 DEF RedisUnavailable, Handles, db
<1>12. CASE DatabaseFails(Main)
  BY <1>12 DEF DatabaseFails, Fault
<1> QED  BY <1>7, <1>8, <1>9, <1>10, <1>11, <1>12 DEF HandleEvent

LEMMA LedgerTypes ==
  ASSUME IndexInv
  PROVE  /\ Len(ledger) \in Nat /\ DOMAIN ledger = 1..Len(ledger)
         /\ \A n \in 1..Len(ledger) : /\ ledger[n].events \in Seq(EventType)
                                       /\ Len(ledger[n].events) \in Nat
                                       /\ DOMAIN ledger[n].events = 1..Len(ledger[n].events)
<1>1. LedgerTyped(ledger)  BY DEF IndexInv, ChainSound, LedgerSound
<1>2. Len(ledger) \in Nat /\ DOMAIN ledger = 1..Len(ledger)
  BY <1>1, LenProperties DEF LedgerTyped
<1>3. \A n \in 1..Len(ledger) : ledger[n].events \in Seq(EventType)
  BY <1>1 DEF LedgerTyped, TxTyped
<1> QED  BY <1>2, <1>3, LenProperties

LEMMA HandleBackfill ==
  ASSUME IndexInv, BackfillInv, "db" \notin Faults, HandleEvent(Main)
  PROVE  BackfillInv'
<1> DEFINE t == Todo
<1>1. /\ main' = main /\ ledger' = ledger /\ t # << >>
      /\ DOMAIN event_log \subseteq DOMAIN event_log'
      /\ \A m \in DOMAIN markets' :
           m \in DOMAIN markets \/ (Ev(Main).kind = "MarketInitialized" /\ m = Ev(Main).market_id)
      /\ \/ Todo' = t
         \/ /\ Todo' = Tail(t)
            /\ \/ RowKey(Main) \in DOMAIN event_log'
               \/ Ev(Main).kind = "OrderPlaced" /\ Ev(Main).market_id \notin DOMAIN markets'
  BY HandleLogs
<1>2. t \in Seq(Deliveries(ledger)) /\ Len(t) \in Nat /\ Len(ledger) \in Nat
  BY TodoTyped
<1>3. Len(t) # 0 /\ 1 \in 1..Len(t)
  <2>1. Len(t) # 0  BY <1>1, <1>2, EmptySeq
  <2> QED  BY <1>2, <2>1
<1>4. t[1].signature = Signature(Main) /\ t[1].event = Ev(Main)
  BY <1>2, <1>3 DEF Signature, Ev, Todo
<1>5. /\ Len(Tail(t)) = Len(t) - 1
      /\ \A i \in 1..Len(Tail(t)) : Tail(t)[i] = t[i + 1] /\ i + 1 \in 1..Len(t) /\ 1 < i + 1
  <2>1. Len(Tail(t)) = Len(t) - 1 /\ \A i \in 1..Len(Tail(t)) : Tail(t)[i] = t[i + 1]
    BY <1>1, <1>2, HeadTailProperties
  <2> HIDE DEF t
  <2>2. \A i \in 1..Len(Tail(t)) : i + 1 \in 1..Len(t) /\ 1 < i + 1
    BY <1>2, <2>1
  <2> QED  BY <2>1, <2>2
<1>6. /\ \A i, j \in 1..Len(t) : i < j => ~Excludes(t[i].event, t[j].event)
      /\ \A n \in (main.until + 1)..Position :
           ledger[n].ok => \A i \in 1..Len(ledger[n].events) :
             HasRow(n, i) \/ Unlisted(n, i) \/ (main.step = "fetch" /\ InHand(n, i))
  BY DEF BackfillInv
\* What remains in hand was there before.
<1>7. \A j \in 1..Len(Todo') : \E k \in 1..Len(t) : Todo'[j] = t[k]
  BY <1>1, <1>5
<1>8. \A i, j \in 1..Len(Todo') : i < j => ~Excludes(Todo'[i].event, Todo'[j].event)
  <2>1. CASE Todo' = t  BY <1>6, <2>1
  <2>2. CASE Todo' = Tail(t)
    <3>1. ASSUME NEW i \in 1..Len(Tail(t)), NEW j \in 1..Len(Tail(t)), i < j
          PROVE  ~Excludes(Tail(t)[i].event, Tail(t)[j].event)
      <4>1. /\ Tail(t)[i] = t[i + 1] /\ Tail(t)[j] = t[j + 1]
            /\ i + 1 \in 1..Len(t) /\ j + 1 \in 1..Len(t)
        BY <1>5
      <4>2. i + 1 < j + 1  BY <3>1
      <4> HIDE DEF t
      <4> QED  BY <1>6, <4>1, <4>2
    <3> QED  BY <2>2, <3>1
  <2> QED  BY <1>1, <2>1, <2>2
<1>9. ASSUME NEW n \in (main.until + 1)..Position, ledger[n].ok,
             NEW i \in 1..Len(ledger[n].events)
      PROVE  HasRow(n, i)' \/ Unlisted(n, i)' \/ (main.step = "fetch" /\ InHand(n, i)')
  <2> DEFINE e == ledger[n].events[i]
  <2>1. ASSUME HasRow(n, i) PROVE HasRow(n, i)'
    BY <1>1, <2>1 DEF HasRow, UniqueKey
  <2>2. ASSUME e.kind = "OrderPlaced", e.market_id \notin DOMAIN markets',
               \A j \in 1..Len(Todo') : ~Excludes(e, Todo'[j].event)
        PROVE  Unlisted(n, i)'
    BY <1>1, <2>2 DEF Unlisted
  <2>3. ASSUME Unlisted(n, i) PROVE Unlisted(n, i)'
    <3>1. /\ e.kind = "OrderPlaced" /\ e.market_id \notin DOMAIN markets
          /\ \A j \in 1..Len(t) : ~Excludes(e, t[j].event)
      BY <2>3 DEF Unlisted
    <3>2. ~Excludes(e, Ev(Main))  BY <1>3, <1>4, <3>1
    <3>3. e.market_id \notin DOMAIN markets'
      BY <1>1, <3>1, <3>2 DEF Excludes
    <3> QED  BY <1>7, <2>2, <3>1, <3>3
  <2>4. ASSUME main.step = "fetch", NEW j \in 1..Len(t), t[j] = [signature |-> n, event |-> e]
        PROVE  HasRow(n, i)' \/ Unlisted(n, i)' \/ (main.step = "fetch" /\ InHand(n, i)')
    <3>1. CASE Todo' = t  BY <1>1, <2>4, <3>1 DEF InHand
    <3>2. CASE j # 1 /\ Todo' = Tail(t)
      <4>1. j - 1 \in 1..Len(Tail(t)) /\ (j - 1) + 1 = j
        <5> HIDE DEF t
        <5> QED  BY <1>2, <1>5, <3>2
      <4>2. Tail(t)[j - 1] = t[j]  BY <1>5, <4>1
      <4> QED  BY <1>1, <2>4, <3>2, <4>1, <4>2 DEF InHand
    <3>3. CASE j = 1 /\ Todo' = Tail(t)
      <4>1. Signature(Main) = n /\ Ev(Main) = e  BY <1>4, <2>4, <3>3
      <4>2. CASE RowKey(Main) \in DOMAIN event_log'
        BY <1>1, <4>1, <4>2 DEF RowKey, HasRow, UniqueKey
      <4>3. CASE Ev(Main).kind = "OrderPlaced" /\ Ev(Main).market_id \notin DOMAIN markets'
        <5>1. \A k \in 1..Len(Tail(t)) : ~Excludes(e, Tail(t)[k].event)
          <6> HIDE DEF t
          <6> QED  BY <1>3, <1>5, <1>6, <2>4, <3>3
        <5> QED  BY <2>2, <3>3, <4>1, <4>3, <5>1
      <4>4. Todo' = t \/ RowKey(Main) \in DOMAIN event_log'
               \/ (Ev(Main).kind = "OrderPlaced" /\ Ev(Main).market_id \notin DOMAIN markets')
        BY <1>1
      <4> QED  BY <3>1, <4>2, <4>3, <4>4
    <3> QED  BY <1>1, <3>1, <3>2, <3>3
  <2>5. \/ HasRow(n, i) \/ Unlisted(n, i)
        \/ main.step = "fetch" /\ \E j \in 1..Len(t) : t[j] = [signature |-> n, event |-> e]
    BY <1>6, <1>9 DEF InHand
  <2> QED  BY <2>1, <2>3, <2>4, <2>5
<1> QED  BY <1>1, <1>8, <1>9 DEF BackfillInv, Position

\* A transaction in hand: nothing in it is excluded by what it or the ledger
\* before it has placed.
LEMMA TakesAll ==
  ASSUME IndexInv, HistoryInv, NEW n \in 1..Len(ledger), ledger[n].ok, Takes(n)
  PROVE  /\ Len(Todo') = Len(ledger[n].events)
         /\ \A i \in 1..Len(ledger[n].events) :
              Todo'[i] = [signature |-> n, event |-> ledger[n].events[i]]
         /\ \A i, j \in 1..Len(Todo') : i < j => ~Excludes(Todo'[i].event, Todo'[j].event)
         /\ \A k \in 1..Len(ledger) : k < n /\ ledger[k].ok =>
              \A i \in 1..Len(ledger[k].events), j \in 1..Len(Todo') :
                ~Excludes(ledger[k].events[i], Todo'[j].event)
<1>1. Main \in Processes /\ Todo' = Logs(n)
  BY DEF Processes, Takes, IndexInv, CursorInv, WorkTyped, Todo
<1> DEFINE e == ledger[n].events
           N == Len(e)
<1>2. N \in Nat /\ Len(ledger) \in Nat  BY LedgerTypes
<1>3. Todo' = [i \in 1..N |-> [signature |-> n, event |-> e[i]]]  BY <1>1 DEF Logs
<1>4. \A k \in 1..Len(ledger) : ledger[k].ok =>
        \A i \in 1..Len(ledger[k].events), m \in k..Len(ledger) : ledger[m].ok =>
          \A j \in 1..Len(ledger[m].events) :
            k < m \/ i < j => ~Excludes(ledger[k].events[i], ledger[m].events[j])
  BY DEF HistoryInv, HistorySound
<1>5. n \in n..Len(ledger) /\ \A k \in 1..Len(ledger) : k < n => n \in k..Len(ledger)
  BY <1>2
<1>6. \A i, j \in 1..N : i < j => ~Excludes(e[i], e[j])
  BY <1>4, <1>5
<1>7. \A k \in 1..Len(ledger) : k < n /\ ledger[k].ok =>
        \A i \in 1..Len(ledger[k].events), j \in 1..N : ~Excludes(ledger[k].events[i], e[j])
  BY <1>4, <1>5
<1> HIDE DEF e, N
<1>8. Len(Todo') = N /\ \A i \in 1..N : Todo'[i] = [signature |-> n, event |-> e[i]]
  BY <1>2, <1>3
<1>9. 1..Len(Todo') = 1..N /\ \A i \in 1..N : Todo'[i].event = e[i]
  BY <1>8
<1>10. \A i, j \in 1..Len(Todo') : i < j => ~Excludes(Todo'[i].event, Todo'[j].event)
  BY <1>6, <1>9
<1>11. \A k \in 1..Len(ledger) : k < n /\ ledger[k].ok =>
         \A i \in 1..Len(ledger[k].events), j \in 1..Len(Todo') :
           ~Excludes(ledger[k].events[i], Todo'[j].event)
  BY <1>7, <1>9
<1> QED  BY <1>8, <1>10, <1>11 DEF e, N

LEMMA MainBackfill ==
  ASSUME IndexInv, HistoryInv, BackfillInv, "rpc" \notin Faults, MainStep
  PROVE  BackfillInv'
<1> DEFINE N == Len(ledger)
           f == main.fetch
           u == main.until
           tip == main.tip
<1>1. N \in Nat /\ DOMAIN ledger = 1..N  BY LedgerTypes
<1>2. event_log' = event_log /\ markets' = markets /\ ledger' = ledger
  BY DEF MainStep, db
<1>3. /\ DOMAIN main = {"step", "until", "tip", "fetch", "at", "seen_signatures"}
      /\ u \in 0..N /\ f \in Seq(1..N) /\ Len(f) \in Nat
  BY LenProperties DEF IndexInv, MainSound
<1>4. /\ \A i, j \in 1..Len(Todo) : i < j => ~Excludes(Todo[i].event, Todo[j].event)
      /\ tip \in 0..N
      /\ main.step \in {"boot", "list"} => tip = 0
      /\ main.step # "fetch" => f = << >>
      /\ \A i \in 1..Len(f) : f[i] = Position + i
      /\ main.step = "listen" => main.at \in Nat /\ main.at > tip
      /\ \A n \in (u + 1)..Position :
           ledger[n].ok => \A i \in 1..Len(ledger[n].events) :
             HasRow(n, i) \/ Unlisted(n, i) \/ (main.step = "fetch" /\ InHand(n, i))
  BY DEF BackfillInv
<1>5. Position = tip - Len(f)  BY DEF Position
<1>6. MainIdle => ~ \E n, i : InHand(n, i)
  <2> SUFFICES ASSUME MainIdle, NEW n, NEW i, InHand(n, i) PROVE FALSE
    OBVIOUS
  <2>1. Len(Todo) = 0  BY DEF MainIdle, Todo
  <2> QED  BY <2>1 DEF InHand
<1>7. Len(<< >>) = 0  OBVIOUS
<1> HIDE DEF f, u, tip
\* What was passed stays so.
<1>8. ASSUME NEW n, NEW i, HasRow(n, i) PROVE HasRow(n, i)'
  BY <1>2, <1>8 DEF HasRow, UniqueKey
<1>9. ASSUME NEW n, NEW i, Todo' = Todo, Unlisted(n, i) PROVE Unlisted(n, i)'
  BY <1>2, <1>9 DEF Unlisted
<1>10. ASSUME work' = work PROVE Todo' = Todo
  BY <1>10 DEF Todo
\* Steps that stay where the backfill is.
<1>11. ASSUME work' = work, main'.until = u, main'.tip = tip, main'.fetch = f,
              main.step # "fetch" \/ MainIdle, main'.step # "fetch" => f = << >>,
              main'.step \notin {"boot", "list"},
              main'.step = "listen" => main'.at \in Nat /\ main'.at > tip
       PROVE  BackfillInv'
  <2>1. Todo' = Todo  BY <1>10, <1>11
  <2>2. Position' = Position  BY <1>11 DEF Position, tip, f
  <2>3. ASSUME NEW n \in (u + 1)..Position, ledger[n].ok, NEW i \in 1..Len(ledger[n].events)
        PROVE  HasRow(n, i)' \/ Unlisted(n, i)'
    BY <1>4, <1>6, <1>8, <1>9, <1>11, <2>1, <2>3
  <2> QED  BY <1>2, <1>4, <1>11, <2>1, <2>2, <2>3 DEF BackfillInv
\* Steps to where the backfill has not begun.
<1>12. ASSUME work' = work, main'.until \in 0..N, main'.tip = 0, main'.fetch = << >>,
              main'.step \notin {"fetch", "listen"}
       PROVE  BackfillInv'
  <2>1. Todo' = Todo  BY <1>10, <1>12
  <2>2. Position' = 0
    <3>1. Position' = main'.tip - Len(main'.fetch)  BY DEF Position
    <3> DEFINE t == main'.tip
               k == Len(main'.fetch)
    <3>2. Position' = t - k /\ t = 0 /\ k = 0  BY <1>7, <1>12, <3>1
    <3> HIDE DEF t, k
    <3> QED  BY <3>2
  <2>3. (main'.until + 1)..Position' = {}  BY <1>1, <1>12, <2>2
  <2>4. 0 \in 0..N /\ 1..Len(main'.fetch) = {}  BY <1>1, <1>7, <1>12
  <2> QED  BY <1>2, <1>4, <1>12, <2>1, <2>3, <2>4 DEF BackfillInv
<1>13. ASSUME main' = AfterBackfill
       PROVE  /\ main'.until = u /\ main'.tip = tip /\ main'.fetch = f
              /\ main'.step \in {"pending", "connect"}
  BY <1>3, <1>13 DEF AfterBackfill, u, tip, f
<1>14. CASE ReadCursor
  <2>1. tip = 0 /\ f = << >> /\ work' = work  BY <1>4, <1>14 DEF ReadCursor
  <2>2. indexer_cursor \in 0..N  BY TodoTyped
  <2>3. CASE main' = AfterBackfill  BY <1>3, <1>12, <1>13, <2>1, <2>3
  <2>4. CASE main' = [main EXCEPT !.step = "list", !.until = indexer_cursor]
    <3>1. /\ main'.until = indexer_cursor /\ main'.tip = tip /\ main'.fetch = f
          /\ main'.step = "list"
      BY <1>3, <2>4 DEF tip, f
    <3> QED  BY <1>12, <2>1, <2>2, <3>1
  <2> QED  BY <1>14, <2>3, <2>4 DEF ReadCursor
<1>15. CASE ListSignatures
  <2>1. work' = work /\ main' = [main EXCEPT !.step = "fetch", !.fetch = OldestFirst(main.until),
                                             !.tip = Len(ledger)]
    BY <1>15 DEF ListSignatures, Fault
  <2> DEFINE g == OldestFirst(u)
             k == N - u
  <2>2. main'.step = "fetch" /\ main'.fetch = g /\ main'.tip = N /\ main'.until = u
    BY <1>3, <2>1 DEF u
  <2>3. g = [i \in 1..k |-> u + i]  BY DEF OldestFirst
  <2>4. u \in Nat /\ u <= N /\ k \in Nat  BY <1>1, <1>3
  <2> HIDE DEF N, g
  <2>5. k = N - u  OBVIOUS
  <2> HIDE DEF k
  <2>6. Len(g) = k /\ \A i \in 1..k : g[i] = u + i  BY <2>3, <2>4
  <2>7. Position' = u  BY <1>1, <2>2, <2>4, <2>5, <2>6 DEF Position
  <2>8. (u + 1)..Position' = {}  BY <2>4, <2>7
  <2>9. N \in 0..N  BY <1>1
  <2>10. Todo' = Todo  BY <1>10, <2>1
  <2>11. \A i \in 1..Len(main'.fetch) : main'.fetch[i] = Position' + i
    BY <2>2, <2>6, <2>7
  <2> QED  BY <1>2, <1>4, <2>2, <2>8, <2>9, <2>10, <2>11 DEF BackfillInv, N
<1>16. CASE FetchTransaction
  <2>1. MainIdle /\ main.step = "fetch" /\ f # << >>  BY <1>16 DEF FetchTransaction, f
  <2> DEFINE g == Tail(f)
             n == Head(f)
  <2>2. /\ n \in 1..N /\ Len(g) = Len(f) - 1 /\ \A i \in 1..Len(g) : g[i] = f[i + 1]
    BY <1>3, <2>1, HeadTailProperties
  <2>3. Len(f) # 0  BY <1>3, <2>1, EmptySeq
  <2>4. n = f[1] /\ 1 \in 1..Len(f)  BY <1>3, <2>1, <2>3
  <2>5. /\ main'.step = "fetch" /\ main'.fetch = g /\ main'.tip = tip /\ main'.until = u
        /\ IF ledger[n].ok THEN Takes(n) ELSE work' = work
    BY <1>3, <1>16 DEF FetchTransaction, Fault, f, u, tip
  <2> HIDE DEF g, n
  <2>6. n = Position + 1  BY <1>4, <2>4
  <2>7. Position' = Position + 1 /\ Position \in Int
    BY <1>3, <1>4, <1>5, <2>2, <2>5 DEF Position
  <2>8. ASSUME NEW i \in 1..Len(g) PROVE g[i] = Position' + i
    <3>1. g[i] = f[i + 1] /\ i + 1 \in 1..Len(f)  BY <1>3, <2>2
    <3>2. f[i + 1] = Position + (i + 1)  BY <1>4, <3>1
    <3> QED  BY <2>7, <3>1, <3>2
  <2>9. ASSUME NEW k \in (u + 1)..Position', k # n
        PROVE  k \in (u + 1)..Position /\ k < n /\ k \in 1..N
    BY <1>1, <1>3, <2>2, <2>6, <2>7, <2>9
  <2>10. CASE Takes(n) /\ ledger[n].ok
    <3>1. /\ Len(Todo') = Len(ledger[n].events)
          /\ \A i \in 1..Len(ledger[n].events) :
               Todo'[i] = [signature |-> n, event |-> ledger[n].events[i]]
          /\ \A i, j \in 1..Len(Todo') : i < j => ~Excludes(Todo'[i].event, Todo'[j].event)
          /\ \A k \in 1..Len(ledger) : k < n /\ ledger[k].ok =>
               \A i \in 1..Len(ledger[k].events), j \in 1..Len(Todo') :
                 ~Excludes(ledger[k].events[i], Todo'[j].event)
      BY <2>2, <2>10, TakesAll
    <3>2. ASSUME NEW k \in (u + 1)..Position', ledger[k].ok, NEW i \in 1..Len(ledger[k].events)
          PROVE  HasRow(k, i)' \/ Unlisted(k, i)' \/ InHand(k, i)'
      <4>1. CASE k = n  BY <1>2, <3>1, <3>2, <4>1 DEF InHand
      <4>2. CASE k # n
        <5>1. k \in (u + 1)..Position /\ k < n /\ k \in 1..N  BY <2>9, <4>2
        <5>2. HasRow(k, i) \/ Unlisted(k, i)  BY <1>4, <1>6, <2>1, <3>2, <5>1
        <5>3. ASSUME Unlisted(k, i) PROVE Unlisted(k, i)'
          BY <1>2, <3>1, <3>2, <5>1, <5>3 DEF Unlisted
        <5> QED  BY <1>8, <5>2, <5>3
      <4> QED  BY <4>1, <4>2
    <3> QED  BY <1>2, <1>4, <2>5, <2>8, <3>1, <3>2 DEF BackfillInv
  <2>11. CASE work' = work /\ ~ledger[n].ok
    <3>1. Todo' = Todo  BY <1>10, <2>11
    <3>2. ASSUME NEW k \in (u + 1)..Position', ledger[k].ok, NEW i \in 1..Len(ledger[k].events)
          PROVE  HasRow(k, i)' \/ Unlisted(k, i)'
      <4>1. k \in (u + 1)..Position  BY <2>9, <2>11, <3>2
      <4>2. HasRow(k, i) \/ Unlisted(k, i)  BY <1>4, <1>6, <2>1, <3>2, <4>1
      <4> QED  BY <1>8, <1>9, <3>1, <4>2
    <3> QED  BY <1>2, <1>4, <2>5, <2>8, <3>1, <3>2 DEF BackfillInv
  <2> QED  BY <2>5, <2>10, <2>11
<1>17. CASE EndBackfill
  BY <1>11, <1>13, <1>17 DEF EndBackfill, f
<1>18. CASE Subscribe
  <2>1. /\ main'.step = "listen" /\ main'.at = N + 1 /\ main'.until = u /\ main'.tip = tip
        /\ main'.fetch = f
    BY <1>3, <1>18 DEF Subscribe, u, tip, f
  <2>2. N + 1 \in Nat /\ N + 1 > tip  BY <1>1, <1>4
  <2> QED  BY <1>4, <1>11, <1>18, <2>1, <2>2 DEF Subscribe
<1>19. CASE Receive
  <2>1. main.step = "listen" /\ MainIdle /\ main.at \in Nat /\ main.at > tip /\ f = << >>
    BY <1>4, <1>19 DEF Receive
  <2>2. PICK n \in DOMAIN ledger :
          /\ n = main.at \/ (n < main.at /\ n \in main.seen_signatures)
          /\ IF Seen(n) \/ ~ledger[n].ok
             THEN main' = [main EXCEPT !.at = Max({@, n + 1})] /\ UNCHANGED work
             ELSE /\ main' = [main EXCEPT !.at = Max({@, n + 1}), !.seen_signatures = @ \cup {n}]
                  /\ Takes(n)
    BY <1>19 DEF Receive
  <2>3. n \in 1..N /\ n \in Nat  BY <1>1, <2>2
  <2> DEFINE a == Max({main.at, n + 1})
  <2>4. /\ main'.step = "listen" /\ main'.at = a /\ main'.until = u /\ main'.tip = tip
        /\ main'.fetch = f
    BY <1>3, <2>1, <2>2 DEF u, tip, f
  <2>5. a \in Nat /\ a >= main.at  BY <2>1, <2>3, MaxOfTwo
  <2> HIDE DEF a
  <2>6. a \in Nat /\ a > tip  BY <1>1, <1>4, <2>1, <2>5
  <2>7. CASE work' = work  BY <1>11, <2>1, <2>4, <2>6, <2>7
  <2>8. CASE Takes(n) /\ ledger[n].ok /\ ~Seen(n)
    <3>1. n > tip  BY <2>1, <2>2, <2>8 DEF Seen
    <3>2. Position' = Position /\ Position = tip
      BY <1>4, <1>5, <1>7, <2>1, <2>4 DEF Position, tip, f
    <3>3. /\ \A i, j \in 1..Len(Todo') : i < j => ~Excludes(Todo'[i].event, Todo'[j].event)
          /\ \A k \in 1..Len(ledger) : k < n /\ ledger[k].ok =>
               \A i \in 1..Len(ledger[k].events), j \in 1..Len(Todo') :
                 ~Excludes(ledger[k].events[i], Todo'[j].event)
      BY <2>3, <2>8, TakesAll
    <3>4. ASSUME NEW k \in (u + 1)..Position, ledger[k].ok, NEW i \in 1..Len(ledger[k].events)
          PROVE  HasRow(k, i)' \/ Unlisted(k, i)'
      <4>1. k \in 1..N /\ k < n  BY <1>1, <1>3, <1>4, <2>3, <3>1, <3>2
      <4>2. HasRow(k, i) \/ Unlisted(k, i)  BY <1>4, <2>1, <3>4
      <4>3. ASSUME Unlisted(k, i) PROVE Unlisted(k, i)'
        BY <1>2, <3>3, <3>4, <4>1, <4>3 DEF Unlisted
      <4> QED  BY <1>8, <4>2, <4>3
    <3>5. 1..Len(main'.fetch) = {}  BY <1>7, <2>1, <2>4
    <3> QED  BY <1>2, <1>4, <2>1, <2>4, <2>6, <3>2, <3>3, <3>4, <3>5 DEF BackfillInv
  <2> QED  BY <2>2, <2>7, <2>8
<1>20. CASE Disconnect
  <2>1. /\ main'.step = "connect" /\ main'.until = u /\ main'.tip = tip /\ main'.fetch = f
        /\ work' = work /\ MainIdle /\ main.step = "listen"
    BY <1>3, <1>20 DEF Disconnect, u, tip, f
  <2> QED  BY <1>4, <1>11, <2>1
<1> QED  BY <1>14, <1>15, <1>16, <1>17, <1>18, <1>19, <1>20 DEF MainStep

LEMMA StepBackfill ==
  ASSUME Tasks = {}, Faults \cap {"db", "rpc"} = {}
  PROVE  IndexInv /\ HistoryInv /\ BackfillInv /\ [Next]_vars => BackfillInv'
<1> SUFFICES ASSUME IndexInv, HistoryInv, BackfillInv, [Next]_vars PROVE BackfillInv'
  OBVIOUS
<1>1. CASE UNCHANGED vars
  <2>1. /\ main' = main /\ ledger' = ledger /\ event_log' = event_log /\ markets' = markets
        /\ Todo' = Todo /\ Position' = Position
    BY <1>1 DEF vars, db, Todo, Position
  <2>2. \A n, i : /\ HasRow(n, i) => HasRow(n, i)'
                  /\ Unlisted(n, i) => Unlisted(n, i)'
                  /\ InHand(n, i) => InHand(n, i)'
    BY <2>1 DEF HasRow, UniqueKey, Unlisted, InHand
  <2> QED  BY <2>1, <2>2 DEF BackfillInv
<1>2. CASE NewTransaction
  <2>1. /\ main' = main /\ work' = work /\ event_log' = event_log /\ markets' = markets
        /\ Todo' = Todo /\ Position' = Position
    BY <1>2 DEF NewTransaction, db, Todo, Position
  <2>2. PICK tx : ledger' = Append(ledger, tx)  BY <1>2 DEF NewTransaction, Transact, Commit
  <2>3. PICK S : ledger \in Seq(S)
    BY DEF IndexInv, ChainSound, LedgerSound, LedgerTyped
  <2>4. /\ Len(ledger') = Len(ledger) + 1 /\ Len(ledger) \in Nat
        /\ \A n \in 1..Len(ledger) : ledger'[n] = ledger[n]
    <3>1. ledger \in Seq(S \cup {tx})  BY <2>3, SeqMonotonic
    <3> QED  BY <2>2, <3>1, AppendProperties
  <2>5. main.tip \in 0..Len(ledger) /\ main.until \in 0..Len(ledger)
        /\ Len(main.fetch) \in Nat
    BY LenProperties DEF BackfillInv, IndexInv, MainSound
  <2>6. \A n \in (main.until + 1)..Position : n \in 1..Len(ledger)
    BY <2>4, <2>5 DEF Position
  <2>7. main.tip \in 0..Len(ledger')  BY <2>4, <2>5
  <2>8. ASSUME NEW n \in (main.until + 1)..Position, ledger'[n].ok,
               NEW i \in 1..Len(ledger'[n].events)
        PROVE  HasRow(n, i)' \/ Unlisted(n, i)' \/ (main.step = "fetch" /\ InHand(n, i)')
    <3>1. ledger'[n] = ledger[n]  BY <2>4, <2>6
    <3>2. HasRow(n, i) \/ Unlisted(n, i) \/ (main.step = "fetch" /\ InHand(n, i))
      BY <2>8, <3>1 DEF BackfillInv
    <3> QED  BY <2>1, <3>1, <3>2 DEF HasRow, UniqueKey, Unlisted, InHand
  <2> QED  BY <2>1, <2>7, <2>8 DEF BackfillInv
<1>3. CASE MainStep
  BY <1>3, MainBackfill
<1>4. ASSUME NEW p \in Processes, HandleEvent(p) PROVE BackfillInv'
  BY <1>4, HandleBackfill DEF Processes
<1>5. CASE Crash
  <2>1. /\ Todo' = << >> /\ main' = Boot /\ ledger' = ledger
    BY <1>5 DEF Crash, Todo, Idle, Processes
  <2>2. /\ Len(Todo') = 0 /\ main'.step = "boot" /\ main'.tip = 0 /\ main'.fetch = << >>
        /\ main'.until = 0 /\ Len(main'.fetch) = 0
    BY <2>1 DEF Boot
  <2>3. Len(ledger) \in Nat  BY LedgerTypes
  <2>4. Position' = 0
    <3>1. Position' = main'.tip - Len(main'.fetch)  BY DEF Position
    <3> QED  BY <2>2, <3>1
  <2>5. (main'.until + 1)..Position' = {}  BY <2>2, <2>4
  <2>6. 0 \in 0..Len(ledger) /\ 1..Len(main'.fetch) = {} /\ 1..Len(Todo') = {}
    BY <2>2, <2>3
  <2> QED  BY <2>1, <2>2, <2>5, <2>6 DEF BackfillInv
<1> QED  BY <1>1, <1>2, <1>3, <1>4, <1>5 DEF Next

\* A backfill whose reads and writes all succeed has stored every event after
\* the cursor it started from, but for the orders of markets that are not in
\* the database; with main as the only source, and whatever happens to it,
\* its stream or Redis before and after.
THEOREM BackfillCorrect ==
  ASSUME Tasks = {}, Faults \cap {"db", "rpc"} = {}
  PROVE  Spec => []BackfillComplete
<1>1. Init => BackfillInv
  <2> SUFFICES ASSUME Init PROVE BackfillInv
    OBVIOUS
  <2>1. Todo = << >> /\ main = Boot /\ ledger = << >>
    BY DEF Init, ChainInit, Todo, Idle, Processes
  <2>2. /\ Len(Todo) = 0 /\ main.step = "boot" /\ main.tip = 0 /\ main.fetch = << >>
        /\ main.until = 0 /\ Len(main.fetch) = 0 /\ Len(ledger) = 0
    BY <2>1 DEF Boot
  <2>3. Position = 0
    <3>1. Position = main.tip - Len(main.fetch)  BY DEF Position
    <3> QED  BY <2>2, <3>1
  <2>4. (main.until + 1)..Position = {}  BY <2>2, <2>3
  <2>5. 0 \in 0..Len(ledger) /\ 1..Len(main.fetch) = {} /\ 1..Len(Todo) = {}
    BY <2>2
  <2> QED  BY <2>1, <2>2, <2>4, <2>5 DEF BackfillInv
<1>2. IndexInv /\ BackfillInv => BackfillComplete
  <2> SUFFICES ASSUME IndexInv, BackfillInv, main.step \in {"connect", "listen", "pending"},
                      NEW n \in (main.until + 1)..main.tip, Committed(n),
                      NEW i \in DOMAIN ledger[n].events
               PROVE  \/ HasRow(n, i)
                      \/ /\ ledger[n].events[i].kind = "OrderPlaced"
                         /\ ledger[n].events[i].market_id \notin DOMAIN markets
    BY DEF BackfillComplete
  <2>1. main.fetch = << >> /\ main.tip \in Int  BY DEF BackfillInv
  <2>2. Len(main.fetch) = 0  BY <2>1
  <2>3. Position = main.tip  BY <2>1, <2>2 DEF Position
  <2>4. ledger[n].ok /\ n \in 1..Len(ledger)  BY LedgerTypes DEF Committed
  <2>5. i \in 1..Len(ledger[n].events)  BY <2>4, LedgerTypes
  <2>6. HasRow(n, i) \/ Unlisted(n, i)  BY <2>3, <2>4, <2>5 DEF BackfillInv
  <2> QED  BY <2>6 DEF Unlisted
<1>3. IndexInv /\ HistoryInv /\ BackfillInv /\ [Next]_vars => BackfillInv'
  BY StepBackfill
<1> QED  BY <1>1, <1>2, <1>3, IndexInvariant, HistoryInvariant, PTL DEF Spec

-----------------------------------------------------------------------------
(* The diffs of a single source *)

EntriesOf(t) == {<<key, t[key].remaining_quantity>> : key \in Listed(t)}
\* What a subscriber holds once the diff in hand is published.
ShownBook(w, b) ==
  IF w.step = "cursor" THEN b
  ELSE {entry \in b : entry[1] \notin w.removed} \cup w.added
\* The orders that a match in hand has changed and not read back yet.
UnreadKeys(w) ==
  LET e == Head(w.todo).event
      taker == IF e.taker_order_id # 0 THEN {TakerOf(e)} ELSE {}
  IN CASE w.step = "maker" -> {OrderKey(e)} \cup taker
       [] w.step = "taker" -> {TakerOf(e)}
       [] OTHER -> {}
ShowsBut(b, t, keys) ==
  \A key, q : key \notin keys => (<<key, q>> \in b <=> <<key, q>> \in EntriesOf(t))

\* A subscriber who gets the diff in hand has what the table lists, but for
\* what the diff is still to read; that was traded, and was either listed or
\* never shown.
DiffSound(w, b, t) ==
  /\ w.step = "store" => w.removed = {} /\ w.added = {}
  /\ w.step \in {"maker", "taker"} => w.added \subseteq EntriesOf(t)
  /\ ShowsBut(ShownBook(w, b), t, UnreadKeys(w))
  /\ \A key \in UnreadKeys(w) :
       IF key \in DOMAIN t THEN t[key].status \in {"partially_filled", "filled"}
       ELSE \A q : <<key, q>> \notin b

\* Every row is of an order that was placed and logged.
RowsPlacedInv ==
  \A key \in DOMAIN live_orders :
    \E n \in 1..Len(ledger) :
      /\ ledger[n].ok
      /\ \E i \in 1..Len(ledger[n].events) :
           /\ ledger[n].events[i].kind = "OrderPlaced"
           /\ OrderKey(ledger[n].events[i]) = key
           /\ HasRow(n, i)

ShownInv == RowsPlacedInv /\ DiffSound(work[Main], book, live_orders)

LEMMA EntriesAre ==
  ASSUME NEW t
  PROVE  /\ \A key, q : <<key, q>> \in EntriesOf(t)
              <=> /\ key \in DOMAIN t /\ t[key].status \in {"open", "partially_filled"}
                  /\ q = t[key].remaining_quantity
         /\ \A x \in EntriesOf(t) : \E key, q : x = <<key, q>>
BY DEF EntriesOf, Listed

\* Done with the event: the next has nothing in its diff yet.
LEMMA DoneShows ==
  ASSUME NEW b, NEW t, NEW v, v.step = "store", v.removed = {}, v.added = {},
         ShowsBut(b, t, {})
  PROVE  DiffSound(v, b, t)
<1>1. UnreadKeys(v) = {}  BY DEF UnreadKeys
<1>2. ShownBook(v, b) = b  BY DEF ShownBook
<1> QED  BY <1>1, <1>2 DEF DiffSound

LEMMA CursorShows ==
  ASSUME NEW b, NEW t, NEW v, v.step = "cursor", ShowsBut(b, t, {})
  PROVE  DiffSound(v, b, t)
<1>1. UnreadKeys(v) = {}  BY DEF UnreadKeys
<1>2. ShownBook(v, b) = b  BY DEF ShownBook
<1> QED  BY <1>1, <1>2 DEF DiffSound

\* An event that is not begun, or only to be marked: the book is the table.
LEMMA SettledShows ==
  ASSUME NEW w, NEW b, NEW t, DiffSound(w, b, t), w.step \in {"store", "cursor"}
  PROVE  ShowsBut(b, t, {})
<1>1. UnreadKeys(w) = {}  BY DEF UnreadKeys
<1>2. ShownBook(w, b) = b  BY DEF ShownBook, DiffSound
<1> QED  BY <1>1, <1>2 DEF DiffSound

\* A new order is added.
LEMMA PlacedShows ==
  ASSUME NEW b, NEW t, ShowsBut(b, t, {}), NEW key, key \notin DOMAIN t, NEW order, NEW q,
         NEW v, v.step = "publish", v.removed = {}, v.added = {<<key, q>>}
  PROVE  DiffSound(v, b, Placed(t, key, order, q))
<1> DEFINE u == Placed(t, key, order, q)
<1>1. UnreadKeys(v) = {}  BY DEF UnreadKeys
<1>2. ShownBook(v, b) = b \cup {<<key, q>>}  BY DEF ShownBook
<1>3. /\ DOMAIN u = DOMAIN t \cup {key} /\ \A k \in DOMAIN t : u[k] = t[k]
      /\ u[key].status = "open" /\ u[key].remaining_quantity = q
  BY DEF Placed, Inserted
<1> HIDE DEF u
<1>4. ASSUME NEW k, NEW n
      PROVE  <<k, n>> \in b \cup {<<key, q>>} <=> <<k, n>> \in EntriesOf(u)
  <2>1. <<k, n>> \in b <=> <<k, n>> \in EntriesOf(t)  BY DEF ShowsBut
  <2>2. CASE k = key
    <3>1. <<k, n>> \notin EntriesOf(t)  BY <2>2, EntriesAre
    <3>2. <<k, n>> \in EntriesOf(u) <=> n = q  BY <1>3, <2>2, EntriesAre
    <3> QED  BY <2>1, <2>2, <3>1, <3>2
  <2>3. CASE k # key
    <3>1. <<k, n>> \in EntriesOf(t) <=> <<k, n>> \in EntriesOf(u)
      BY <1>3, <2>3, EntriesAre
    <3> QED  BY <2>1, <2>3, <3>1
  <2> QED  BY <2>2, <2>3
<1>5. DiffSound(v, b, u)  BY <1>1, <1>2, <1>4 DEF DiffSound, ShowsBut
<1> QED  BY <1>5 DEF u

\* A cancelled order is removed.
LEMMA CancelledShows ==
  ASSUME NEW b, NEW t, RowsTyped(t), ShowsBut(b, t, {}), NEW key,
         NEW v, v.step = "publish", v.removed = {key}, v.added = {}
  PROVE  DiffSound(v, b, Cancelled(t, key))
<1> DEFINE u == Cancelled(t, key)
<1>1. UnreadKeys(v) = {}  BY DEF UnreadKeys
<1>2. ShownBook(v, b) = {entry \in b : entry[1] # key}  BY DEF ShownBook
<1>3. /\ DOMAIN u = DOMAIN t /\ \A k \in DOMAIN t : k # key => u[k] = t[k]
  BY DEF Cancelled
<1>4. key \in DOMAIN t => u[key].status \notin {"open", "partially_filled"}
  <2> SUFFICES ASSUME key \in DOMAIN t PROVE u[key].status \notin {"open", "partially_filled"}
    OBVIOUS
  <2>1. u[key] = [t[key] EXCEPT !.status = "cancelled"]  BY DEF Cancelled
  <2>2. t[key] \in RowType  BY DEF RowsTyped
  <2> QED  BY <2>1, <2>2 DEF RowType
<1> HIDE DEF u
<1>5. ASSUME NEW k, NEW n
      PROVE  <<k, n>> \in {entry \in b : entry[1] # key} <=> <<k, n>> \in EntriesOf(u)
  <2>1. <<k, n>> \in b <=> <<k, n>> \in EntriesOf(t)  BY DEF ShowsBut
  <2>2. CASE k = key
    BY <1>3, <1>4, <2>2, EntriesAre
  <2>3. CASE k # key
    <3>1. <<k, n>> \in EntriesOf(t) <=> <<k, n>> \in EntriesOf(u)
      BY <1>3, <2>3, EntriesAre
    <3> QED  BY <2>1, <2>3, <3>1
  <2> QED  BY <2>2, <2>3
<1>6. DiffSound(v, b, u)  BY <1>1, <1>2, <1>5 DEF DiffSound, ShowsBut
<1> QED  BY <1>6 DEF u

LEMMA ReducedOne ==
  ASSUME NEW t, RowsTyped(t), NEW key, NEW q \in Int
  PROVE  LET u == Reduced(t, key, q)
         IN /\ DOMAIN u = DOMAIN t
            /\ \A k \in DOMAIN t : k # key => u[k] = t[k]
            /\ key \in DOMAIN t => u[key].status \in {"partially_filled", "filled"}
<1> DEFINE u == Reduced(t, key, q)
<1>1. DOMAIN u = DOMAIN t  BY ReducedRows
<1>2. \A k \in DOMAIN t : k # key => u[k] = t[k]  BY DEF Reduced
<1>3. key \in DOMAIN t => u[key].status \in {"partially_filled", "filled"}
  <2> SUFFICES ASSUME key \in DOMAIN t PROVE u[key].status \in {"partially_filled", "filled"}
    OBVIOUS
  <2> DEFINE left == t[key].remaining_quantity - q
             status == IF left <= 0 THEN "filled" ELSE "partially_filled"
  <2>1. u[key] = [t[key] EXCEPT !.remaining_quantity = left, !.status = status]
    BY DEF Reduced
  <2>2. t[key] \in RowType  BY DEF RowsTyped
  <2>3. status \in {"partially_filled", "filled"}  OBVIOUS
  <2> HIDE DEF u, left, status
  <2> QED  BY <2>1, <2>2, <2>3 DEF RowType
<1> QED  BY <1>1, <1>2, <1>3

\* A match changes the two rows that it reads back, and nothing else.
LEMMA MatchedShows ==
  ASSUME NEW b, NEW t, RowsTyped(t), ShowsBut(b, t, {}),
         NEW v, v.step = "maker", v.removed = {}, v.added = {},
         NEW e, e = Head(v.todo).event, e.quantity \in Int
  PROVE  DiffSound(v, b, Matched(t, OrderKey(e), TakerOf(e), e.quantity, e.taker_order_id # 0))
<1> DEFINE maker == OrderKey(e)
           taker == TakerOf(e)
           limit == e.taker_order_id # 0
           r == Reduced(t, maker, e.quantity)
           u == Reduced(r, taker, e.quantity)
           m == Matched(t, maker, taker, e.quantity, limit)
<1>1. UnreadKeys(v) = {maker} \cup (IF limit THEN {taker} ELSE {})  BY DEF UnreadKeys
<1>2. ShownBook(v, b) = b  BY DEF ShownBook
<1>3. /\ DOMAIN r = DOMAIN t /\ \A k \in DOMAIN t : k # maker => r[k] = t[k]
      /\ maker \in DOMAIN t => r[maker].status \in {"partially_filled", "filled"}
      /\ RowsTyped(r)
  BY ReducedOne, ReducedIs
<1>4. /\ DOMAIN u = DOMAIN r /\ \A k \in DOMAIN r : k # taker => u[k] = r[k]
      /\ taker \in DOMAIN r => u[taker].status \in {"partially_filled", "filled"}
  <2> HIDE DEF r
  <2> QED  BY <1>3, ReducedOne
<1>5. m = IF limit THEN u ELSE r  BY DEF Matched
<1> HIDE DEF maker, taker, limit, r, u, m
<1>6. /\ DOMAIN m = DOMAIN t
      /\ \A k \in DOMAIN t :
           IF k \in UnreadKeys(v) THEN m[k].status \in {"partially_filled", "filled"}
           ELSE m[k] = t[k]
  BY <1>1, <1>3, <1>4, <1>5
<1>7. \A k, n : <<k, n>> \in b <=> <<k, n>> \in EntriesOf(t)  BY DEF ShowsBut
<1>8. ASSUME NEW k, NEW n, k \notin UnreadKeys(v)
      PROVE  <<k, n>> \in EntriesOf(t) <=> <<k, n>> \in EntriesOf(m)
  BY <1>6, <1>8, EntriesAre
<1>9. ASSUME NEW k \in UnreadKeys(v), k \notin DOMAIN t PROVE \A n : <<k, n>> \notin b
  BY <1>7, <1>9, EntriesAre
<1>10. v.added \subseteq EntriesOf(m)  OBVIOUS
<1>11. ShowsBut(ShownBook(v, b), m, UnreadKeys(v))
  BY <1>2, <1>7, <1>8 DEF ShowsBut
<1>12. DiffSound(v, b, m)  BY <1>6, <1>9, <1>10, <1>11 DEF DiffSound
<1> QED  BY <1>12 DEF m, maker, taker, limit

\* An order read back is no longer open between the table and the book.
LEMMA ReadShows ==
  ASSUME NEW w, NEW b, NEW t, DiffSound(w, b, t), w.step \in {"maker", "taker"},
         NEW key \in UnreadKeys(w), NEW v, v.step \in {"taker", "publish"},
         UnreadKeys(v) \subseteq UnreadKeys(w), UnreadKeys(w) \subseteq UnreadKeys(v) \cup {key},
         \/ key \notin DOMAIN t /\ v.removed = w.removed /\ v.added = w.added
         \/ /\ key \in DOMAIN t /\ t[key].status = "partially_filled"
            /\ v.removed = w.removed \cup {key}
            /\ v.added = w.added \cup {<<key, t[key].remaining_quantity>>}
         \/ /\ key \in DOMAIN t /\ t[key].status = "filled"
            /\ v.removed = w.removed \cup {key} /\ v.added = w.added
  PROVE  DiffSound(v, b, t)
<1> DEFINE E == EntriesOf(t)
<1>1. /\ w.added \subseteq E
      /\ ShowsBut(ShownBook(w, b), t, UnreadKeys(w))
      /\ \A k \in UnreadKeys(w) :
           IF k \in DOMAIN t THEN t[k].status \in {"partially_filled", "filled"}
           ELSE \A q : <<k, q>> \notin b
  BY DEF DiffSound
<1>2. /\ ShownBook(w, b) = {entry \in b : entry[1] \notin w.removed} \cup w.added
      /\ ShownBook(v, b) = {entry \in b : entry[1] \notin v.removed} \cup v.added
  BY DEF ShownBook
<1>3. \A k, q : <<k, q>> \in E
              <=> /\ k \in DOMAIN t /\ t[k].status \in {"open", "partially_filled"}
                  /\ q = t[k].remaining_quantity
  BY EntriesAre
<1> HIDE DEF E
<1>4. v.added \subseteq E  BY <1>1, <1>3
<1>5. ASSUME NEW k, NEW q, k \notin UnreadKeys(v)
      PROVE  <<k, q>> \in ShownBook(v, b) <=> <<k, q>> \in E
  <2>1. CASE k = key
    <3>1. CASE key \notin DOMAIN t
      <4>1. <<k, q>> \notin b /\ <<k, q>> \notin E  BY <1>1, <1>3, <2>1, <3>1
      <4>2. <<k, q>> \notin v.added  BY <1>4, <4>1
      <4> QED  BY <1>2, <4>1, <4>2
    <3>2. CASE key \in DOMAIN t
      <4>1. key \in v.removed  BY <3>2
      <4>2. <<k, q>> \in ShownBook(v, b) <=> <<k, q>> \in v.added
        BY <1>2, <2>1, <4>1
      <4>3. <<k, q>> \in v.added => <<k, q>> \in E  BY <1>4
      <4>4. <<k, q>> \in E => <<k, q>> \in v.added
        BY <1>3, <2>1, <3>2
      <4> QED  BY <4>2, <4>3, <4>4
    <3> QED  BY <3>1, <3>2
  <2>2. CASE k # key
    <3>1. <<k, q>> \in ShownBook(w, b) <=> <<k, q>> \in E
      BY <1>1, <1>5, <2>2 DEF ShowsBut, E
    <3>2. /\ k \in v.removed <=> k \in w.removed
          /\ <<k, q>> \in v.added <=> <<k, q>> \in w.added
      BY <2>2
    <3> QED  BY <1>2, <3>1, <3>2
  <2> QED  BY <2>1, <2>2
<1>6. ShowsBut(ShownBook(v, b), t, UnreadKeys(v))  BY <1>5 DEF ShowsBut, E
<1> QED  BY <1>1, <1>4, <1>6 DEF DiffSound, E

\* The diff goes out.
LEMMA PublishedShows ==
  ASSUME NEW w, NEW b, NEW t, DiffSound(w, b, t), w.step = "publish", NEW v, v.step = "cursor"
  PROVE  DiffSound(v, {entry \in b : entry[1] \notin w.removed} \cup w.added, t)
<1> DEFINE c == {entry \in b : entry[1] \notin w.removed} \cup w.added
<1>1. UnreadKeys(w) = {} /\ ShownBook(w, b) = c  BY DEF UnreadKeys, ShownBook
<1>2. ShowsBut(c, t, {})  BY <1>1 DEF DiffSound
<1> HIDE DEF c
<1>3. DiffSound(v, c, t)  BY <1>2, CursorShows
<1> QED  BY <1>3 DEF c

LEMMA Goes ==
  ASSUME WorkTyped
  PROVE  LET w == work[Main]
             v == work'[Main]
         IN /\ \A step : Goto(Main, step) =>
                 /\ v.todo = w.todo /\ v.step = step
                 /\ v.removed = w.removed /\ v.added = w.added
            /\ \A step, removed, added : Diff(Main, step, removed, added) =>
                 /\ v.todo = w.todo /\ v.step = step
                 /\ v.removed = w.removed \cup removed /\ v.added = w.added \cup added
            /\ Finish(Main) => v.step = "store" /\ v.removed = {} /\ v.added = {}
<1>1. /\ Main \in Processes /\ DOMAIN work = Processes
      /\ DOMAIN work[Main] = {"todo", "step", "removed", "added"}
  BY DEF WorkTyped, Processes
<1>2. ASSUME NEW w, work' = [work EXCEPT ![Main] = w] PROVE work'[Main] = w
  BY <1>1, <1>2
<1>3. ASSUME NEW step, Goto(Main, step)
      PROVE  /\ work'[Main].todo = work[Main].todo /\ work'[Main].step = step
             /\ work'[Main].removed = work[Main].removed /\ work'[Main].added = work[Main].added
  BY <1>1, <1>3 DEF Goto
<1>4. ASSUME NEW step, NEW removed, NEW added, Diff(Main, step, removed, added)
      PROVE  /\ work'[Main].todo = work[Main].todo /\ work'[Main].step = step
             /\ work'[Main].removed = work[Main].removed \cup removed
             /\ work'[Main].added = work[Main].added \cup added
  <2> DEFINE w == [work[Main] EXCEPT !.step = step, !.removed = @ \cup removed,
                                     !.added = @ \cup added]
  <2>1. /\ w.todo = work[Main].todo /\ w.step = step
        /\ w.removed = work[Main].removed \cup removed /\ w.added = work[Main].added \cup added
    BY <1>1
  <2>2. work' = [work EXCEPT ![Main] = w]  BY <1>1, <1>4 DEF Diff
  <2> HIDE DEF w
  <2> QED  BY <1>2, <2>1, <2>2
<1>5. ASSUME Finish(Main)
      PROVE  work'[Main].step = "store" /\ work'[Main].removed = {} /\ work'[Main].added = {}
  BY <1>1, <1>5 DEF Finish, Idle
<1> QED  BY <1>3, <1>4, <1>5

\* An order is placed once, so one that is not logged has no row yet.
LEMMA FreshKey ==
  ASSUME IndexInv, HistoryInv, RowsPlacedInv, Todo # << >>, Ev(Main).kind = "OrderPlaced",
         ~Duplicate(Main)
  PROVE  Key(Main) \notin DOMAIN live_orders
<1> SUFFICES ASSUME Key(Main) \in DOMAIN live_orders PROVE FALSE
  OBVIOUS
<1> DEFINE e == Ev(Main)
           s == Signature(Main)
           N == Len(ledger)
<1>1. /\ s \in 1..N /\ ledger[s].ok /\ Key(Main) = OrderKey(e)
      /\ \E i \in 1..Len(ledger[s].events) : e = ledger[s].events[i]
  BY Handled DEF IndexInv, Processes, Todo
<1>2. PICK j \in 1..Len(ledger[s].events) : e = ledger[s].events[j]  BY <1>1
<1>3. PICK n \in 1..N :
        /\ ledger[n].ok
        /\ \E i \in 1..Len(ledger[n].events) :
             /\ ledger[n].events[i].kind = "OrderPlaced"
             /\ OrderKey(ledger[n].events[i]) = Key(Main)
             /\ HasRow(n, i)
  BY DEF RowsPlacedInv
<1>4. PICK i \in 1..Len(ledger[n].events) :
        /\ ledger[n].events[i].kind = "OrderPlaced"
        /\ OrderKey(ledger[n].events[i]) = Key(Main)
        /\ HasRow(n, i)
  BY <1>3
<1> DEFINE f == ledger[n].events[i]
<1>5. e.kind = "OrderPlaced" /\ OrderKey(e) = OrderKey(f) /\ f.kind = "OrderPlaced"
  BY <1>1, <1>4
<1>6. Excludes(e, f) /\ Excludes(f, e)
  <2> HIDE DEF e, f
  <2> QED  BY <1>5 DEF Excludes
<1>7. N \in Nat /\ \A k \in 1..N : Len(ledger[k].events) \in Nat  BY LedgerTypes
<1>8. \A a \in 1..N : ledger[a].ok =>
        \A x \in 1..Len(ledger[a].events), b \in a..N : ledger[b].ok =>
          \A y \in 1..Len(ledger[b].events) :
            a < b \/ x < y => ~Excludes(ledger[a].events[x], ledger[b].events[y])
  BY DEF HistoryInv, HistorySound
<1>9. CASE n < s
  <2>1. s \in n..N  BY <1>1, <1>7, <1>9
  <2> QED  BY <1>1, <1>2, <1>3, <1>6, <1>8, <1>9, <2>1
<1>10. CASE s < n
  <2>1. n \in s..N  BY <1>1, <1>7, <1>10
  <2> QED  BY <1>1, <1>2, <1>3, <1>6, <1>8, <1>10, <2>1
<1>11. CASE n = s /\ i # j
  <2>1. n \in s..N /\ i \in 1..Len(ledger[s].events)  BY <1>1, <1>7, <1>11
  <2>2. i < j \/ j < i  BY <1>7, <1>11, <2>1
  <2> QED  BY <1>1, <1>2, <1>3, <1>6, <1>8, <1>11, <2>1, <2>2
<1>12. CASE n = s /\ i = j
  <2>1. f = e  BY <1>2, <1>12
  <2>2. UniqueKey(s, e) \in DOMAIN event_log  BY <1>4, <1>12, <2>1 DEF HasRow
  <2> QED  BY <2>2 DEF Duplicate, RowKey
<1>13. n \in Int /\ s \in Int  BY <1>1
<1> HIDE DEF s
<1> QED  BY <1>9, <1>10, <1>11, <1>12, <1>13

LEMMA RowsStayPlaced ==
  ASSUME RowsPlacedInv, ledger' = ledger, DOMAIN event_log \subseteq DOMAIN event_log',
         DOMAIN live_orders' \subseteq DOMAIN live_orders
  PROVE  RowsPlacedInv'
BY DEF RowsPlacedInv, HasRow, UniqueKey

LEMMA HandleShows ==
  ASSUME IndexInv, HistoryInv, ShownInv, Faults \cap {"db", "redis"} = {}, HandleEvent(Main)
  PROVE  ShownInv'
<1> DEFINE w == work[Main]
           v == work'[Main]
           t == live_orders
<1>0. WorkTyped /\ RowsPlacedInv /\ DiffSound(w, book, t) /\ Main \in Processes
  BY DEF IndexInv, CursorInv, ShownInv, Processes
<1>1. ledger' = ledger /\ DOMAIN event_log \subseteq DOMAIN event_log' /\ Todo # << >>
  BY HandleLogs
<1>2. /\ \A step : Goto(Main, step) =>
           /\ v.todo = w.todo /\ v.step = step
           /\ v.removed = w.removed /\ v.added = w.added
      /\ \A step, removed, added : Diff(Main, step, removed, added) =>
           /\ v.todo = w.todo /\ v.step = step
           /\ v.removed = w.removed \cup removed /\ v.added = w.added \cup added
      /\ Finish(Main) => v.step = "store" /\ v.removed = {} /\ v.added = {}
  BY <1>0, Goes
<1>3. RowsTyped(t)  BY DEF IndexInv, OrdersSound, RowsCover, RowCovers, RowsTyped
<1>4. Ev(Main) = Head(w.todo).event /\ Ev(Main) \in EventType
      /\ Key(Main) = OrderKey(Ev(Main)) /\ TakerKey(Main) = TakerOf(Ev(Main))
  <2>1. Ev(Main) \in EventType /\ Key(Main) = OrderKey(Ev(Main))
    BY <1>0, <1>1, Handled DEF IndexInv, Todo
  <2> QED  BY <2>1 DEF Ev, TakerKey, TakerOf
<1>5. w.step \in {"store", "cursor"} => ShowsBut(book, t, {})
  BY <1>0, SettledShows
<1>6. w.step = "store" => w.removed = {} /\ w.added = {}  BY <1>0 DEF DiffSound
<1> HIDE DEF w, v, t
<1>7. ASSUME DOMAIN live_orders' = DOMAIN live_orders, DiffSound(v, book', live_orders')
      PROVE  ShownInv'
  BY <1>0, <1>1, <1>7, RowsStayPlaced DEF ShownInv, v
<1>8. ASSUME Finish(Main), live_orders' = live_orders, book' = book, w.step \in {"store", "cursor"}
      PROVE  ShownInv'
  BY <1>2, <1>5, <1>7, <1>8, DoneShows DEF t
<1>9. CASE Store(Main)
  <2>1. w.step = "store"
    BY <1>9 DEF Store, StoreMarketInitialized, StoreWinningSideSet, StoreMarketClosed,
       StoreMetadataUpdated, StoreOrderPlaced, StoreOrderMatched, StoreOrderCancelled,
       StoreLogged, Stores, Handles, w
  <2>2. ShowsBut(book, t, {}) /\ w.removed = {} /\ w.added = {}  BY <1>5, <1>6, <2>1
  <2>3. CASE StoreOrderPlaced(Main)
    <3>1. CASE Finish(Main) /\ live_orders' = live_orders
      BY <1>8, <2>1, <2>3, <3>1 DEF StoreOrderPlaced
    <3>2. CASE /\ ~Duplicate(Main) /\ Logged(Main)
               /\ live_orders' = Placed(live_orders, Key(Main), Ev(Main).market_id,
                                        Ev(Main).quantity)
               /\ Diff(Main, "publish", {}, {<<Key(Main), Ev(Main).quantity>>})
      <4>1. book' = book /\ Ev(Main).kind = "OrderPlaced"
        BY <2>3 DEF StoreOrderPlaced, Stores
      <4>2. Key(Main) \notin DOMAIN live_orders  BY <1>0, <1>1, <3>2, <4>1, FreshKey
      <4>3. v.step = "publish" /\ v.removed = {} /\ v.added = {<<Key(Main), Ev(Main).quantity>>}
        BY <1>2, <2>2, <3>2
      <4>4. DiffSound(v, book', live_orders')
        BY <2>2, <3>2, <4>1, <4>2, <4>3, PlacedShows DEF t
      <4>5. RowsPlacedInv'
        <5>1. /\ Signature(Main) \in 1..Len(ledger) /\ ledger[Signature(Main)].ok
              /\ \E i \in 1..Len(ledger[Signature(Main)].events) :
                   Ev(Main) = ledger[Signature(Main)].events[i]
          BY <1>0, <1>1, Handled DEF IndexInv, Todo
        <5>2. PICK n \in 1..Len(ledger) : n = Signature(Main)  BY <5>1
        <5>3. PICK i \in 1..Len(ledger[n].events) : Ev(Main) = ledger[n].events[i]
          BY <5>1, <5>2
        <5>4. PICK k : k = Key(Main)  OBVIOUS
        <5>5. UniqueKey(n, ledger[n].events[i]) \in DOMAIN event_log'
          BY <3>2, <5>2, <5>3, LoggedAdds DEF RowKey
        <5>6. HasRow(n, i)' <=> UniqueKey(n, ledger'[n].events[i]) \in DOMAIN event_log'
          BY DEF HasRow, UniqueKey
        <5>7. /\ HasRow(n, i)' /\ ledger[n].ok /\ ledger[n].events[i].kind = "OrderPlaced"
              /\ OrderKey(ledger[n].events[i]) = k
          BY <1>1, <1>4, <4>1, <5>1, <5>2, <5>3, <5>4, <5>5, <5>6
        <5>8. DOMAIN live_orders' = DOMAIN live_orders \cup {k}
          BY <3>2, <5>4, PlacedRows
        <5>9. ASSUME NEW m, NEW j, HasRow(m, j) PROVE HasRow(m, j)'
          BY <1>1, <5>9 DEF HasRow, UniqueKey
        <5> QED  BY <1>0, <1>1, <5>7, <5>8, <5>9 DEF RowsPlacedInv
      <4> QED  BY <4>4, <4>5 DEF ShownInv, v
    <3> QED  BY <2>3, <3>1, <3>2 DEF StoreOrderPlaced, Skip
  <2>4. CASE StoreOrderMatched(Main)
    <3>1. CASE Finish(Main) /\ live_orders' = live_orders
      BY <1>8, <2>1, <2>4, <3>1 DEF StoreOrderMatched
    <3>2. CASE /\ live_orders' = Matched(live_orders, Key(Main), TakerKey(Main), Ev(Main).quantity,
                                         Ev(Main).taker_order_id # 0)
               /\ Goto(Main, "maker")
      <4>1. book' = book  BY <2>4 DEF StoreOrderMatched
      <4>2. v.todo = w.todo /\ v.step = "maker" /\ v.removed = {} /\ v.added = {}
        BY <1>2, <2>2, <3>2
      <4>3. Ev(Main).quantity \in Int /\ Ev(Main) = Head(v.todo).event
        BY <1>4, <4>2 DEF EventType
      <4>4. DiffSound(v, book, live_orders')
        BY <1>3, <1>4, <2>2, <3>2, <4>2, <4>3, MatchedShows DEF t
      <4>5. DOMAIN live_orders' = DOMAIN live_orders  BY <3>2, MatchedRows
      <4> QED  BY <1>7, <4>1, <4>4, <4>5
    <3> QED  BY <2>4, <3>1, <3>2 DEF StoreOrderMatched
  <2>5. CASE StoreOrderCancelled(Main)
    <3>1. CASE Finish(Main) /\ live_orders' = live_orders
      BY <1>8, <2>1, <2>5, <3>1 DEF StoreOrderCancelled
    <3>2. CASE /\ live_orders' = Cancelled(live_orders, Key(Main))
               /\ Diff(Main, "publish", {Key(Main)}, {})
      <4>1. book' = book  BY <2>5 DEF StoreOrderCancelled
      <4>2. v.step = "publish" /\ v.removed = {Key(Main)} /\ v.added = {}
        BY <1>2, <2>2, <3>2
      <4>3. DiffSound(v, book, live_orders')
        BY <1>3, <2>2, <3>2, <4>2, CancelledShows DEF t
      <4>4. DOMAIN live_orders' = DOMAIN live_orders  BY <3>2, CancelledRows
      <4> QED  BY <1>7, <4>1, <4>3, <4>4
    <3> QED  BY <2>5, <3>1, <3>2 DEF StoreOrderCancelled
  <2>6. CASE Goto(Main, "cursor") /\ live_orders' = live_orders /\ book' = book
    <3>1. v.step = "cursor"  BY <1>2, <2>6
    <3>2. DiffSound(v, book, live_orders)  BY <2>2, <3>1, CursorShows DEF t
    <3> QED  BY <1>7, <2>6, <3>2
  <2> QED
    BY <1>9, <2>3, <2>4, <2>5, <2>6 DEF Store, StoreMarketInitialized, StoreWinningSideSet,
       StoreMarketClosed, StoreMetadataUpdated, StoreLogged, UpdateMarket
<1>10. ASSUME w.step \in {"maker", "taker"}, live_orders' = live_orders, book' = book,
              NEW key \in UnreadKeys(w), NEW step \in {"taker", "publish"},
              ReadBack(Main, key, step),
              \A x : x.todo = w.todo /\ x.step = step =>
                 /\ UnreadKeys(x) \subseteq UnreadKeys(w)
                 /\ UnreadKeys(w) \subseteq UnreadKeys(x) \cup {key}
       PROVE  ShownInv'
  <2>1. key \in DOMAIN t => t[key].status \in {"partially_filled", "filled"}
    BY <1>0, <1>10 DEF DiffSound
  <2>2. \/ key \notin DOMAIN t /\ Goto(Main, step)
        \/ /\ key \in DOMAIN t /\ t[key].status = "partially_filled"
           /\ Diff(Main, step, {key}, {<<key, t[key].remaining_quantity>>})
        \/ key \in DOMAIN t /\ t[key].status = "filled" /\ Diff(Main, step, {key}, {})
    BY <1>10, <2>1 DEF ReadBack, t
  <2>3. /\ v.todo = w.todo /\ v.step = step
        /\ \/ key \notin DOMAIN t /\ v.removed = w.removed /\ v.added = w.added
           \/ /\ key \in DOMAIN t /\ t[key].status = "partially_filled"
              /\ v.removed = w.removed \cup {key}
              /\ v.added = w.added \cup {<<key, t[key].remaining_quantity>>}
           \/ /\ key \in DOMAIN t /\ t[key].status = "filled"
              /\ v.removed = w.removed \cup {key} /\ v.added = w.added
    <3>1. CASE key \notin DOMAIN t /\ Goto(Main, step)  BY <1>2, <3>1
    <3>2. CASE /\ key \in DOMAIN t /\ t[key].status = "partially_filled"
               /\ Diff(Main, step, {key}, {<<key, t[key].remaining_quantity>>})
      BY <1>2, <3>2
    <3>3. CASE key \in DOMAIN t /\ t[key].status = "filled" /\ Diff(Main, step, {key}, {})
      <4>1. /\ v.todo = w.todo /\ v.step = step
            /\ v.removed = w.removed \cup {key} /\ v.added = w.added \cup {}
        BY <1>2, <3>3
      <4> QED  BY <3>3, <4>1
    <3> QED  BY <2>2, <3>1, <3>2, <3>3
  <2>4. UnreadKeys(v) \subseteq UnreadKeys(w) /\ UnreadKeys(w) \subseteq UnreadKeys(v) \cup {key}
    BY <1>10, <2>3
  <2>5. DiffSound(v, book, t)  BY <1>0, <1>10, <2>3, <2>4, ReadShows
  <2> QED  BY <1>7, <1>10, <2>5 DEF t
<1>11. CASE ReadMaker(Main)
  <2> DEFINE step == AfterMaker(Main)
  <2>1. w.step = "maker" /\ ReadBack(Main, Key(Main), step)
    BY <1>11 DEF ReadMaker, Handles, w
  <2>2. UnreadKeys(w) = {Key(Main)} \cup
          (IF Ev(Main).taker_order_id # 0 THEN {TakerKey(Main)} ELSE {})
    BY <1>4, <2>1 DEF UnreadKeys
  <2>3. \A x : x.todo = w.todo /\ x.step = step =>
          UnreadKeys(x) = IF Ev(Main).taker_order_id # 0 THEN {TakerKey(Main)} ELSE {}
    BY <1>4 DEF UnreadKeys, AfterMaker
  <2>4. step \in {"taker", "publish"}  BY DEF AfterMaker
  <2> HIDE DEF step
  <2> QED  BY <1>10, <1>11, <2>1, <2>2, <2>3, <2>4 DEF ReadMaker
<1>12. CASE ReadTaker(Main)
  <2>1. w.step = "taker" /\ ReadBack(Main, TakerKey(Main), "publish")
    BY <1>12 DEF ReadTaker, Handles, w
  <2>2. UnreadKeys(w) = {TakerKey(Main)}  BY <1>4, <2>1 DEF UnreadKeys
  <2>3. \A x : x.step = "publish" => UnreadKeys(x) = {}  BY DEF UnreadKeys
  <2> QED  BY <1>10, <1>12, <2>1, <2>2, <2>3 DEF ReadTaker
<1>13. CASE PublishDiff(Main)
  <2>1. w.step = "publish" /\ Goto(Main, "cursor") /\ live_orders' = live_orders
        /\ book' = {entry \in book : entry[1] \notin w.removed} \cup w.added
    BY <1>13 DEF PublishDiff, Handles, w
  <2>2. v.step = "cursor"  BY <1>2, <2>1
  <2>3. DiffSound(v, book', t)  BY <1>0, <2>1, <2>2, PublishedShows
  <2> QED  BY <1>7, <2>1, <2>3 DEF t
<1>14. CASE UpdateCursor(Main)
  BY <1>8, <1>14 DEF UpdateCursor, Handles, w
<1> QED
  BY <1>9, <1>11, <1>12, <1>13, <1>14 DEF HandleEvent, RedisUnavailable, DatabaseFails, Fault

LEMMA MainShows ==
  ASSUME IndexInv, ShownInv, MainStep
  PROVE  ShownInv'
<1>0. WorkTyped /\ WorkLogged /\ RowsPlacedInv /\ DiffSound(work[Main], book, live_orders)
      /\ Main \in Processes
  BY DEF IndexInv, CursorInv, ShownInv, Processes
<1>1. /\ ledger' = ledger /\ event_log' = event_log /\ live_orders' = live_orders /\ book' = book
  BY DEF MainStep, db
<1>2. RowsPlacedInv'  BY <1>0, <1>1, RowsStayPlaced
<1>3. CASE work' = work  BY <1>0, <1>1, <1>2, <1>3 DEF ShownInv
<1>4. ASSUME NEW n, Takes(n), MainIdle PROVE ShownInv'
  <2> DEFINE w == work[Main]
             v == work'[Main]
  <2>1. w.step = "store"  BY <1>0, <1>4 DEF WorkLogged, MainIdle
  <2>2. v.step = w.step /\ v.removed = w.removed /\ v.added = w.added
    BY <1>0, <1>4 DEF Takes, WorkTyped
  <2> HIDE DEF v
  <2>3. w.removed = {} /\ w.added = {} /\ ShowsBut(book, live_orders, {})
    BY <1>0, <2>1, SettledShows DEF DiffSound
  <2>4. DiffSound(v, book, live_orders)  BY <2>1, <2>2, <2>3, DoneShows
  <2> QED  BY <1>1, <1>2, <2>4 DEF ShownInv, v
<1>5. work' = work \/ (MainIdle /\ \E n : Takes(n))
  BY DEF MainStep, ReadCursor, ListSignatures, FetchTransaction, EndBackfill, Subscribe,
     Receive, Disconnect
<1> QED  BY <1>3, <1>4, <1>5

LEMMA StepShown ==
  ASSUME Tasks = {}, Faults \cap {"crash", "db", "redis"} = {}
  PROVE  IndexInv /\ HistoryInv /\ ShownInv /\ [Next]_vars => ShownInv'
<1> SUFFICES ASSUME IndexInv, HistoryInv, ShownInv, [Next]_vars PROVE ShownInv'
  OBVIOUS
<1>1. CASE UNCHANGED vars
  <2>1. /\ ledger' = ledger /\ event_log' = event_log /\ live_orders' = live_orders
        /\ book' = book /\ work' = work
    BY <1>1 DEF vars, db
  <2>2. RowsPlacedInv'  BY <2>1, RowsStayPlaced DEF ShownInv
  <2> QED  BY <2>1, <2>2 DEF ShownInv
<1>2. CASE NewTransaction
  <2>1. /\ event_log' = event_log /\ live_orders' = live_orders /\ book' = book /\ work' = work
    BY <1>2 DEF NewTransaction, db
  <2>2. PICK tx : ledger' = Append(ledger, tx)  BY <1>2 DEF NewTransaction, Transact, Commit
  <2>3. PICK S : ledger \in Seq(S)
    BY DEF IndexInv, ChainSound, LedgerSound, LedgerTyped
  <2>4. /\ Len(ledger') = Len(ledger) + 1 /\ Len(ledger) \in Nat
        /\ \A n \in 1..Len(ledger) : ledger'[n] = ledger[n]
    <3>1. ledger \in Seq(S \cup {tx})  BY <2>3, SeqMonotonic
    <3> QED  BY <2>2, <3>1, AppendProperties
  <2>5. \A n \in 1..Len(ledger) : n \in 1..Len(ledger')  BY <2>4
  <2>6. ASSUME NEW n \in 1..Len(ledger), NEW i, HasRow(n, i) PROVE HasRow(n, i)'
    BY <2>1, <2>4, <2>6 DEF HasRow, UniqueKey
  <2>7. RowsPlacedInv'
    BY <2>1, <2>4, <2>5, <2>6 DEF RowsPlacedInv, ShownInv
  <2> QED  BY <2>1, <2>7 DEF ShownInv
<1>3. CASE MainStep  BY <1>3, MainShows
<1>4. ASSUME NEW p \in Processes, HandleEvent(p) PROVE ShownInv'
  BY <1>4, HandleShows DEF Processes
<1> QED  BY <1>1, <1>2, <1>3, <1>4 DEF Next, Crash, Fault

\* With main as the only source, and as long as no write, publication or
\* process fails, a subscriber of the diffs holds what the table lists, over
\* gaps in the stream, redeliveries, backfills and whatever the RPC leaves out.
THEOREM DiffsCorrect ==
  ASSUME Tasks = {}, Faults \cap {"crash", "db", "redis"} = {}
  PROVE  Spec => []DiffsFollowTable
<1>1. Init => ShownInv
  <2> SUFFICES ASSUME Init PROVE ShownInv
    OBVIOUS
  <2>1. work[Main] = Idle /\ book = {} /\ live_orders = << >>
    BY DEF Init, Processes, EmptyTable
  <2>2. DOMAIN live_orders = {}  BY <2>1
  <2>3. ShowsBut(book, live_orders, {})  BY <2>1, <2>2, EntriesAre DEF ShowsBut
  <2>4. DiffSound(work[Main], book, live_orders)  BY <2>1, <2>3, DoneShows DEF Idle
  <2> QED  BY <2>2, <2>4 DEF ShownInv, RowsPlacedInv
<1>2. IndexInv /\ ShownInv => DiffsFollowTable
  <2> SUFFICES ASSUME IndexInv, ShownInv, MainIdle PROVE book = ListedEntries
    BY DEF DiffsFollowTable, CaughtUp
  <2>1. work[Main].step = "store"
    BY DEF IndexInv, CursorInv, WorkLogged, MainIdle, Processes
  <2>2. ShowsBut(book, live_orders, {})  BY <2>1, SettledShows DEF ShownInv
  <2>3. \A x \in book : \E key, q : x = <<key, q>>
    BY DEF IndexInv, TablesSound, Entries
  <2>4. ListedEntries = EntriesOf(live_orders)  BY DEF ListedEntries, EntriesOf
  <2>5. \A key, q : <<key, q>> \in book <=> <<key, q>> \in EntriesOf(live_orders)
    BY <2>2 DEF ShowsBut
  <2>6. \A x \in EntriesOf(live_orders) : \E key, q : x = <<key, q>>
    BY EntriesAre
  <2>7. ASSUME NEW x PROVE x \in book <=> x \in EntriesOf(live_orders)
    BY <2>3, <2>5, <2>6
  <2> QED  BY <2>4, <2>7
<1>3. IndexInv /\ HistoryInv /\ ShownInv /\ [Next]_vars => ShownInv'
  BY StepShown
<1> QED  BY <1>1, <1>2, <1>3, IndexInvariant, HistoryInvariant, PTL DEF Spec

-----------------------------------------------------------------------------
(* The tables of a single source that misses nothing *)

RowMatches(row, o) ==
  /\ row.remaining_quantity = o.left
  /\ row.status \in IF o.resting THEN {"open", "partially_filled"} ELSE {"filled", "cancelled"}
RowsMatch(t, orders) ==
  DOMAIN t = DOMAIN orders /\ \A key \in DOMAIN t : RowMatches(t[key], orders[key])

LEMMA PlacedMatches ==
  ASSUME NEW t, NEW o, RowsMatch(t, o), NEW key, key \notin DOMAIN o, NEW m, NEW q
  PROVE  RowsMatch(Placed(t, key, m, q),
                   With(o, key, [quantity |-> q, left |-> q, resting |-> TRUE]))
<1> DEFINE u == Placed(t, key, m, q)
           p == With(o, key, [quantity |-> q, left |-> q, resting |-> TRUE])
<1>1. /\ DOMAIN u = DOMAIN t \cup {key} /\ \A k \in DOMAIN t : u[k] = t[k]
      /\ key \notin DOMAIN t => u[key].status = "open" /\ u[key].remaining_quantity = q
  BY DEF Placed, Inserted
<1>2. /\ DOMAIN p = DOMAIN o \cup {key} /\ \A k \in DOMAIN o : k # key => p[k] = o[k]
      /\ p[key].left = q /\ p[key].resting = TRUE
  BY DEF With
<1> HIDE DEF u, p
<1>3. RowsMatch(u, p)  BY <1>1, <1>2 DEF RowsMatch, RowMatches
<1> QED  BY <1>3 DEF u, p

LEMMA CancelledMatches ==
  ASSUME NEW t, RowsTyped(t), NEW o, RowsMatch(t, o), \A k \in DOMAIN o : o[k] \in OrderState,
         NEW key \in DOMAIN o
  PROVE  RowsMatch(Cancelled(t, key), [o EXCEPT ![key].resting = FALSE])
<1> DEFINE u == Cancelled(t, key)
           p == [o EXCEPT ![key].resting = FALSE]
<1>1. /\ DOMAIN u = DOMAIN t /\ \A k \in DOMAIN t : k # key => u[k] = t[k]
      /\ u[key] = [t[key] EXCEPT !.status = "cancelled"]
  BY DEF Cancelled, RowsMatch
<1>2. t[key] \in RowType /\ o[key] \in OrderState  BY DEF RowsTyped, RowsMatch
<1>3. u[key].status = "cancelled" /\ u[key].remaining_quantity = t[key].remaining_quantity
  <2> HIDE DEF u
  <2> QED  BY <1>1, <1>2 DEF RowType
<1>4. /\ DOMAIN p = DOMAIN o /\ \A k \in DOMAIN o : k # key => p[k] = o[k]
      /\ p[key].left = o[key].left /\ ~p[key].resting
  BY <1>2 DEF OrderState
<1> HIDE DEF u, p
<1>5. RowsMatch(u, p)  BY <1>1, <1>3, <1>4 DEF RowsMatch, RowMatches
<1> QED  BY <1>5 DEF u, p

LEMMA ReducedMatches ==
  ASSUME NEW t, RowsTyped(t), NEW o, RowsMatch(t, o), NEW key \in DOMAIN o,
         o[key].left \in Nat, NEW n \in Nat, n <= o[key].left
  PROVE  RowsMatch(Reduced(t, key, n), Paid(o, key, n))
<1> DEFINE u == Reduced(t, key, n)
           p == Paid(o, key, n)
           left == t[key].remaining_quantity - n
           status == IF left <= 0 THEN "filled" ELSE "partially_filled"
           was == o[key].left
<1>1. /\ DOMAIN u = DOMAIN t /\ \A k \in DOMAIN t : k # key => u[k] = t[k]
      /\ u[key] = [t[key] EXCEPT !.remaining_quantity = left, !.status = status]
  BY DEF Reduced, RowsMatch
<1>2. t[key] \in RowType /\ t[key].remaining_quantity = was
  BY DEF RowsTyped, RowsMatch, RowMatches
<1>3. u[key].remaining_quantity = left /\ u[key].status = status
  <2> HIDE DEF u, left, status
  <2> QED  BY <1>1, <1>2 DEF RowType
<1>4. /\ DOMAIN p = DOMAIN o /\ \A k \in DOMAIN o : k # key => p[k] = o[k]
      /\ p[key].left = was - n /\ (p[key].resting <=> was > n)
  BY DEF Paid
<1>5. left = was - n  BY <1>2
<1>6. status = IF left <= 0 THEN "filled" ELSE "partially_filled"  OBVIOUS
<1>7. was \in Nat  OBVIOUS
<1> HIDE DEF u, p, left, status, was
<1>8. RowMatches(u[key], p[key])
  <2>1. CASE was > n
    <3>1. left > 0  BY <1>5, <1>7, <2>1
    <3> QED  BY <1>3, <1>4, <1>5, <1>6, <1>7, <2>1, <3>1 DEF RowMatches
  <2>2. CASE ~(was > n)
    <3>1. left <= 0  BY <1>5, <1>7, <2>2
    <3>2. ~p[key].resting  BY <1>4, <2>2
    <3> QED  BY <1>3, <1>4, <1>5, <1>6, <3>1, <3>2 DEF RowMatches
  <2> QED  BY <2>1, <2>2
<1>9. RowsMatch(u, p)  BY <1>1, <1>4, <1>8 DEF RowsMatch
<1> QED  BY <1>9 DEF u, p

LEMMA MatchedMatches ==
  ASSUME NEW t, RowsTyped(t), NEW o, RowsMatch(t, o),
         \A k \in DOMAIN o : o[k].left \in Nat,
         NEW maker \in DOMAIN o, NEW taker, NEW n \in Nat, n <= o[maker].left,
         NEW limit \in BOOLEAN,
         limit => taker \in DOMAIN o /\ n <= o[taker].left /\ maker # taker
  PROVE  RowsMatch(Matched(t, maker, taker, n, limit),
                   IF limit THEN Paid(Paid(o, maker, n), taker, n) ELSE Paid(o, maker, n))
<1> DEFINE r == Reduced(t, maker, n)
           p == Paid(o, maker, n)
<1>1. RowsMatch(r, p)  BY ReducedMatches
<1>2. RowsTyped(r)  BY ReducedIs
<1>3. DOMAIN p = DOMAIN o /\ (limit => p[taker] = o[taker])  BY DEF Paid
<1>4. Matched(t, maker, taker, n, limit) = IF limit THEN Reduced(r, taker, n) ELSE r
  BY DEF Matched
<1> HIDE DEF r, p
<1>5. limit => RowsMatch(Reduced(r, taker, n), Paid(p, taker, n))
  <2> SUFFICES ASSUME limit PROVE RowsMatch(Reduced(r, taker, n), Paid(p, taker, n))
    OBVIOUS
  <2>1. taker \in DOMAIN p /\ p[taker].left \in Nat /\ n <= p[taker].left  BY <1>3
  <2> QED  BY <1>1, <1>2, <2>1, ReducedMatches
<1>6. CASE limit  BY <1>4, <1>5, <1>6 DEF p
<1>7. CASE ~limit  BY <1>1, <1>4, <1>7 DEF p
<1> QED  BY <1>6, <1>7

\* The tables as the accounts: the orders only where no transaction says two
\* things of a kind, for one UNIQUE key would hold both.
Told(t, m, c) ==
  /\ m = c.markets
  /\ InstructionsPerTx = 1 => RowsMatch(t, c.orders)

\* One event stored as the accounts say, or given up because it was there.
LEMMA StoreTold ==
  ASSUME IndexInv, NEW c, ChainTyped(c), NEW d, Tells(c, Ev(Main), d),
         Told(live_orders, markets, c), Todo # << >>,
         InstructionsPerTx = 1 => ~Duplicate(Main), Store(Main)
  PROVE  /\ Told(live_orders', markets', d)
         /\ DOMAIN event_log' \subseteq DOMAIN event_log \cup {RowKey(Main)}
         /\ \/ \E step : step # "store" /\ Goto(Main, step)
            \/ \E removed, added : Diff(Main, "publish", removed, added)
            \/ Finish(Main)
<1> DEFINE e == Ev(Main)
           t == live_orders
           o == c.orders
<1>1. /\ Finds(c, e) /\ d.orders = OrdersWith(o, e) /\ d.markets = MarketsWith(c.markets, e)
      /\ markets = c.markets
  BY DEF Tells, Told
<1>2. e \in EventType /\ Key(Main) = OrderKey(e) /\ TakerKey(Main) = TakerOf(e)
  BY Handled DEF IndexInv, Processes, Todo, TakerKey, TakerOf
<1>3. RowsTyped(t)  BY DEF IndexInv, OrdersSound, RowsCover, RowCovers, RowsTyped
<1>4. /\ \A k \in DOMAIN o : o[k] \in OrderState
      /\ \A k \in DOMAIN o : o[k].left \in Nat
      /\ \A m \in DOMAIN markets : markets[m] \in MarketRows
  BY <1>1 DEF ChainTyped, OrderState
<1>5. InstructionsPerTx = 1 => RowsMatch(t, o)  BY DEF Told
<1>6. Logged(Main) => DOMAIN event_log' = DOMAIN event_log \cup {RowKey(Main)}
  BY LoggedAdds
<1>7. CASE StoreOrderPlaced(Main)
  <2>1. e.kind = "OrderPlaced" /\ markets' = markets  BY <1>7 DEF StoreOrderPlaced, Stores
  <2>2. /\ d.markets = c.markets /\ MarketKnown(Main) /\ OrderKey(e) \notin DOMAIN o
        /\ d.orders = With(o, OrderKey(e), [quantity |-> e.quantity, left |-> e.quantity,
                                            resting |-> TRUE])
    BY <1>1, <2>1 DEF Finds, OrdersWith, MarketsWith, MarketKnown
  <2>3. CASE Duplicate(Main) /\ Finish(Main) /\ UNCHANGED <<event_log, live_orders>>
    BY <1>1, <2>1, <2>2, <2>3 DEF Told
  <2>4. CASE /\ Logged(Main)
             /\ live_orders' = Placed(live_orders, Key(Main), Ev(Main).market_id, Ev(Main).quantity)
             /\ Diff(Main, "publish", {}, {<<Key(Main), Ev(Main).quantity>>})
    <3>1. InstructionsPerTx = 1 => RowsMatch(live_orders', d.orders)
      BY <1>2, <1>5, <2>2, <2>4, PlacedMatches
    <3> QED  BY <1>1, <1>6, <2>1, <2>2, <2>4, <3>1 DEF Told
  <2> QED  BY <1>7, <2>2, <2>3, <2>4 DEF StoreOrderPlaced
<1>8. CASE StoreOrderMatched(Main)
  <2> DEFINE limit == e.taker_order_id # 0
             n == e.quantity
  <2>1. e.kind = "OrderMatched" /\ markets' = markets  BY <1>8 DEF StoreOrderMatched, Stores
  <2>2. d.markets = c.markets  BY <1>1, <2>1 DEF MarketsWith
  <2>3. d.orders = IF limit THEN Paid(Paid(o, OrderKey(e), n), TakerOf(e), n)
                   ELSE Paid(o, OrderKey(e), n)
    BY <1>1, <2>1 DEF OrdersWith
  <2>4. CASE Duplicate(Main) /\ Finish(Main) /\ UNCHANGED <<event_log, live_orders>>
    BY <1>1, <2>1, <2>2, <2>4 DEF Told
  <2>5. CASE /\ Logged(Main)
             /\ live_orders' = Matched(live_orders, Key(Main), TakerKey(Main), Ev(Main).quantity,
                                       Ev(Main).taker_order_id # 0)
             /\ Goto(Main, "maker")
    <3>1. /\ OrderKey(e) \in DOMAIN o /\ n <= o[OrderKey(e)].left /\ n \in Nat
          /\ limit => /\ TakerOf(e) \in DOMAIN o /\ n <= o[TakerOf(e)].left
                      /\ OrderKey(e) # TakerOf(e)
      BY <1>1, <1>2, <2>1 DEF Finds, Fillable, EventType
    <3>2. live_orders' = Matched(t, OrderKey(e), TakerOf(e), n, limit)  BY <1>2, <2>5
    <3> HIDE DEF limit, n
    <3>3. limit \in BOOLEAN  BY DEF limit
    <3>4. InstructionsPerTx = 1 => RowsMatch(live_orders', d.orders)
      BY <1>3, <1>4, <1>5, <2>3, <3>1, <3>2, <3>3, MatchedMatches
    <3> QED  BY <1>1, <1>6, <2>1, <2>2, <2>5, <3>4 DEF Told
  <2> QED  BY <1>8, <2>4, <2>5 DEF StoreOrderMatched
<1>9. CASE StoreOrderCancelled(Main)
  <2>1. e.kind = "OrderCancelled" /\ markets' = markets
    BY <1>9 DEF StoreOrderCancelled, Stores
  <2>2. /\ d.markets = c.markets /\ OrderKey(e) \in DOMAIN o
        /\ d.orders = [o EXCEPT ![OrderKey(e)].resting = FALSE]
    BY <1>1, <2>1 DEF MarketsWith, OrdersWith, Finds
  <2>3. CASE Duplicate(Main) /\ Finish(Main) /\ UNCHANGED <<event_log, live_orders>>
    BY <1>1, <2>1, <2>2, <2>3 DEF Told
  <2>4. CASE /\ Logged(Main) /\ live_orders' = Cancelled(live_orders, Key(Main))
             /\ Diff(Main, "publish", {Key(Main)}, {})
    <3>1. InstructionsPerTx = 1 => RowsMatch(live_orders', d.orders)
      BY <1>2, <1>3, <1>4, <1>5, <2>2, <2>4, CancelledMatches
    <3> QED  BY <1>1, <1>6, <2>1, <2>2, <2>4, <3>1 DEF Told
  <2> QED  BY <1>9, <2>3, <2>4 DEF StoreOrderCancelled
<1>10. ASSUME e.kind \notin OrderEvents, live_orders' = live_orders, Logged(Main),
              Goto(Main, "cursor"), markets' = MarketsWith(markets, e)
       PROVE  /\ Told(live_orders', markets', d)
              /\ DOMAIN event_log' \subseteq DOMAIN event_log \cup {RowKey(Main)}
              /\ \E step : step # "store" /\ Goto(Main, step)
  <2>1. d.orders = o  BY <1>1, <1>10 DEF OrdersWith, OrderEvents
  <2> QED  BY <1>1, <1>5, <1>6, <1>10, <2>1 DEF Told
<1>11. CASE StoreMarketInitialized(Main)
  <2>1. e.kind = "MarketInitialized" /\ e.market_id \notin DOMAIN markets
    BY <1>1, <1>11 DEF StoreMarketInitialized, Stores, Finds
  <2>2. markets' = MarketsWith(markets, e)
    BY <1>11, <2>1 DEF StoreMarketInitialized, MarketsWith, With, Inserted
  <2> QED  BY <1>10, <1>11, <2>1, <2>2 DEF StoreMarketInitialized, OrderEvents
<1>12. ASSUME NEW row, UpdateMarket(Main, row), e.market_id \in DOMAIN markets
       PROVE  /\ markets' = [markets EXCEPT ![e.market_id] = row]
              /\ live_orders' = live_orders /\ Logged(Main) /\ Goto(Main, "cursor")
  BY <1>12 DEF UpdateMarket, MarketKnown
<1>13. CASE StoreWinningSideSet(Main)
  <2>1. e.kind = "WinningSideSet" /\ e.market_id \in DOMAIN markets
        /\ UpdateMarket(Main, [Row(Main) EXCEPT !.status = "settled"])
    BY <1>1, <1>13 DEF StoreWinningSideSet, Stores, Finds
  <2>2. markets' = MarketsWith(markets, e)  BY <1>12, <2>1 DEF MarketsWith, Row
  <2> QED  BY <1>10, <1>12, <2>1, <2>2 DEF OrderEvents
<1>14. CASE StoreMarketClosed(Main)
  <2>1. e.kind = "MarketClosed" /\ e.market_id \in DOMAIN markets
        /\ UpdateMarket(Main, [Row(Main) EXCEPT !.status = "closed"])
    BY <1>1, <1>14 DEF StoreMarketClosed, Stores, Finds
  <2>2. markets' = MarketsWith(markets, e)  BY <1>12, <2>1 DEF MarketsWith, Row
  <2> QED  BY <1>10, <1>12, <2>1, <2>2 DEF OrderEvents
<1>15. CASE StoreMetadataUpdated(Main)
  <2>1. e.kind = "MetadataUpdated" /\ e.market_id \in DOMAIN markets
        /\ UpdateMarket(Main, [Row(Main) EXCEPT !.meta_data_url = e.quantity])
    BY <1>1, <1>15 DEF StoreMetadataUpdated, Stores, Finds
  <2>2. markets' = MarketsWith(markets, e)  BY <1>12, <2>1 DEF MarketsWith, Row
  <2> QED  BY <1>10, <1>12, <2>1, <2>2 DEF OrderEvents
<1>16. CASE StoreLogged(Main)
  <2>1. e.kind \in LoggedEvents  BY <1>16 DEF StoreLogged, Stores
  <2>2. MarketsWith(markets, e) = markets /\ e.kind \notin OrderEvents
    BY <2>1 DEF MarketsWith, LoggedEvents, OrderEvents
  <2> QED  BY <1>10, <1>16, <2>2 DEF StoreLogged
<1> QED  BY <1>7, <1>8, <1>9, <1>11, <1>13, <1>14, <1>15, <1>16 DEF Store

\* With one instruction in a transaction, its events differ in kind.
KindsDiffer(s) == \A i, j \in 1..Len(s) : i # j => s[i].kind # s[j].kind
KindsInv == InstructionsPerTx = 1 => \A n \in 1..Len(ledger) : KindsDiffer(ledger[n].events)

LEMMA TransactionKinds ==
  ASSUME InstructionsPerTx = 1, NEW c, ChainTyped(c), NEW t \in Transactions(c)
  PROVE  KindsDiffer(t.events)
<1>1. t \in Outcomes(c)  BY DEF Transactions
<1>2. Performs(c, t)  BY <1>1, OutcomePerforms
<1>3. ASSUME NEW e, t.events = <<e>> PROVE KindsDiffer(t.events)
  BY <1>3 DEF KindsDiffer
<1>4. ASSUME NEW e, NEW f, t.events = <<e, f>>, e.kind # f.kind PROVE KindsDiffer(t.events)
  BY <1>4 DEF KindsDiffer
<1> QED  BY <1>2, <1>3, <1>4 DEF Performs

LEMMA LedgerLonger ==
  ASSUME IndexInv, Transact
  PROVE  /\ Len(ledger') = Len(ledger) + 1 /\ Len(ledger) \in Nat
         /\ \A n \in 1..Len(ledger) : ledger'[n] = ledger[n]
         /\ \E t \in Transactions(chain) : ledger'[Len(ledger')].events = t.events
<1>1. PICK t \in Transactions(chain) : Commit(TRUE, t) \/ Commit(FALSE, t)
  BY DEF Transact
<1>2. PICK tx : ledger' = Append(ledger, tx) /\ tx.events = t.events
  BY <1>1 DEF Commit
<1>3. PICK S : ledger \in Seq(S)
  BY DEF IndexInv, ChainSound, LedgerSound, LedgerTyped
<1>4. ledger \in Seq(S \cup {tx})  BY <1>3, SeqMonotonic
<1>5. /\ Len(ledger') = Len(ledger) + 1 /\ Len(ledger) \in Nat
      /\ \A n \in 1..Len(ledger) : ledger'[n] = ledger[n]
      /\ ledger'[Len(ledger) + 1] = tx
  BY <1>2, <1>4, AppendProperties
<1> QED  BY <1>2, <1>5

LEMMA StepKinds == IndexInv /\ KindsInv /\ [Next]_vars => KindsInv'
<1> SUFFICES ASSUME IndexInv, KindsInv, [Next]_vars PROVE KindsInv'
  OBVIOUS
<1>1. CASE ledger' = ledger
  BY <1>1 DEF KindsInv
<1>2. CASE NewTransaction
  <2>1. ChainTyped(chain)  BY DEF IndexInv, ChainSound, LedgerSound
  <2>2. PICK t \in Transactions(chain) : ledger'[Len(ledger')].events = t.events
    BY <1>2, LedgerLonger DEF NewTransaction
  <2>3. InstructionsPerTx = 1 => KindsDiffer(ledger'[Len(ledger')].events)
    BY <2>1, <2>2, TransactionKinds
  <2>4. \A n \in 1..Len(ledger') :
          n = Len(ledger') \/ (n \in 1..Len(ledger) /\ ledger'[n] = ledger[n])
    BY <1>2, LedgerLonger DEF NewTransaction
  <2> QED  BY <2>3, <2>4 DEF KindsInv
<1> QED
  BY <1>1, <1>2 DEF Next, MainStep, HandleEvent, WebhookPost, Crash, vars

\* Of transaction K only the first n events are in the log.
OnlyKeys(keys, K, events, n) ==
  \A key \in keys : key[2] = K => \E j \in 1..n : key = UniqueKey(K, events[j])

\* The transaction in hand, of whose events h are done with and st tells the
\* accounts after each.
Underway(h, st) ==
  LET K == main.at - 1
      events == ledger[K].events
      stored == IF work[Main].step = "store" THEN h ELSE h + 1
  IN /\ K \in 1..Len(ledger) /\ ledger[K].ok
     /\ Path(Before(ledger, K), events, ledger[K].after, st)
     /\ h \in Nat /\ h < Len(events) /\ Len(Todo) = Len(events) - h
     /\ \A i \in 1..Len(Todo) : Todo[i] = [signature |-> K, event |-> events[h + i]]
     /\ Told(live_orders, markets, st[stored])
     /\ OnlyKeys(DOMAIN event_log, K, events, stored)

\* Before main listens there is nothing to miss; from then on the tables are
\* the accounts after what main was given and is done with.
FollowInv ==
  /\ main.step \in {"boot", "connect", "listen", "pending"}
  /\ main.step \in {"boot", "connect"} =>
       /\ ledger = << >> /\ Todo = << >> /\ markets = << >> /\ DOMAIN live_orders = {}
       /\ DOMAIN event_log = {} /\ indexer_cursor = 0
  /\ main.step = "listen" =>
       /\ main.at \in 1..(Len(ledger) + 1)
       /\ main.seen_signatures \subseteq 1..(main.at - 1)
       /\ \A key \in DOMAIN event_log : key[2] < main.at
       /\ IF Todo = << >> THEN Told(live_orders, markets, Before(ledger, main.at))
          ELSE \E h, st : Underway(h, st)

\* The event in hand is stored, if it was not, and the next is taken or not.
LEMMA Proceeds ==
  ASSUME IndexInv, FollowInv, main.step = "listen", NEW h, NEW st, Underway(h, st),
         main' = main, ledger' = ledger, Told(live_orders', markets', st[h + 1]),
         DOMAIN event_log' \subseteq DOMAIN event_log \cup {RowKey(Main)},
         \/ Todo' = Todo /\ work'[Main].step # "store"
         \/ Todo' = Tail(Todo) /\ work'[Main].step = "store"
  PROVE  FollowInv'
<1> DEFINE K == main.at - 1
           events == ledger[K].events
           N == Len(events)
           t == Todo
<1>1. /\ K \in 1..Len(ledger) /\ ledger[K].ok
      /\ Path(Before(ledger, K), events, ledger[K].after, st)
      /\ h \in Nat /\ h < N /\ Len(t) = N - h
      /\ \A i \in 1..Len(t) : t[i] = [signature |-> K, event |-> events[h + i]]
      /\ OnlyKeys(DOMAIN event_log, K, events, h + 1)
  <2> DEFINE stored == IF work[Main].step = "store" THEN h ELSE h + 1
  <2>1. /\ K \in 1..Len(ledger) /\ ledger[K].ok
        /\ Path(Before(ledger, K), events, ledger[K].after, st)
        /\ h \in Nat /\ h < N /\ Len(t) = N - h
        /\ \A i \in 1..Len(t) : t[i] = [signature |-> K, event |-> events[h + i]]
        /\ OnlyKeys(DOMAIN event_log, K, events, stored)
    BY DEF Underway
  <2>2. OnlyKeys(DOMAIN event_log, K, events, h + 1)
    <3>1. \A j \in 1..stored : j \in 1..(h + 1)  BY <2>1
    <3> QED  BY <2>1, <3>1 DEF OnlyKeys
  <2> HIDE DEF stored, K, events, N, t
  <2> QED  BY <2>1, <2>2
<1>2. Len(ledger) \in Nat /\ N \in Nat /\ t \in Seq(Deliveries(ledger))
  BY <1>1, LedgerTypes, TodoTyped
<1> DEFINE T == Len(t)
<1>14. h \in Nat /\ h < N /\ T = N - h /\ N \in Nat /\ T \in Nat
  BY <1>1, <1>2
<1>3. main.at \in Int /\ main.at = K + 1 /\ K \in Nat
  BY <1>1, <1>2 DEF FollowInv
<1>4. st[N] = ledger[K].after  BY <1>1 DEF Path
<1>5. Before(ledger, main.at) = ledger[K].after
  BY <1>1, <1>3 DEF Before
<1>6. /\ main.at \in 1..(Len(ledger) + 1) /\ main.seen_signatures \subseteq 1..(main.at - 1)
      /\ \A key \in DOMAIN event_log : key[2] < main.at
  BY DEF FollowInv
<1> HIDE DEF K, events, N, t, T
<1>7. 1 \in 1..Len(t) /\ Len(t) \in Nat /\ t # << >>
  <2>1. Len(t) \in Nat /\ Len(t) # 0  BY <1>1, <1>2
  <2> QED  BY <2>1, EmptySeq
<1>8. Signature(Main) = K /\ Ev(Main) = events[h + 1]
  <2>1. Head(t) = t[1]  BY <1>2, <1>7
  <2>2. t[1] = [signature |-> K, event |-> events[h + 1]]  BY <1>1, <1>7
  <2> QED  BY <2>1, <2>2 DEF Signature, Ev, t, Todo
<1>9. RowKey(Main) = UniqueKey(K, events[h + 1]) /\ RowKey(Main)[2] = K
  BY <1>8, UniqueKeyParts DEF RowKey
<1>10. \A key \in DOMAIN event_log' : key[2] < main.at
  BY <1>3, <1>6, <1>9
<1>11. OnlyKeys(DOMAIN event_log', K, events, h + 1)
  <2>1. h + 1 \in 1..(h + 1)  BY <1>1
  <2> QED  BY <1>1, <1>9, <2>1 DEF OnlyKeys
<1>12. CASE Todo' = t /\ work'[Main].step # "store"
  <2>1. /\ Len(Todo') = N - h
        /\ \A i \in 1..Len(Todo') : Todo'[i] = [signature |-> K, event |-> events[h + i]]
    BY <1>1, <1>12
  <2> DEFINE stored == IF work'[Main].step = "store" THEN h ELSE h + 1
  <2>2. stored = h + 1  BY <1>12
  <2>3. /\ Told(live_orders', markets', st[stored])
        /\ OnlyKeys(DOMAIN event_log', K, events, stored)
    BY <1>11, <2>2
  <2> HIDE DEF stored
  <2>4. Underway(h, st)'
    BY <1>1, <2>1, <2>3 DEF Underway, K, events, N, stored
  <2> QED  BY <1>6, <1>7, <1>10, <1>12, <2>4 DEF FollowInv
<1>13. CASE Todo' = Tail(t) /\ work'[Main].step = "store"
  <2>1. /\ Len(Tail(t)) = Len(t) - 1
        /\ \A i \in 1..Len(Tail(t)) : Tail(t)[i] = t[i + 1]
    BY <1>2, <1>7, HeadTailProperties
  <2>2. CASE h + 1 = N
    <3>1. Len(Tail(t)) = 0
      <4>1. T - 1 = 0  BY <1>14, <2>2
      <4> QED  BY <2>1, <4>1 DEF T
    <3>2. Todo' = << >>
      <4>1. Tail(t) \in Seq(Deliveries(ledger))  BY <1>2, <1>7, HeadTailProperties
      <4> QED  BY <1>13, <3>1, <4>1, EmptySeq
    <3>3. Told(live_orders', markets', Before(ledger, main.at))
      BY <1>4, <1>5, <2>2
    <3> QED  BY <1>6, <1>10, <3>2, <3>3 DEF FollowInv, Before, Told
  <2>3. CASE h + 1 # N
    <3>1. /\ h + 1 \in Nat /\ h + 1 < N /\ Len(Tail(t)) = N - (h + 1)
          /\ Len(Tail(t)) \in Nat /\ Len(Tail(t)) # 0
          /\ \A i \in 1..Len(Tail(t)) : i + 1 \in 1..Len(t) /\ h + (i + 1) = (h + 1) + i
      <4> DEFINE R == Len(Tail(t))
      <4>1. R = T - 1  BY <2>1 DEF T
      <4> HIDE DEF R
      <4>2. h + 1 \in Nat /\ h + 1 < N /\ R = N - (h + 1) /\ R \in Nat /\ R # 0
        BY <1>14, <2>3, <4>1
      <4>3. \A i \in 1..R : i + 1 \in 1..T /\ h + (i + 1) = (h + 1) + i
        BY <1>14, <4>1, <4>2
      <4> QED  BY <4>2, <4>3 DEF R, T
    <3>2. \A i \in 1..Len(Tail(t)) : Tail(t)[i] = [signature |-> K, event |-> events[(h + 1) + i]]
      BY <1>1, <2>1, <3>1
    <3>3. Underway(h + 1, st)'
      BY <1>1, <1>11, <1>13, <3>1, <3>2 DEF Underway, K, events, N
    <3>4. Todo' # << >>  BY <1>13, <3>1, EmptySeq
    <3> QED  BY <1>6, <1>10, <3>3, <3>4 DEF FollowInv
  <2> QED  BY <2>2, <2>3
<1> QED  BY <1>12, <1>13 DEF t

\* What the event in hand says is in the tables, or is about to be.
LEMMA HandAt ==
  ASSUME IndexInv, FollowInv, main.step = "listen", NEW h, NEW st, Underway(h, st)
  PROVE  LET K == main.at - 1
             events == ledger[K].events
         IN /\ Todo # << >> /\ K \in 1..Len(ledger)
            /\ Signature(Main) = K /\ Ev(Main) = events[h + 1]
            /\ h \in Nat /\ h + 1 \in 1..Len(events)
            /\ ChainTyped(st[h]) /\ Tells(st[h], Ev(Main), st[h + 1])
<1> DEFINE K == main.at - 1
           events == ledger[K].events
           N == Len(events)
           t == Todo
           T == Len(t)
<1>1. /\ K \in 1..Len(ledger) /\ Path(Before(ledger, K), events, ledger[K].after, st)
      /\ h \in Nat /\ h < N /\ T = N - h
      /\ \A i \in 1..T : t[i] = [signature |-> K, event |-> events[h + i]]
  BY DEF Underway
<1>2. N \in Nat /\ t \in Seq(Deliveries(ledger)) /\ T \in Nat
  BY <1>1, LedgerTypes, TodoTyped
<1>3. /\ \A i \in 0..N : ChainTyped(st[i])
      /\ \A i \in 1..N : Tells(st[i - 1], events[i], st[i])
  BY <1>1 DEF Path
<1> HIDE DEF K, events, N, T
<1>4. h \in 0..N /\ h + 1 \in 1..N /\ (h + 1) - 1 = h /\ 1 \in 1..T /\ T # 0
  BY <1>1, <1>2
<1>5. t # << >>  BY <1>2, <1>4, EmptySeq DEF T
<1>6. t[1] = [signature |-> K, event |-> events[h + 1]]  BY <1>1, <1>4
<1>7. Head(t) = t[1]  BY <1>2, <1>4
<1>8. Signature(Main) = K /\ Ev(Main) = events[h + 1]
  BY <1>6, <1>7 DEF Signature, Ev, Todo
<1>9. ChainTyped(st[h]) /\ Tells(st[h], events[h + 1], st[h + 1])
  BY <1>3, <1>4
<1> QED  BY <1>1, <1>4, <1>5, <1>8, <1>9 DEF K, events, N

LEMMA Moves ==
  ASSUME WorkTyped
  PROVE  /\ \A step : Goto(Main, step) => Todo' = Todo /\ work'[Main].step = step
         /\ \A step, removed, added :
              Diff(Main, step, removed, added) => Todo' = Todo /\ work'[Main].step = step
         /\ Finish(Main) => Todo' = Tail(Todo) /\ work'[Main].step = "store"
<1>1. Main \in Processes /\ DOMAIN work = Processes  BY DEF WorkTyped, Processes
<1>2. ASSUME Finish(Main) PROVE Todo' = Tail(Todo)
  BY <1>1, <1>2 DEF Finish, Todo, Idle
<1> QED  BY <1>2, Goes DEF Todo

LEMMA HandleFollows ==
  ASSUME IndexInv, KindsInv, FollowInv, "db" \notin Faults, HandleEvent(Main)
  PROVE  FollowInv'
<1>1. Main \in Processes /\ WorkTyped  BY DEF Processes, IndexInv, CursorInv
<1>2. main' = main /\ ledger' = ledger /\ Todo # << >>
  BY <1>1, HandleMoves DEF HandleEvent
<1>3. CASE main.step = "pending"
  BY <1>2, <1>3 DEF FollowInv
<1>4. CASE main.step = "listen"
  <2>1. PICK h, st : Underway(h, st)
    BY <1>2, <1>4 DEF FollowInv
  <2> DEFINE K == main.at - 1
             events == ledger[K].events
             stored == IF work[Main].step = "store" THEN h ELSE h + 1
  <2>2. /\ K \in 1..Len(ledger)
        /\ Signature(Main) = K /\ Ev(Main) = events[h + 1]
        /\ h \in Nat /\ h + 1 \in 1..Len(events)
        /\ ChainTyped(st[h]) /\ Tells(st[h], Ev(Main), st[h + 1])
    BY <1>4, <2>1, HandAt
  <2>3. Told(live_orders, markets, st[stored]) /\ OnlyKeys(DOMAIN event_log, K, events, stored)
    BY <2>1 DEF Underway
  <2> HIDE DEF K, events
  <2>4. RowKey(Main) = UniqueKey(K, events[h + 1])  BY <2>2 DEF RowKey
  <2>5. CASE Store(Main)
    <3>1. work[Main].step = "store"
      BY <2>5 DEF Store, StoreMarketInitialized, StoreWinningSideSet, StoreMarketClosed,
         StoreMetadataUpdated, StoreOrderPlaced, StoreOrderMatched, StoreOrderCancelled,
         StoreLogged, Stores, Handles
    <3>2. Told(live_orders, markets, st[h]) /\ OnlyKeys(DOMAIN event_log, K, events, h)
      BY <2>3, <3>1
    <3>3. ASSUME InstructionsPerTx = 1, Duplicate(Main) PROVE FALSE
      <4>1. RowKey(Main) \in DOMAIN event_log /\ RowKey(Main)[2] = K
        BY <2>4, <3>3, UniqueKeyParts DEF Duplicate
      <4>2. PICK j \in 1..h : RowKey(Main) = UniqueKey(K, events[j])
        BY <3>2, <4>1 DEF OnlyKeys
      <4>3. events[j].kind = events[h + 1].kind
        <5>1. /\ UniqueKey(K, events[j])[1] = events[j].kind
              /\ UniqueKey(K, events[h + 1])[1] = events[h + 1].kind
          BY UniqueKeyParts
        <5> QED  BY <2>4, <4>2, <5>1
      <4>4. j \in 1..Len(events) /\ j # h + 1
        <5>1. Len(events) \in Nat  BY <2>2, LedgerTypes DEF events
        <5> QED  BY <2>2, <5>1
      <4>5. KindsDiffer(events)  BY <2>2, <3>3 DEF KindsInv, events
      <4> QED  BY <2>2, <4>3, <4>4, <4>5 DEF KindsDiffer
    <3>4. /\ Told(live_orders', markets', st[h + 1])
          /\ DOMAIN event_log' \subseteq DOMAIN event_log \cup {RowKey(Main)}
          /\ \/ \E step : step # "store" /\ Goto(Main, step)
             \/ \E removed, added : Diff(Main, "publish", removed, added)
             \/ Finish(Main)
      BY <1>2, <2>2, <2>5, <3>2, <3>3, StoreTold
    <3>5. \/ Todo' = Todo /\ work'[Main].step # "store"
          \/ Todo' = Tail(Todo) /\ work'[Main].step = "store"
      BY <1>1, <3>4, Moves
    <3> QED  BY <1>2, <1>4, <2>1, <3>4, <3>5, Proceeds
  <2>6. ASSUME work[Main].step # "store", UNCHANGED <<event_log, live_orders, markets>>,
               \/ \E step : step # "store" /\ Goto(Main, step)
               \/ \E step, removed, added : step # "store" /\ Diff(Main, step, removed, added)
               \/ Finish(Main)
        PROVE  FollowInv'
    <3>1. Told(live_orders', markets', st[h + 1])
      BY <2>3, <2>6
    <3>2. \/ Todo' = Todo /\ work'[Main].step # "store"
          \/ Todo' = Tail(Todo) /\ work'[Main].step = "store"
      BY <1>1, <2>6, Moves
    <3> QED  BY <1>2, <1>4, <2>1, <2>6, <3>1, <3>2, Proceeds
  <2>7. ASSUME NEW key, NEW step, step # "store", ReadBack(Main, key, step)
        PROVE  \/ Goto(Main, step)
               \/ \E removed, added : Diff(Main, step, removed, added)
    BY <2>7 DEF ReadBack
  <2>8. CASE ReadMaker(Main)
    <3>1. AfterMaker(Main) # "store"  BY DEF AfterMaker
    <3> QED  BY <2>6, <2>7, <2>8, <3>1 DEF ReadMaker, Handles
  <2>9. CASE ReadTaker(Main)
    BY <2>6, <2>7, <2>9 DEF ReadTaker, Handles
  <2>10. CASE PublishDiff(Main)
    BY <2>6, <2>10 DEF PublishDiff, Handles
  <2>11. CASE UpdateCursor(Main)
    BY <2>6, <2>11 DEF UpdateCursor, Handles
  <2>12. CASE RedisUnavailable(Main)
    BY <2>6, <2>12 DEF RedisUnavailable, Handles, db
  <2> QED
    BY <2>5, <2>8, <2>9, <2>10, <2>11, <2>12 DEF HandleEvent, DatabaseFails, Fault
<1> QED  BY <1>2, <1>3, <1>4 DEF FollowInv

LEMMA MaxIs ==
  ASSUME NEW a \in Nat, NEW b \in Nat
  PROVE  (b <= a => Max({a, b}) = a) /\ (a <= b => Max({a, b}) = b)
<1>1. \E x \in {a, b} : \A y \in {a, b} : x >= y
  <2>1. CASE a >= b  BY <2>1
  <2>2. CASE b >= a  BY <2>2
  <2> QED  BY <2>1, <2>2
<1>2. Max({a, b}) \in {a, b} /\ \A y \in {a, b} : Max({a, b}) >= y  BY <1>1 DEF Max
<1> QED  BY <1>2

\* The stream's next transaction is new to main, and is what the tables lack.
LEMMA ReceiveFollows ==
  ASSUME IndexInv, HistoryInv, FollowInv, Receive, UNCHANGED <<ledger, db>>
  PROVE  FollowInv'
<1> DEFINE N == Len(ledger)
           at == main.at
           seen == main.seen_signatures
<1>1. /\ N \in Nat /\ DOMAIN ledger = 1..N /\ main.step = "listen" /\ Todo = << >>
  BY LedgerTypes DEF Receive, MainIdle, Todo
<1>2. /\ at \in 1..(N + 1) /\ seen \subseteq 1..(at - 1)
      /\ \A key \in DOMAIN event_log : key[2] < at
      /\ Told(live_orders, markets, Before(ledger, at))
  BY <1>1 DEF FollowInv
<1>3. event_log' = event_log /\ live_orders' = live_orders /\ markets' = markets
      /\ ledger' = ledger
  BY DEF db
<1>4. /\ DOMAIN main = {"step", "until", "tip", "fetch", "at", "seen_signatures"}
      /\ Main \in Processes /\ WorkTyped /\ WorkLogged
  BY DEF IndexInv, MainSound, CursorInv, Processes
<1>5. PICK n \in 1..N :
        /\ n = at \/ (n < at /\ n \in seen)
        /\ IF n \in seen \/ ~ledger[n].ok
           THEN main' = [main EXCEPT !.at = Max({at, n + 1})] /\ work' = work
           ELSE /\ main' = [main EXCEPT !.at = Max({at, n + 1}),
                                        !.seen_signatures = seen \cup {n}]
                /\ Takes(n)
  BY <1>1 DEF Receive, Seen
<1>6. main'.at = Max({at, n + 1}) /\ main'.step = "listen"
      /\ main'.seen_signatures = IF n \in seen \/ ~ledger[n].ok THEN seen ELSE seen \cup {n}
  BY <1>1, <1>4, <1>5
<1>7. work' = work => Todo' = << >>  BY <1>1 DEF Todo
<1>8. at \in Nat /\ n + 1 \in Nat /\ at \in Int  BY <1>1, <1>2
<1> HIDE DEF N, at, seen
<1>9. CASE n # at
  <2>1. n \in seen /\ n + 1 <= at  BY <1>5, <1>8, <1>9
  <2>2. main'.at = at  BY <1>6, <1>8, <2>1, MaxIs
  <2>3. work' = work /\ main'.seen_signatures = seen  BY <1>5, <1>6, <2>1
  <2> QED
    BY <1>2, <1>3, <1>6, <1>7, <2>2, <2>3 DEF FollowInv, Told, Before, N
<1>10. CASE n = at
  <2>1. main'.at = at + 1  BY <1>6, <1>8, <1>10, MaxIs
  <2>2. n \notin seen  BY <1>2, <1>8, <1>10
  <2>3. /\ at \in 1..N /\ at + 1 \in 1..(N + 1) /\ (at + 1) - 1 = at /\ at + 1 # 1
        /\ main'.seen_signatures \subseteq 1..((at + 1) - 1)
        /\ \A key \in DOMAIN event_log : key[2] < at + 1
    <3>1. at \in 1..N /\ at + 1 \in 1..(N + 1) /\ (at + 1) - 1 = at /\ at + 1 # 1
      BY <1>1, <1>8, <1>10
    <3>2. \A x \in 1..(at - 1) : x \in 1..at  BY <1>8
    <3>3. main'.seen_signatures \subseteq 1..at
      BY <1>2, <1>6, <1>10, <3>1, <3>2
    <3>4. \A key \in DOMAIN event_log : key[2] < at + 1
      <4>1. \A key \in DOMAIN event_log : key[2] \in 1..Len(ledger)
        BY DEF IndexInv, LogSound
      <4> QED  BY <1>1, <1>2, <1>8, <4>1 DEF N
    <3> QED  BY <3>1, <3>3, <3>4
  <2>4. Before(ledger, at + 1) = ledger[at].after  BY <2>3 DEF Before
  <2>5. Linked(ledger, at)  BY <2>3 DEF HistoryInv, HistorySound, N
  <2>6. CASE ~ledger[at].ok
    <3>1. Told(live_orders, markets, Before(ledger, at + 1))
      BY <1>2, <2>4, <2>5, <2>6 DEF Linked
    <3> QED
      BY <1>3, <1>5, <1>6, <1>7, <1>10, <2>1, <2>3, <2>6, <3>1
      DEF FollowInv, Told, Before, N
  <2>7. CASE ledger[at].ok
    <3> DEFINE events == ledger[at].events
               L == Len(events)
    <3>1. PICK st : Path(Before(ledger, at), events, ledger[at].after, st)
      BY <2>5, <2>7 DEF Linked
    <3>2. Takes(at)  BY <1>5, <1>10, <2>2, <2>7
    <3>3. /\ Len(Todo') = L
          /\ \A i \in 1..L : Todo'[i] = [signature |-> at, event |-> events[i]]
      BY <2>3, <2>7, <3>2, TakesAll DEF N
    <3>4. L \in Nat  BY <2>3, LedgerTypes DEF N
    <3>5. work'[Main].step = "store" /\ Todo' \in Seq(Deliveries(ledger)')
      <4>1. work[Main].step = "store"  BY <1>1, <1>4 DEF WorkLogged, Todo
      <4>2. work'[Main].step = "store"  BY <1>4, <3>2, <4>1 DEF Takes, WorkTyped
      <4>3. Todo' = Logs(at)  BY <1>4, <3>2 DEF Takes, WorkTyped, Todo
      <4>4. Logs(at) \in Seq(Deliveries(ledger))
        BY <2>3, <2>7, LogsDelivered DEF N, IndexInv, ChainSound, LedgerSound
      <4> QED  BY <1>3, <4>2, <4>3, <4>4 DEF Deliveries
    <3>6. st[0] = Before(ledger, at) /\ st[L] = ledger[at].after  BY <3>1 DEF Path
    <3> HIDE DEF events, L
    <3>7. CASE L = 0
      <4>1. Todo' = << >>  BY <3>3, <3>5, <3>7, EmptySeq
      <4>2. Told(live_orders, markets, Before(ledger, at + 1))
        BY <1>2, <2>4, <3>6, <3>7
      <4> QED
        BY <1>3, <1>6, <2>1, <2>3, <4>1, <4>2 DEF FollowInv, Told, Before, N
    <3>8. CASE L # 0
      <4>1. Todo' # << >>  BY <3>3, <3>8, EmptySeq
      <4>2. /\ 0 \in Nat /\ 0 < L /\ Len(Todo') = L - 0
            /\ \A i \in 1..Len(Todo') : Todo'[i] = [signature |-> at, event |-> events[0 + i]]
        <5>1. \A i \in 1..L : 0 + i = i  BY <3>4
        <5> QED  BY <3>3, <3>4, <3>8, <5>1
      <4>3. OnlyKeys(DOMAIN event_log', at, events, 0)
        BY <1>2, <1>3, <1>8 DEF OnlyKeys
      <4>4. Told(live_orders', markets', st[0])  BY <1>2, <1>3, <3>6
      <4>5. main'.at - 1 = at  BY <2>1, <2>3
      <4> DEFINE stored == IF work'[Main].step = "store" THEN 0 ELSE 0 + 1
      <4>6. Told(live_orders', markets', st[stored])
            /\ OnlyKeys(DOMAIN event_log', at, events, stored)
        BY <3>5, <4>3, <4>4
      <4> HIDE DEF stored
      <4> DEFINE k == main'.at - 1
      <4>7. k = at  BY <4>5
      <4> HIDE DEF k
      <4>8. /\ k \in 1..Len(ledger') /\ ledger'[k].ok
            /\ Path(Before(ledger', k), ledger'[k].events, ledger'[k].after, st)
            /\ 0 < Len(ledger'[k].events) /\ Len(Todo') = Len(ledger'[k].events) - 0
            /\ \A i \in 1..Len(Todo') :
                 Todo'[i] = [signature |-> k, event |-> ledger'[k].events[0 + i]]
            /\ OnlyKeys(DOMAIN event_log', k, ledger'[k].events, stored)
        BY <1>3, <2>3, <2>7, <3>1, <4>2, <4>6, <4>7 DEF events, L, N
      <4>9. Underway(0, st)'
        BY <4>2, <4>6, <4>8 DEF Underway, k, stored
      <4> QED
        BY <1>3, <1>6, <2>1, <2>3, <4>1, <4>9 DEF FollowInv, N
    <3> QED  BY <3>7, <3>8
  <2> QED  BY <2>6, <2>7
<1> QED  BY <1>9, <1>10

LEMMA MainFollows ==
  ASSUME IndexInv, HistoryInv, FollowInv, Faults \cap {"db", "disconnect"} = {}, MainStep
  PROVE  FollowInv'
<1>1. UNCHANGED <<ledger, db>>  BY DEF MainStep
<1>2. DOMAIN main = {"step", "until", "tip", "fetch", "at", "seen_signatures"}
  BY DEF IndexInv, MainSound
<1>3. CASE ReadCursor
  <2>1. /\ main.step = "boot" /\ indexer_cursor = 0 /\ main' = AfterBackfill /\ work' = work
    BY <1>3 DEF ReadCursor, Fault, FollowInv
  <2>2. main'.step \in {"pending", "connect"}  BY <1>2, <2>1 DEF AfterBackfill
  <2>3. Todo' = Todo  BY <2>1 DEF Todo
  <2> QED  BY <1>1, <2>1, <2>2, <2>3 DEF FollowInv, db
<1>4. CASE Subscribe
  <2>1. /\ main.step = "connect" /\ ledger = << >> /\ Len(ledger) = 0 /\ work' = work
        /\ main'.step = "listen" /\ main'.at = 1 /\ main'.seen_signatures = {}
    BY <1>2, <1>4 DEF Subscribe, FollowInv
  <2>2. Todo' = << >> /\ markets = << >> /\ DOMAIN live_orders = {} /\ DOMAIN event_log = {}
    BY <2>1 DEF FollowInv, Todo
  <2>3. Told(live_orders, markets, NewChain)
    BY <2>2 DEF Told, RowsMatch, NewChain
  <2>4. Before(ledger', main'.at) = NewChain  BY <2>1 DEF Before
  <2>5. /\ markets' = markets /\ live_orders' = live_orders /\ event_log' = event_log
        /\ ledger' = ledger
    BY <1>1 DEF db
  <2>6. main'.at \in 1..(Len(ledger') + 1) /\ main'.seen_signatures \subseteq 1..(main'.at - 1)
    BY <2>1, <2>5
  <2> QED
    BY <2>1, <2>2, <2>3, <2>4, <2>5, <2>6 DEF FollowInv, Told, Before
<1>5. CASE Receive
  BY <1>1, <1>5, ReceiveFollows
<1> QED
  BY <1>3, <1>4, <1>5
  DEF MainStep, ListSignatures, FetchTransaction, EndBackfill, Disconnect, Fault, FollowInv

LEMMA StepFollows ==
  ASSUME Tasks = {}, Faults \cap {"crash", "db", "disconnect", "gap"} = {}
  PROVE  IndexInv /\ HistoryInv /\ KindsInv /\ FollowInv /\ [Next]_vars => FollowInv'
<1> SUFFICES ASSUME IndexInv, HistoryInv, KindsInv, FollowInv, [Next]_vars PROVE FollowInv'
  OBVIOUS
<1>1. CASE UNCHANGED vars
  <2>1. /\ main' = main /\ ledger' = ledger /\ event_log' = event_log /\ markets' = markets
        /\ live_orders' = live_orders /\ indexer_cursor' = indexer_cursor
        /\ Todo' = Todo /\ work' = work
    BY <1>1 DEF vars, db, Todo
  <2>2. \A h, st : Underway(h, st) => Underway(h, st)'
    BY <2>1 DEF Underway, Before, Told, OnlyKeys
  <2> QED  BY <2>1, <2>2 DEF FollowInv, Told, Before
<1>2. CASE NewTransaction
  <2>1. /\ main' = main /\ event_log' = event_log /\ markets' = markets
        /\ live_orders' = live_orders /\ indexer_cursor' = indexer_cursor
        /\ Todo' = Todo /\ work' = work
    BY <1>2 DEF NewTransaction, db, Todo
  <2>2. main.step \notin {"boot", "connect"}
    BY <1>2 DEF NewTransaction, FollowInv
  <2>3. /\ Len(ledger') = Len(ledger) + 1 /\ Len(ledger) \in Nat
        /\ \A n \in 1..Len(ledger) : ledger'[n] = ledger[n]
    BY <1>2, LedgerLonger DEF NewTransaction
  <2>4. ASSUME NEW n \in 1..(Len(ledger) + 1) PROVE Before(ledger', n) = Before(ledger, n)
    <3>1. n = 1 \/ n - 1 \in 1..Len(ledger)  BY <2>3
    <3> QED  BY <2>3, <3>1 DEF Before
  <2>5. CASE main.step = "listen"
    <3> DEFINE K == main.at - 1
    <3>1. main.at \in 1..(Len(ledger) + 1) /\ main.at \in 1..(Len(ledger') + 1)
      BY <2>3, <2>5 DEF FollowInv
    <3>2. Before(ledger', main.at) = Before(ledger, main.at)  BY <2>4, <3>1
    <3>3. ASSUME NEW h, NEW st, Underway(h, st) PROVE Underway(h, st)'
      <4>1. K \in 1..Len(ledger)  BY <3>3 DEF Underway
      <4>2. /\ K \in 1..Len(ledger') /\ ledger'[K] = ledger[K]
            /\ Before(ledger', K) = Before(ledger, K)
        <5> HIDE DEF K
        <5>1. K \in 1..Len(ledger') /\ K \in 1..(Len(ledger) + 1)  BY <2>3, <4>1
        <5> QED  BY <2>3, <2>4, <4>1, <5>1
      <4> QED  BY <2>1, <3>3, <4>1, <4>2 DEF Underway
    <3> QED  BY <2>1, <2>5, <3>1, <3>2, <3>3 DEF FollowInv
  <2> QED  BY <2>1, <2>2, <2>5 DEF FollowInv
<1>3. CASE MainStep
  BY <1>3, MainFollows
<1>4. ASSUME NEW p \in Processes, HandleEvent(p) PROVE FollowInv'
  BY <1>4, HandleFollows DEF Processes
<1> QED  BY <1>1, <1>2, <1>3, <1>4 DEF Next, Crash, Fault

LEMMA FollowInvariant ==
  ASSUME Tasks = {}, Faults \cap {"crash", "db", "disconnect", "gap"} = {}
  PROVE  Spec => [](IndexInv /\ HistoryInv /\ FollowInv)
<1>1. Init => KindsInv /\ FollowInv
  <2> SUFFICES ASSUME Init PROVE KindsInv /\ FollowInv
    OBVIOUS
  <2>1. /\ ledger = << >> /\ Len(ledger) = 0 /\ Todo = << >> /\ main.step = "boot"
        /\ markets = << >> /\ live_orders = EmptyTable /\ event_log = << >>
        /\ indexer_cursor = 0
    BY DEF Init, ChainInit, Todo, Idle, Processes, Boot
  <2>2. DOMAIN live_orders = {} /\ DOMAIN event_log = {}  BY <2>1 DEF EmptyTable
  <2> QED  BY <2>1, <2>2 DEF KindsInv, FollowInv
<1>2. IndexInv /\ HistoryInv /\ KindsInv /\ FollowInv /\ [Next]_vars => FollowInv'
  BY StepFollows
<1> QED
  BY <1>1, <1>2, StepKinds, IndexInvariant, HistoryInvariant, PTL DEF Spec

\* As long as main is the only source, starts with the first transaction and
\* loses neither the stream nor the database, the rows of the markets are,
\* between two transactions, the markets' state on chain; whatever is redelivered
\* and whatever Redis does.
THEOREM MarketsCorrect ==
  ASSUME Tasks = {}, Faults \cap {"crash", "db", "disconnect", "gap"} = {}
  PROVE  Spec => []MarketsFollowChain
<1>1. IndexInv /\ FollowInv => MarketsFollowChain
  <2> SUFFICES ASSUME IndexInv, FollowInv, CaughtUp
               PROVE  markets = MarketsAfter(main.at - 1)
    BY DEF MarketsFollowChain
  <2>1. main.at \in 1..(Len(ledger) + 1) /\ Told(live_orders, markets, Before(ledger, main.at))
    BY DEF FollowInv, CaughtUp, MainIdle, Todo
  <2>2. main.at = 1 <=> main.at - 1 = 0  BY <2>1, LedgerTypes
  <2> QED  BY <2>1, <2>2 DEF Told, Before, MarketsAfter, NewChain
<1> QED  BY <1>1, FollowInvariant, PTL

\* Under the same conditions, and with transactions of one instruction, the
\* orders that the table lists are, between two transactions, the book on
\* chain, each with what it has left.  Two fills of one maker by one
\* transaction share the key that is to tell them apart, so that the second
\* is taken for the first.
THEOREM TableCorrect ==
  ASSUME Tasks = {}, Faults \cap {"crash", "db", "disconnect", "gap"} = {},
         InstructionsPerTx = 1
  PROVE  Spec => []TableFollowsChain
<1>1. IndexInv /\ HistoryInv /\ FollowInv => TableFollowsChain
  <2> SUFFICES ASSUME IndexInv, HistoryInv, FollowInv, CaughtUp
               PROVE  ListedEntries = BookAfter(main.at - 1)
    BY DEF TableFollowsChain
  <2> DEFINE c == Before(ledger, main.at)
             o == c.orders
             rests == {k \in DOMAIN o : o[k].resting}
  <2>1. main.at \in 1..(Len(ledger) + 1) /\ Told(live_orders, markets, c)
    BY DEF FollowInv, CaughtUp, MainIdle, Todo
  <2>2. main.at = 1 <=> main.at - 1 = 0  BY <2>1, LedgerTypes
  <2>3. BookAfter(main.at - 1) = {<<key, o[key].left>> : key \in rests}
    <3>1. CASE main.at = 1
      <4>1. c = NewChain /\ DOMAIN o = {}  BY <3>1 DEF Before, NewChain
      <4>2. BookAfter(main.at - 1) = {}  BY <2>2, <3>1 DEF BookAfter
      <4> QED  BY <4>1, <4>2
    <3>2. CASE main.at # 1
      <4>1. c = ledger[main.at - 1].after  BY <3>2 DEF Before
      <4> QED  BY <2>2, <3>2, <4>1 DEF BookAfter
    <3> QED  BY <3>1, <3>2
  <2>4. RowsMatch(live_orders, o)  BY <2>1 DEF Told
  <2> HIDE DEF o
  <2>5. /\ DOMAIN live_orders = DOMAIN o
        /\ \A key \in DOMAIN o : live_orders[key].remaining_quantity = o[key].left
        /\ \A key \in DOMAIN o :
             live_orders[key].status \in IF o[key].resting THEN {"open", "partially_filled"}
                                         ELSE {"filled", "cancelled"}
    BY <2>4 DEF RowsMatch, RowMatches
  <2>6. Listed(live_orders) = rests  BY <2>5 DEF Listed
  <2> QED  BY <2>3, <2>5, <2>6 DEF ListedEntries
<1> QED  BY <1>1, FollowInvariant, PTL
=============================================================================
