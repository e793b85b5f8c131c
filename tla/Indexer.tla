------------------------------- MODULE Indexer -------------------------------
(***************************************************************************)
(* The event-listener and its database.  main fills gaps by backfill, then *)
(* listens to the log stream; every POST of the webhook is handled by a    *)
(* task of its own.  All of them call handle_event, which stops at every   *)
(* await: a database transaction, a read, a publication and the cursor are *)
(* separate steps that other processes and crashes come between.           *)
(*                                                                         *)
(* A signature is the transaction's place in the ledger, and so is its     *)
(* slot.  Trade ticks are left out: a failed tick ends the event without   *)
(* the cursor, as a failed cursor update does.                             *)
(***************************************************************************)
EXTENDS ChainLog, LiveOrders

CONSTANTS Tasks,        \* bound: webhook tasks at work at the same time
          WebhookOnly,  \* HELIUS_WEBHOOK_ONLY
          Faults,       \* the faults that may happen
          FaultBound    \* bound: how many of them do

VARIABLES event_log,       \* the event_* tables: unique key -> event
          markets,         \* market id -> [status, meta_data_url]
          live_orders,     \* <<market id, order id>> -> row
          trades,          \* bag of rows: the table has no unique key
          indexer_cursor,  \* last_signature, 0 when the table is empty
          main,            \* where main() stands
          work,            \* process -> the events it has yet to handle
          posted,          \* what the webhook has answered with 200
          book,            \* what a subscriber of the diffs holds
          faults

Main == "main"
Processes == Tasks \cup {Main}
db == <<event_log, markets, live_orders, trades, indexer_cursor>>
vars == <<ledger, db, main, work, posted, book, faults>>

Idle == [todo |-> << >>, step |-> "store", removed |-> {}, added |-> {}]

Boot == [step |-> "boot", until |-> 0, tip |-> 0, fetch |-> << >>,
         at |-> 1, seen_signatures |-> {}]

Init ==
  /\ ChainInit
  /\ event_log = << >>
  /\ markets = << >>
  /\ live_orders = EmptyTable
  /\ trades = EmptyBag
  /\ indexer_cursor = 0
  /\ main = Boot
  /\ work = [p \in Processes |-> Idle]
  /\ posted = {}
  /\ book = {}
  /\ faults = 0

Fault(kind) == kind \in Faults /\ faults < FaultBound /\ faults' = faults + 1

-----------------------------------------------------------------------------
\* handle_event, of any process

\* The "Program data:" lines of a transaction.
Logs(n) == [i \in 1..Len(ledger[n].events) |->
              [signature |-> n, event |-> ledger[n].events[i]]]

Handles(p, step) == work[p].todo # << >> /\ work[p].step = step
Signature(p) == Head(work[p].todo).signature
Ev(p) == Head(work[p].todo).event
Key(p) == <<Ev(p).market_id, Ev(p).order_id>>
TakerKey(p) == <<Ev(p).market_id, Ev(p).taker_order_id>>

Goto(p, step) == work' = [work EXCEPT ![p].step = step]

\* Wrong on purpose: the rest of the transaction is given up.
GiveUp(p) == work' = [work EXCEPT ![p] = Idle]
\* The event is done with, for good or ill: the caller takes the next.
Finish(p) == work' = [work EXCEPT ![p] = [Idle EXCEPT !.todo = Tail(work[p].todo)]]

\* Wrong on purpose: the diff only adds.
DiffWithoutRemoved(p, step, removed, added) ==
  work' = [work EXCEPT ![p].step = step, ![p].added = @ \cup added]
Diff(p, step, removed, added) ==
  work' = [work EXCEPT ![p].step = step, ![p].removed = @ \cup removed, ![p].added = @ \cup added]

\* The UNIQUE constraint of the event's own table.
OrderEvents == {"OrderPlaced", "OrderMatched", "OrderCancelled"}
MarketEvents == {"MarketInitialized", "MarketClosed", "WinningSideSet", "MetadataUpdated"}
LoggedEvents == {"MarketOrderExecuted", "TokensSplit"}
UniqueKey(signature, event) ==
  CASE event.kind \in OrderEvents  -> <<event.kind, signature, event.order_id>>
    [] event.kind \in MarketEvents -> <<event.kind, signature, event.market_id>>
    [] OTHER                       -> <<event.kind, signature>>
RowKey(p) == UniqueKey(Signature(p), Ev(p))

\* Wrong on purpose: without the UNIQUE constraints.
NeverDuplicate(p) == FALSE
Duplicate(p) == RowKey(p) \in DOMAIN event_log

\* The event's own row.
Logged(p) == event_log' = Inserted(event_log, RowKey(p), Ev(p))

Stores(p, kind) == Handles(p, "store") /\ Ev(p).kind = kind

StoreMarketInitialized(p) ==
  /\ Stores(p, "MarketInitialized")
  /\ Logged(p)
  /\ markets' = Inserted(markets, Ev(p).market_id, [status |-> "active", meta_data_url |-> 0])
  /\ Goto(p, "cursor")
  /\ UNCHANGED <<live_orders, trades, book>>

MarketKnown(p) == Ev(p).market_id \in DOMAIN markets
Row(p) == markets[Ev(p).market_id]

\* The three UPDATEs of markets, which run whether the event is new or not.
UpdateMarket(p, row) ==
  /\ Logged(p)
  /\ markets' = IF MarketKnown(p) THEN [markets EXCEPT ![Ev(p).market_id] = row] ELSE markets
  /\ Goto(p, "cursor")
  /\ UNCHANGED <<live_orders, trades, book>>

StoreWinningSideSet(p) ==
  Stores(p, "WinningSideSet") /\ UpdateMarket(p, [Row(p) EXCEPT !.status = "settled"])
StoreMarketClosed(p) ==
  Stores(p, "MarketClosed") /\ UpdateMarket(p, [Row(p) EXCEPT !.status = "closed"])
StoreMetadataUpdated(p) ==
  /\ Stores(p, "MetadataUpdated")
  /\ UpdateMarket(p, [Row(p) EXCEPT !.meta_data_url = Ev(p).quantity])

\* Wrong on purpose: the cursor moves on although nothing was stored.
SkipToCursor(p) == Goto(p, "cursor")
\* The foreign key of live_orders rolls the row of the event back as well.
Skip(p) == Finish(p)

StoreOrderPlaced(p) ==
  /\ Stores(p, "OrderPlaced")
  /\ \/ Duplicate(p) /\ Finish(p) /\ UNCHANGED <<event_log, live_orders>>
     \/ ~Duplicate(p) /\ ~MarketKnown(p) /\ Skip(p) /\ UNCHANGED <<event_log, live_orders>>
     \/ /\ ~Duplicate(p)
        /\ MarketKnown(p)
        /\ Logged(p)
        /\ live_orders' = Placed(live_orders, Key(p), Ev(p).market_id, Ev(p).quantity)
        /\ Diff(p, "publish", {}, {<<Key(p), Ev(p).quantity>>})
  /\ UNCHANGED <<markets, trades, book>>

Trade(p) == [signature |-> Signature(p), key |-> Key(p), quantity |-> Ev(p).quantity]

StoreOrderMatched(p) ==
  /\ Stores(p, "OrderMatched")
  /\ \/ /\ Duplicate(p)
        /\ Finish(p)
        /\ UNCHANGED <<event_log, live_orders, trades>>
     \/ /\ ~Duplicate(p)
        /\ Logged(p)
        /\ trades' = trades (+) SetToBag({Trade(p)})
        /\ live_orders' = Matched(live_orders, Key(p), TakerKey(p), Ev(p).quantity,
                                  Ev(p).taker_order_id # 0)
        /\ Goto(p, "maker")
  /\ UNCHANGED <<markets, book>>

StoreOrderCancelled(p) ==
  /\ Stores(p, "OrderCancelled")
  /\ \/ /\ Duplicate(p)
        /\ Finish(p)
        /\ UNCHANGED <<event_log, live_orders>>
     \/ /\ ~Duplicate(p)
        /\ Logged(p)
        /\ live_orders' = Cancelled(live_orders, Key(p))
        /\ Diff(p, "publish", {Key(p)}, {})
  /\ UNCHANGED <<markets, trades, book>>

\* MarketOrderExecuted, and TokensSplit for the four like it.
StoreLogged(p) ==
  /\ \E kind \in LoggedEvents : Stores(p, kind)
  /\ Logged(p)
  /\ Goto(p, "cursor")
  /\ UNCHANGED <<markets, live_orders, trades, book>>

\* get_live_order: what an order's row adds to the diff.
ReadBack(p, key, step) ==
  LET row == live_orders[key]
  IN IF key \notin DOMAIN live_orders THEN Goto(p, step)
     ELSE CASE row.status = "partially_filled" ->
                 Diff(p, step, {key}, {<<key, row.remaining_quantity>>})
            [] row.status = "filled" -> Diff(p, step, {key}, {})
            [] OTHER -> Goto(p, step)

AfterMaker(p) == IF Ev(p).taker_order_id # 0 THEN "taker" ELSE "publish"

ReadMaker(p) ==
  /\ Handles(p, "maker")
  /\ ReadBack(p, Key(p), AfterMaker(p))
  /\ UNCHANGED <<event_log, markets, live_orders, trades, book>>

ReadTaker(p) ==
  /\ Handles(p, "taker")
  /\ ReadBack(p, TakerKey(p), "publish")
  /\ UNCHANGED <<event_log, markets, live_orders, trades, book>>

\* A subscriber takes the removed orders out before it adds the others.
PublishDiff(p) ==
  /\ Handles(p, "publish")
  /\ book' = {entry \in book : entry[1] \notin work[p].removed} \cup work[p].added
  /\ Goto(p, "cursor")
  /\ UNCHANGED <<event_log, markets, live_orders, trades>>

UpdateCursor(p) ==
  /\ Handles(p, "cursor")
  /\ indexer_cursor' = Signature(p)
  /\ Finish(p)
  /\ UNCHANGED <<event_log, markets, live_orders, trades, book>>

\* make_redis_publisher comes before the reads, the publication after them.
RedisUnavailable(p) ==
  /\ Handles(p, "maker") \/ Handles(p, "publish")
  /\ Fault("redis")
  /\ Finish(p)
  /\ UNCHANGED <<db, book>>

\* The error ends the event; an error of a read-back only leaves the order out.
DatabaseFails(p) ==
  /\ Fault("db")
  /\ \/ (Handles(p, "store") \/ Handles(p, "cursor")) /\ Finish(p)
     \/ Handles(p, "maker") /\ Goto(p, AfterMaker(p))
     \/ Handles(p, "taker") /\ Goto(p, "publish")
  /\ UNCHANGED <<db, book>>

Store(p) ==
  \/ StoreMarketInitialized(p)
  \/ StoreWinningSideSet(p)
  \/ StoreMarketClosed(p)
  \/ StoreMetadataUpdated(p)
  \/ StoreOrderPlaced(p)
  \/ StoreOrderMatched(p)
  \/ StoreOrderCancelled(p)
  \/ StoreLogged(p)

HandleEvent(p) ==
  /\ \/ (Store(p) \/ ReadMaker(p) \/ ReadTaker(p) \/ PublishDiff(p)) /\ UNCHANGED <<indexer_cursor, faults>>
     \/ UpdateCursor(p) /\ UNCHANGED faults
     \/ RedisUnavailable(p)
     \/ DatabaseFails(p)
  /\ UNCHANGED <<ledger, main, posted>>

-----------------------------------------------------------------------------
\* main

MainIdle == work[Main].todo = << >>
Takes(n) == work' = [work EXCEPT ![Main].todo = Logs(n)]

AfterBackfill == [main EXCEPT !.step = IF WebhookOnly THEN "pending" ELSE "connect"]

\* No cursor, or no answer, and there is no backfill.
ReadCursor ==
  /\ main.step = "boot"
  /\ \/ /\ indexer_cursor # 0
        /\ main' = [main EXCEPT !.step = "list", !.until = indexer_cursor]
        /\ UNCHANGED faults
     \/ indexer_cursor = 0 /\ main' = AfterBackfill /\ UNCHANGED faults
     \/ Fault("db") /\ main' = AfterBackfill
  /\ UNCHANGED work

\* Wrong on purpose: in the order of the RPC's answer.
NewestFirst(until) == [i \in 1..(Len(ledger) - until) |-> Len(ledger) + 1 - i]
\* Wrong on purpose: the first transaction after the cursor is left out.
AllButTheFirst(until) == [i \in 1..Max({Len(ledger) - until - 1, 0}) |-> until + 1 + i]
\* Everything after the cursor, which is excluded, oldest first.
OldestFirst(until) == [i \in 1..(Len(ledger) - until) |-> until + i]

ListSignatures ==
  /\ main.step = "list"
  /\ \/ /\ main' = [main EXCEPT !.step = "fetch", !.fetch = OldestFirst(main.until),
                                !.tip = Len(ledger)]
        /\ UNCHANGED faults
     \/ Fault("rpc") /\ main' = AfterBackfill
  /\ UNCHANGED work

\* Failed transactions, and those the RPC does not deliver, are passed over.
FetchTransaction ==
  /\ main.step = "fetch"
  /\ MainIdle
  /\ main.fetch # << >>
  /\ main' = [main EXCEPT !.fetch = Tail(@)]
  /\ \/ /\ IF ledger[Head(main.fetch)].ok THEN Takes(Head(main.fetch)) ELSE UNCHANGED work
        /\ UNCHANGED faults
     \/ Fault("rpc") /\ UNCHANGED work

EndBackfill ==
  /\ main.step = "fetch"
  /\ MainIdle
  /\ main.fetch = << >>
  /\ main' = AfterBackfill
  /\ UNCHANGED <<work, faults>>

\* Only what is committed from now on is delivered.
Subscribe ==
  /\ main.step = "connect"
  /\ main' = [main EXCEPT !.step = "listen", !.at = Len(ledger) + 1, !.seen_signatures = {}]
  /\ UNCHANGED <<work, faults>>

\* Wrong on purpose: no signature is remembered.
SeesNothing(n) == FALSE
Seen(n) == n \in main.seen_signatures

\* The stream's next transaction, or one it has delivered before.
Receive ==
  /\ main.step = "listen"
  /\ MainIdle
  /\ \E n \in DOMAIN ledger :
       /\ \/ n = main.at /\ UNCHANGED faults
          \/ n < main.at /\ n \in main.seen_signatures /\ Fault("redeliver")
       /\ IF Seen(n) \/ ~ledger[n].ok
          THEN main' = [main EXCEPT !.at = Max({@, n + 1})] /\ UNCHANGED work
          ELSE /\ main' = [main EXCEPT !.at = Max({@, n + 1}), !.seen_signatures = @ \cup {n}]
               /\ Takes(n)

\* The stream ends: main connects again, without a backfill.
Disconnect ==
  /\ Fault("disconnect")
  /\ main.step = "listen"
  /\ MainIdle
  /\ main' = [main EXCEPT !.step = "connect"]
  /\ UNCHANGED work

MainStep ==
  /\ \/ ReadCursor
     \/ ListSignatures
     \/ FetchTransaction
     \/ EndBackfill
     \/ Subscribe
     \/ Receive
     \/ Disconnect
  /\ UNCHANGED <<ledger, db, posted, book>>

-----------------------------------------------------------------------------
\* The events of a batch of transactions, those of failed ones left out.
BatchLogs(batch) ==
  LET upTo[n \in 0..Len(ledger)] ==
        IF n = 0 THEN << >>
        ELSE upTo[n - 1] \o (IF n \in batch /\ ledger[n].ok THEN Logs(n) ELSE << >>)
  IN upTo[Len(ledger)]

\* helius_webhook: Helius repeats a POST until it is answered, and the answer
\* comes before the work is done.
WebhookPost(t) ==
  /\ work[t].todo = << >>
  /\ \E batch \in SUBSET DOMAIN ledger \ {{}} :
       /\ \/ batch \cap posted = {} /\ UNCHANGED faults
          \/ batch \subseteq posted /\ Fault("redeliver")
       /\ posted' = posted \cup batch
       /\ work' = [work EXCEPT ![t].todo = BatchLogs(batch)]
  /\ UNCHANGED <<ledger, db, main, book>>

\* The process ends, tasks and all, and is started again.
Crash ==
  /\ Fault("crash")
  /\ main' = Boot
  /\ work' = [p \in Processes |-> Idle]
  /\ UNCHANGED <<ledger, db, posted, book>>

\* Unless there may be a "gap", nothing is committed while main is neither
\* listening nor about to ask for what it missed.
NewTransaction ==
  /\ \/ "gap" \in Faults
     \/ main.step \in {"listen", "pending"}
     \/ main.step \in {"boot", "list"} /\ indexer_cursor # 0
  /\ Transact
  /\ UNCHANGED <<db, main, work, posted, book, faults>>

Next ==
  \/ NewTransaction
  \/ MainStep
  \/ \E p \in Processes : HandleEvent(p)
  \/ \E t \in Tasks : WebhookPost(t)
  \/ Crash

\* The runtime runs every task that can run, the RPC node delivers what was
\* committed, and Helius posts it.
Spec ==
  /\ Init /\ [][Next]_vars
  /\ WF_vars(MainStep)
  /\ \A p \in Processes : WF_vars(HandleEvent(p))
  /\ \A t \in Tasks : WF_vars(WebhookPost(t))
=============================================================================
