------------------------------ MODULE BookFeed ------------------------------
(***************************************************************************)
(* The order book of one market on its way from the table live_orders to   *)
(* the browser: the indexer publishes a diff for each order event it       *)
(* stored, the backend loads the table once (bootstrap), applies the diffs *)
(* it hears (receiver), and each socket sends a book and then the diffs of *)
(* its channel (ws_handler).                                               *)
(*                                                                         *)
(* One handler stores and publishes at a time; Indexer has what several    *)
(* concurrent handlers do.                                                 *)
(***************************************************************************)
EXTENDS OrderbookDiff, LiveOrders, FiniteSets

CONSTANTS
  Menu,       \* the orders that are placed, in this order: [side, price, quantity]
  Sockets,    \* how many sockets are opened; they are numbered as they come
  MaxCommits, \* bound: events that are stored
  Cap,        \* what a broadcast channel retains (256 in the code)
  MaxStream,  \* bound: diffs that Redis has for the receiver
  MaxFaults   \* failures of the database, Redis or a process in one behaviour

ASSUME FeedAssumption ==
  /\ Menu \in Seq([side : Sides, price : Nat \ {0}, quantity : Nat \ {0}])
  /\ Sockets \in Nat /\ MaxCommits \in Nat /\ Cap \in Nat \ {0} /\ MaxStream \in Nat /\ MaxFaults \in Nat

VARIABLES
  market,      \* markets.status, or "none"
  live_orders, \* the table, with order ids as keys
  commits,     \* transactions stored so far; the slot of a diff
  outbox,      \* the diff that is stored and not yet published, if any
  backend,     \* "boot" until bootstrap is done, then "serving"
  receiver,    \* "connecting" or "listening" to Redis
  stream,      \* what Redis has for the receiver
  inserted,    \* the diff in the book that is not yet sent to the channel
  orderbook,   \* AppState::orderbook of the market
  ob_channel,  \* the number of the sender in AppState::ob_channels, 0 if none
  client,      \* the sockets
  upto,        \* history: the unpublished commit that was in the snapshot, or 0
  lost,        \* history: orders whose last diff the book has missed
  unseen,      \* history: per socket, orders whose last diff it has missed
  twice,       \* history: orders the book has and that are put into it again
  again,       \* history: per socket, orders its book has and that it puts in again
  faults

chain   == <<market, live_orders, commits>>
sockets == <<client, unseen, again>>
server  == <<backend, receiver, stream, inserted, orderbook, ob_channel, upto, lost,
             twice>>
vars    == <<chain, outbox, server, sockets, faults>>

OrderIds == 1..Len(Menu)
Clients == 1..Sockets

\* The map of books has no entry for the market: readers find no orders.
NoBook == NewState(0)

\* A socket: its task's place, its receiver and the book the browser has.
\* `repeats' counts the diffs in rx that the browser's book already holds.
NewSocket == [step |-> "away", channel |-> 0, rx |-> << >>, lagged |-> FALSE,
              repeats |-> 0, view |-> NoBook]
GoneSocket == [NewSocket EXCEPT !.step = "gone"]

Serving == backend = "serving"
Fault == faults < MaxFaults /\ faults' = faults + 1

-----------------------------------------------------------------------------
\* The indexer: each event is one database transaction and one diff, which is
\* computed from the rows as they are read back.
Opposite(side) == <<side[1], IF side[2] = "buy" THEN "sell" ELSE "buy">>

LiveOrder(table, id) == [order_id |-> id, price |-> table[id].order.price,
                         remaining_quantity |-> table[id].remaining_quantity]

\* An order that is partly filled is removed and added, a filled one removed.
ReadBack(diff, table, id, side) ==
  IF table[id].status \notin {"partially_filled", "filled"} THEN diff
  ELSE [diff EXCEPT !.removed[side] = @ \cup {id},
                    !.added[side] = IF table[id].status = "filled" THEN @
                                    ELSE Append(@, LiveOrder(table, id))]

\* The handler is done with the event before.
Idle == outbox = << >> /\ commits < MaxCommits
Commit == Idle /\ commits' = commits + 1
Store(table, diff) == Commit /\ live_orders' = table /\ outbox' = <<diff>>

InitMarket ==
  /\ Commit /\ market = "none" /\ market' = "active"
  /\ UNCHANGED <<live_orders, outbox, server, sockets, faults>>

Settle ==
  /\ Commit /\ market = "active" /\ market' = "settled"
  /\ UNCHANGED <<live_orders, outbox, server, sockets, faults>>

PlaceOrder ==
  LET id == Cardinality(DOMAIN live_orders) + 1
      side == Menu[id].side
      table == Placed(live_orders, id, [side |-> side, price |-> Menu[id].price],
                      Menu[id].quantity)
  IN /\ market = "active" /\ id \in OrderIds
     /\ Store(table, [NewDiff(commits + 1) EXCEPT
                        !.added[side] = <<LiveOrder(table, id)>>])
     /\ UNCHANGED <<market, server, sockets, faults>>

\* The taker is the order placed last, or 0 for a market order.  A row that
\* get_live_order fails to return is left out of the diff.
Match(maker, taker, quantity) ==
  LET maker_side == live_orders[maker].order.side
      taker_side == Opposite(maker_side)
      table == Matched(live_orders, maker, taker, quantity, taker # 0)
      Read(diff, id, side, read) ==
        IF id \in read THEN ReadBack(diff, table, id, side) ELSE diff
      DiffOf(read) == Read(Read(NewDiff(commits + 1), maker, maker_side, read),
                           taker, taker_side, read)
      rows == {maker, taker} \ {0}
  IN /\ Idle /\ market = "active"
     /\ quantity <= live_orders[maker].remaining_quantity
     /\ taker # 0 =>
          /\ taker \in Listed(live_orders) /\ live_orders[taker].order.side = taker_side
          /\ quantity <= live_orders[taker].remaining_quantity
     /\ \/ Store(table, DiffOf(rows)) /\ UNCHANGED <<server, faults>>
        \/ \E failed \in SUBSET rows \ {{}} :
             /\ Fault
             /\ Store(table, DiffOf(rows \ failed))
             /\ lost' = IF Serving THEN lost \cup failed ELSE lost
             /\ UNCHANGED <<backend, receiver, stream, inserted, orderbook, ob_channel, upto,
                           twice>>
     /\ UNCHANGED <<market, sockets>>

Cancel(id) ==
  /\ Idle
  /\ Store(Cancelled(live_orders, id),
           [NewDiff(commits + 1) EXCEPT !.removed[live_orders[id].order.side] = {id}])
  /\ UNCHANGED <<market, server, sockets, faults>>

\* History: the backend never gets these diffs (those in its snapshot apart).
Missed(diffs) ==
  IF Serving THEN UNION {Touched(d) : d \in {e \in diffs : e.slot > upto}} ELSE {}
TouchedBy(diffs) == UNION {Touched(d) : d \in diffs}

\* PUBLISH reaches whoever is subscribed at that moment.
Publish ==
  /\ outbox # << >> /\ Len(stream) < MaxStream /\ outbox' = << >>
  /\ IF receiver = "listening"
     THEN /\ stream' = Append(stream, Head(outbox))
          /\ lost' = lost \ Touched(Head(outbox))
          /\ twice' = twice \ TakenOut(Head(outbox))
          /\ UNCHANGED upto
     ELSE /\ lost' = lost \cup Missed(ToSet(outbox))
          /\ twice' = twice \ TouchedBy(ToSet(outbox))
          /\ upto' = 0
          /\ UNCHANGED stream
  /\ UNCHANGED <<chain, backend, receiver, inserted, orderbook, ob_channel, sockets, faults>>

\* The indexer ends, or finds no Redis, after the commit.
Unpublished ==
  /\ Fault /\ outbox # << >> /\ outbox' = << >>
  /\ lost' = lost \cup Missed(ToSet(outbox))
  /\ twice' = twice \ TouchedBy(ToSet(outbox))
  /\ UNCHANGED <<chain, backend, receiver, stream, inserted, orderbook, ob_channel, upto,
                 sockets>>

-----------------------------------------------------------------------------
\* The backend.
NewChannel == Max({ob_channel} \cup {client[c].channel : c \in Clients}) + 1

get_orderbook(table) ==
  [side \in Sides |->
     LET ids == SetToSeq({id \in Listed(table) : table[id].order.side = side})
     IN [i \in DOMAIN ids |-> LiveOrder(table, ids[i])]]

\* bootstrap gives a book and a channel to the markets that are active, an
\* empty book if its orders cannot be read; main goes on whatever happened.
Bootstrap ==
  LET Load(state) == orderbook' = state /\ ob_channel' = NewChannel
      Skip == UNCHANGED <<orderbook, ob_channel>>
  IN /\ backend = "boot" /\ backend' = "serving"
     /\ \/ /\ market = "active"
           /\ Load(PushSnapshot(NewState(0), get_orderbook(live_orders)))
           /\ upto' = (IF outbox = << >> THEN 0 ELSE commits) /\ lost' = {}
           /\ twice' = UNION {PutIn(d) : d \in ToSet(outbox)} /\ UNCHANGED faults
        \/ /\ market = "active" /\ Fault
           /\ Load(NewState(0)) \/ Skip
           /\ upto' = 0 /\ lost' = Listed(live_orders) /\ twice' = {}
        \/ /\ market # "active"
           /\ Skip
           /\ upto' = 0 /\ lost' = Listed(live_orders) /\ twice' = {} /\ UNCHANGED faults
     /\ UNCHANGED <<chain, outbox, receiver, stream, inserted, sockets>>

Subscribe ==
  /\ Serving /\ receiver = "connecting" /\ receiver' = "listening"
  /\ UNCHANGED <<chain, outbox, backend, stream, inserted, orderbook, ob_channel, upto, lost,
                 twice, sockets, faults>>

\* Wrong on purpose: the newest diff first.
ReceiveNewest ==
  /\ stream # << >> /\ inserted = << >>
  /\ orderbook' = Apply(Last(stream), orderbook)
  /\ inserted' = <<Last(stream)>>
  /\ stream' = Front(stream)
  /\ UNCHANGED <<chain, outbox, backend, receiver, ob_channel, upto, lost, twice,
                 sockets, faults>>

\* The book with the diff takes the place of the book that was there, and a
\* market without one gets it; the lock is given up before the diff is sent on.
Receive ==
  /\ stream # << >> /\ inserted = << >>
  /\ orderbook' = Apply(Head(stream), orderbook)
  /\ inserted' = <<Head(stream)>>
  /\ stream' = Tail(stream)
  /\ UNCHANGED <<chain, outbox, backend, receiver, ob_channel, upto, lost, twice,
                 sockets, faults>>

Subscribed(c) == client[c].step = "listening" /\ client[c].channel = ob_channel

\* Each subscriber has its own place in the channel; one that is Cap diffs
\* behind loses the oldest.
Pushed(socket, diff) ==
  IF Len(socket.rx) < Cap THEN [socket EXCEPT !.rx = Append(@, diff)]
  ELSE [socket EXCEPT !.rx = Append(Tail(@), diff), !.lagged = TRUE]

Send ==
  /\ inserted # << >> /\ inserted' = << >>
  /\ LET diff == Head(inserted)
     IN /\ client' = [c \in Clients |-> IF Subscribed(c) THEN Pushed(client[c], diff)
                                        ELSE client[c]]
        /\ unseen' = [c \in Clients |->
             IF Subscribed(c) THEN unseen[c] \ Touched(diff)
             ELSE IF client[c].step \in {"away", "gone"} \/ client[c].view.slot = diff.slot
                  THEN unseen[c] ELSE unseen[c] \cup Touched(diff)]
        /\ again' = [c \in Clients |->
             again[c] \ (IF Subscribed(c) THEN TakenOut(diff) ELSE Touched(diff))]
  /\ UNCHANGED <<chain, outbox, backend, receiver, stream, orderbook, ob_channel, upto, lost,
                 twice, faults>>

\* The connection to Redis ends; what was not yet read from it is gone, and the
\* book stays as it is.
Disconnect ==
  /\ Fault /\ receiver = "listening" /\ receiver' = "connecting"
  /\ stream' = << >>
  /\ lost' = lost \cup Missed(ToSet(stream))
  /\ twice' = twice \ TouchedBy(ToSet(stream))
  /\ UNCHANGED <<chain, outbox, backend, inserted, orderbook, ob_channel, upto, sockets>>

Restart ==
  /\ Fault /\ Serving
  /\ backend' = "boot" /\ receiver' = "connecting"
  /\ stream' = << >> /\ inserted' = << >> /\ orderbook' = NoBook /\ ob_channel' = 0
  /\ upto' = 0 /\ lost' = {} /\ twice' = {}
  /\ client' = [c \in Clients |-> IF client[c].step = "away" THEN NewSocket ELSE GoneSocket]
  /\ unseen' = [c \in Clients |-> {}] /\ again' = [c \in Clients |-> {}]
  /\ UNCHANGED <<chain, outbox>>

-----------------------------------------------------------------------------
\* The sockets.
SocketStep(c, socket) ==
  /\ client' = [client EXCEPT ![c] = socket]
  /\ UNCHANGED <<chain, outbox, backend, receiver, stream, inserted, orderbook, upto, lost,
                 twice, faults>>

\* The upgrade: the book is read and sent.
Open(c) ==
  /\ Serving /\ client[c].step = "away"
  /\ c > 1 => client[c - 1].step # "away"
  /\ SocketStep(c, [client[c] EXCEPT !.step = "opened", !.view = orderbook])
  /\ again' = [again EXCEPT ![c] = UNION {PutIn(d) : d \in ToSet(inserted)}]
  /\ UNCHANGED <<unseen, ob_channel>>

\* A new receiver starts at the channel's end.
Lookup(c) ==
  /\ client[c].step = "opened"
  /\ SocketStep(c, IF ob_channel = 0 THEN [client[c] EXCEPT !.step = "create"]
                   ELSE [client[c] EXCEPT !.step = "listening", !.channel = ob_channel])
  /\ UNCHANGED <<unseen, again, ob_channel>>

\* Between the two locks another socket can have inserted a channel: its sender
\* is dropped.
Create(c) ==
  /\ client[c].step = "create"
  /\ ob_channel' = NewChannel
  /\ SocketStep(c, [client[c] EXCEPT !.step = "listening", !.channel = NewChannel])
  /\ UNCHANGED <<unseen, again>>

Deliver(c) ==
  /\ client[c].step = "listening" /\ ~client[c].lagged /\ client[c].rx # << >>
  /\ SocketStep(c, [client[c] EXCEPT !.rx = Tail(@), !.repeats = IF @ = 0 THEN 0 ELSE @ - 1,
                                     !.view = Apply(Head(client[c].rx), @)])
  /\ UNCHANGED <<unseen, again, ob_channel>>

\* After a lag these are all the orders that are put in by what is still queued.
Again(c) ==
  LET diffs == ToSet(client[c].rx \o inserted)
  IN IF client[c].lagged
     THEN (UNION {PutIn(d) : d \in diffs}) \ UNION {TakenOut(d) : d \in diffs}
     ELSE again[c]

\* Wrong on purpose: the socket of trades does no more than this.
SkipLag(c) ==
  /\ client[c].step = "listening" /\ client[c].lagged
  /\ SocketStep(c, [client[c] EXCEPT !.lagged = FALSE])
  /\ unseen' = [unseen EXCEPT ![c] = {}]
  /\ again' = [again EXCEPT ![c] = Again(c)]
  /\ UNCHANGED ob_channel

\* Lagged: the book of now is sent, and the diffs the channel still has follow.
DeliverLagged(c) ==
  /\ client[c].step = "listening" /\ client[c].lagged
  /\ SocketStep(c, [client[c] EXCEPT !.lagged = FALSE, !.repeats = Len(client[c].rx),
                                     !.view = orderbook])
  /\ unseen' = [unseen EXCEPT ![c] = {}]
  /\ again' = [again EXCEPT ![c] = Again(c)]
  /\ UNCHANGED ob_channel

Orphaned(c) == client[c].step = "listening" /\ client[c].channel # ob_channel

\* Wrong on purpose: a closed channel does not end the loop.
ContinueOrphan(c) ==
  /\ Orphaned(c) /\ client[c].rx = << >> /\ ~client[c].lagged
  /\ UNCHANGED vars

\* A receiver without a sender gets what is left, then Closed.
EndOrphan(c) ==
  /\ Orphaned(c) /\ client[c].rx = << >> /\ ~client[c].lagged
  /\ SocketStep(c, GoneSocket)
  /\ unseen' = [unseen EXCEPT ![c] = {}] /\ again' = [again EXCEPT ![c] = {}]
  /\ UNCHANGED ob_channel

\* A browser that goes away is noticed in the loop.
Leave(c) ==
  /\ client[c].step = "listening"
  /\ SocketStep(c, GoneSocket)
  /\ unseen' = [unseen EXCEPT ![c] = {}] /\ again' = [again EXCEPT ![c] = {}]
  /\ UNCHANGED ob_channel

-----------------------------------------------------------------------------
Init ==
  /\ market = "none" /\ live_orders = EmptyTable /\ commits = 0 /\ outbox = << >>
  /\ backend = "boot" /\ receiver = "connecting" /\ stream = << >> /\ inserted = << >>
  /\ orderbook = NoBook /\ ob_channel = 0 /\ upto = 0 /\ lost = {} /\ twice = {}
  /\ client = [c \in Clients |-> NewSocket]
  /\ unseen = [c \in Clients |-> {}] /\ again = [c \in Clients |-> {}]
  /\ faults = 0

MaxFill == Max({Menu[id].quantity : id \in OrderIds})

Events ==
  \/ InitMarket \/ Settle \/ PlaceOrder
  \/ \E maker \in Listed(live_orders), quantity \in 1..MaxFill :
       \E taker \in {0, Cardinality(DOMAIN live_orders)} : Match(maker, taker, quantity)
  \/ \E id \in Listed(live_orders) : Cancel(id)

Backend == Bootstrap \/ Subscribe \/ Receive \/ Send

Socket(c) == Lookup(c) \/ Create(c) \/ Deliver(c) \/ DeliverLagged(c) \/ EndOrphan(c)

Tasks == Publish \/ Backend \/ \E c \in Clients : Socket(c)

Next ==
  \/ Events \/ Tasks
  \/ \E c \in Clients : Open(c) \/ Leave(c)
  \/ Unpublished \/ Disconnect \/ Restart

\* Some task goes on as long as one can; events, users and faults are free.
Fairness == WF_vars(Tasks)

Spec == Init /\ [][Next]_vars /\ Fairness

-----------------------------------------------------------------------------
\* "sorted price desc", "sorted price asc": a book is four sorted vectors.
Books ==
  {book \in [slot : 0..commits,
             orders : [Sides -> Seq([order_id : OrderIds, price : Nat,
                                     remaining_quantity : Nat])]] : InPriceOrder(book)}

\* The type invariant.  Books stay sorted through snapshots, lags, diffs that
\* come twice and orders that are taken out and put back; no queue outgrows its
\* bound.
FeedTypeOK ==
  /\ market \in {"none", "active", "settled"} /\ DOMAIN live_orders \subseteq OrderIds
  /\ backend \in {"boot", "serving"} /\ receiver \in {"connecting", "listening"}
  /\ Len(outbox) <= 1 /\ Len(inserted) <= 1 /\ upto \in 0..commits
  /\ orderbook \in Books /\ ob_channel \in Nat
  /\ lost \subseteq OrderIds /\ twice \subseteq OrderIds
  /\ \A c \in Clients :
       /\ client[c].step \in {"away", "opened", "create", "listening", "gone"}
       /\ client[c].view \in Books /\ Len(client[c].rx) <= Cap
       /\ client[c].repeats \in 0..Cap /\ unseen[c] \subseteq OrderIds
       /\ again[c] \subseteq OrderIds

Applied(diffs, state) == FoldLeft(LAMBDA book, diff : Apply(diff, book), state, diffs)

ListedBut(ids) ==
  {[side |-> live_orders[id].order.side, order |-> LiveOrder(live_orders, id)] :
     id \in Listed(live_orders) \ ids}

\* The backend's book and the diffs on their way to it say of every order what
\* the table says, but for the orders whose last diff was never published or
\* was published while the receiver was not subscribed, or that were not loaded;
\* the next diff of a lost order repairs it.  And they say it once, but for the
\* order that was in the snapshot and whose placing was published after it: this
\* one stands in the book twice, until the next diff that takes it out.
MemoryConverges ==
  Serving =>
    LET book == Applied(stream \o outbox, orderbook)
    IN /\ EntriesBut(book, lost) = ListedBut(lost)
       /\ Doubled(book) \subseteq lost \cup twice

\* What a socket has sent and has still to send gives the backend's book, but
\* for the diffs that came between its snapshot and its subscription: also
\* after a lag, when the diffs that are still queued are older than the book
\* that was sent.  It has every order as often as the backend has it, but for those
\* in a book it sent whose placing it sent after it: by a lag, or because it opened
\* between the backend's insert and its send.
ClientConverges ==
  \A c \in Clients : Subscribed(c) =>
    LET book == Applied(client[c].rx \o inserted,
                        IF client[c].lagged THEN orderbook ELSE client[c].view)
        but == unseen[c] \cup Again(c)
    IN /\ EntriesBut(book, unseen[c]) = EntriesBut(orderbook, unseen[c])
       /\ Doubled(book) \ but = Doubled(orderbook) \ but

\* diff_side finds what turns one book into another, if both have each order once:
\* a browser's into the backend's; and nothing exactly if they have the same.
DiffExact ==
  \A c \in Clients :
    LET diff == Diff(client[c].view, orderbook)
        next == Apply(diff, client[c].view)
    IN Doubled(client[c].view) = {} /\ Doubled(orderbook) = {} =>
         /\ Entries(next) = Entries(orderbook) /\ Doubled(next) = {}
         /\ IsEmpty(diff) <=> Entries(client[c].view) = Entries(orderbook)

Grows(old, new) ==
  old # new /\ \E e \in Entries(old), f \in Entries(new) :
    /\ e.order.order_id = f.order.order_id
    /\ e.order.remaining_quantity < f.order.remaining_quantity

\* What is left of an order never grows in the backend's book, and in a browser
\* only while it gets the diffs again that were queued when it lagged.
OrdersOnlyShrink ==
  [][/\ ~Grows(orderbook, orderbook')
     /\ \A c \in Clients : Grows(client[c].view, client'[c].view) => client[c].repeats > 0]_vars

\* Once no more happens, every socket is on the channel that the receiver sends
\* to or has ended, and every browser shows the table, but for the orders that
\* were missed, and each order once, but for those that were put in again: two
\* sockets that insert a channel each leave nobody behind.
FeedSettles ==
  <>[]\A c \in Clients :
    \/ client[c].step \in {"away", "gone"}
    \/ /\ Subscribed(c)
       /\ LET missed == lost \cup unseen[c]
          IN /\ EntriesBut(client[c].view, missed) = ListedBut(missed)
             /\ Doubled(client[c].view) \subseteq missed \cup twice \cup again[c]
=============================================================================
