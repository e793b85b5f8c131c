# StanX: a verification project for the prediction-market backend

TLA+ modules for the order book of a StanX market and for the services that
copy it off the chain, TLC configurations that check them on small instances,
and theorems about the matching engine, the indexer, the books on their way to the browser,
the room server and the heartbeat that TLAPS proves for every instance.

## 1. The system

A StanX market is a Solana program's accounts (`limitorder.rs`,
`marketorder.rs`, `initialisemarket.rs`, `state.rs`, `events.rs`): one book
with four vectors of orders, a collateral vault, two token escrows and one
`UserStats` per user. Everything else follows the program's event log.

```
 users --> program (PlaceOrder, MarketOrder) --events--> Solana RPC / Helius
                                                             |
             webhook POSTs, WebSocket logs, RPC backfill     v
                                                      event-listener
                                       handle_event:  |           |
                               Postgres (db crate) <--+           +--> Redis pub/sub
                                       |   snapshot                      |  diffs, ticks
                                       +---------> backend <-------------+
                                                     |  snapshot, then diffs
                                                     v
                                              browser sockets          ws crate: chat rooms
```

| component | state | operations | what is hard |
|---|---|---|---|
| program: `PlaceOrder`, `MarketOrder` | book vectors, `UserStats`, vault and escrow balances, `total_collateral_locked`, `next_order_id` | lock funds, matching loop, rest / release, settle, error return | truncating divisions, removal while iterating, iteration limit, full side, rollback after partial work |
| program: `initialise` | creates the accounts | one instruction | - |
| program: cancel, claim, split, merge, set_winning_side, close_market | the same accounts | not in the repository, only their events | - |
| event-listener: `main` | cursor in Postgres, `seen_signatures` | backfill, WebSocket loop, reconnect | crash between two events of a transaction, gaps while disconnected |
| event-listener: `webhook` | - | one background task per POST, 200 at once | tasks run concurrently with each other and with `main`; nothing is retried |
| event-listener: `event_handler` | - | store, connect to Redis, read back, publish, move the cursor | an await between any two of these |
| db: event and order writes | event log tables with UNIQUE keys, `live_orders`, `trades`, `markets`, `indexer_cursor` | one database transaction per event | duplicates, reordering, foreign keys |
| db: read queries, users | - | SELECTs | - |
| common: `OrderbookState`, `OrderbookDiff` | four sorted vectors | push, push_snapshot, remove, diff, apply | a diff applied twice, or to a book that has moved on |
| backend: `bootstrap`, `receiver` | in-memory books, broadcast channels | snapshot from Postgres, then diffs from Redis | the gap between snapshot and subscription, reconnects |
| backend: sockets | one receiver per client | snapshot, then diffs; snapshot after lag | the same gap, lag |
| backend: health, heartbeat | a Redis key with a TTL | write every 10 s, read | two clocks, beats that fail or come late, a key that outlives the indexer |
| backend: REST routes, middleware, users | - | queries | - |
| ws crate: `RoomManager` | clients, subscriptions, one mutex | join, leave, broadcast | two std mutexes held across awaits, on worker threads that many tasks share |

What makes each component correct:

- *matching engine*: the accounts stay solvent to the unit, its own bookkeeping
  never refuses an instruction, the book keeps price-time priority, every trade
  is one its parties agreed to, both loops end;
- *indexer and database*: every event is stored exactly once, `live_orders` is
  the book, nothing is lost over a crash, a reconnect or a duplicate;
- *backend*: what a client sees is the book, up to messages in flight and to
  what was certainly missed, and what was missed stays contained;
- *heartbeat*: a dead indexer is noticed, a live one not reported dead;
- *ws crate*: a message sent to a room reaches its members, in one order for
  all, nobody blocks for ever.

## 2. The modules

| module | what it is |
|---|---|
| `MatchingEngine` | both instructions over the accounts, one step per turn of a loop |
| `MatchingEngineProperties` | what the engine promises |
| `MatchingEngineProofs` | theorems about it: types, vault, priority and identity of the orders; who is filled, in which order, and who stays crossed |
| `SumTheorems` | what the sum over a finite set does when an element is added or changed, and that a fold over a sequence goes from index to index |
| `LedgerProofs` | theorems about the engine: vault, escrows, what an instruction exchanges, and that every lock covers what it was taken for |
| `LiveOrders` | what the SQL statements do to the table `live_orders` |
| `IndexedEngine` | the engine beside the table a perfect indexer would keep |
| `IndexedEngineProofs` | theorems about it: the table is the book |
| `ChainLog` | the chain as the services see it: transactions and their events |
| `Indexer` | the event-listener and its database over `ChainLog` |
| `IndexerProperties` | what the event-listener promises |
| `IndexerProofs` | the theorems about it |
| `OrderbookDiff` | the four sorted vectors of `common`, diffs, and the diff of two books |
| `BookFeed` | table, Redis, backend and browsers: the order book on its way to the user |
| `BookFeedProofs` | the theorems about it and about the vectors of `OrderbookDiff` |
| `AtomicRooms` | what the room server promises: every request is one step |
| `RoomManager` | the room server with its mutexes, threads and channels; it refines `AtomicRooms` |
| `RoomManagerProofs` | the proof of that refinement |
| `Heartbeat` | the indexer's beat, Redis' expiry and the backend's health answer |
| `HeartbeatProofs` | the theorems about it |
| `MC*` | instances for TLC |

`IndexedEngine` composes `MatchingEngine` with `LiveOrders`; `Indexer` composes
`ChainLog` with `LiveOrders`; `BookFeed` composes `LiveOrders` with
`OrderbookDiff`. So `LiveOrders`, the table, is where the chain's half and the
browser's half of the system meet: it is checked against the book on one side,
and the browser against it on the other.

### MatchingEngine

The accounts are variables under the names of `state.rs`. An instruction is a
chain of steps, since both handlers are loops over a vector they change:

| step | code |
|---|---|
| `PlaceOrder`, `MarketOrder` | the guards, the transfer into vault or escrow, the new order (`limitorder.rs:108-287`, `marketorder.rs`) |
| `LimitPasses`, `MarketPasses` | a turn of the loop that steps over an order: the taker's own, one that does not cross, a fill worth nothing |
| `LimitFillBuy/Sell`, `MarketFillBuy/Sell` | a fill: maker credited, removed when filled |
| `LimitLoopEnds`, `MarketLoopEnds` | the loop's condition fails, or `max_iteration` is used up |
| `LimitFilled`, `LimitRests`, `LimitReleasesBuy/Sell` | the rest of the order |
| `MarketSettlesBuy/Sell` | the transfers at the end of a market order |
| `Fails` | any `require!`, `checked_*` or missing account: all accounts go back to `saved` |
| `Tick`, `SetWinningSide` | the clock, and the one instruction that is not in the repository but is visible in a guard |

The Solana runtime serialises transactions that write the same accounts, so
nothing interleaves with an instruction; `saved` is the state its error returns
to. Pubkeys are model values, prices and quantities small numbers, `u64`
overflow is a comparison with `MaxU64`. Event data is kept in `fills` only as
far as a property or the table needs it.

### LiveOrders and IndexedEngine

`LiveOrders` has one operator per statement. `IndexedEngine` conjoins the
engine with a table to which the events of each instruction are applied when
it commits. It asks whether the *events* are enough to rebuild the book, apart
from how they are delivered.

### ChainLog and Indexer

`ChainLog` is the environment: a ledger to which transactions are appended. An
instruction fills at most one order here, and whether an order crosses is a
choice, since the listener does not look at prices. The state of the accounts
after each transaction is kept beside it for the properties.

| variable | code |
|---|---|
| `event_log` | the twelve `event_*` tables, by their UNIQUE keys |
| `markets`, `live_orders`, `trades`, `indexer_cursor` | the tables of these names |
| `main` | where `main()` is; `until`, `fetch` are locals of `backfill`, `seen_signatures` of the stream loop, `at` is the stream's position |
| `work` | for `main` and each webhook task the events still to handle, the await `handle_event` is at, and the diff it is building |
| `posted` | the transactions whose POST was answered with 200 |
| `book` | the entries of a subscriber that applies every published diff |

One database transaction is one step (`Store...`), and so is each read-back,
the publication, and the cursor. `RedisUnavailable` and `DatabaseFails` are the
early returns; `FetchTransaction` with an `rpc` fault the `continue` of the
backfill; `Crash` loses `main`, all tasks and all that was answered but not
done. An order that must wait for its market is `Skip`.

### OrderbookDiff and BookFeed

`OrderbookDiff` translates `common/src/state/mod.rs`: `Push` appends and sorts
(stably), `Apply` first removes everything and then pushes, `DiffSide` looks old
orders up in a map. `ComputeDiff::diff` is called by no service; it is a public
function of the crate, and the run `feed` tries it on the pairs of books that
the system produces.

`BookFeed` has one step per lock or await:

| variable | code |
|---|---|
| `market`, `live_orders` | the two tables that `bootstrap` reads |
| `outbox` | the diff a handler has computed and not yet published (`event_handler.rs:116-156`, `188-306`) |
| `backend`, `receiver` | where `main` and `receiver::run` are |
| `stream` | what the Redis connection holds |
| `orderbook`, `ob_channel` | `AppState::orderbook`, `AppState::ob_channels` of the market |
| `inserted` | the diff between the write lock of `receiver.rs:84` and the send of `receiver.rs:90` |
| `client` | per socket: the await `handle_socket` is at, its broadcast receiver, and the browser's book |

Channels are numbered as they are made, so that two sockets that both find none
(`ws.rs:42-50`) make two and the first loses its sender. `tokio::broadcast` is
modelled by what a receiver sees of it: its own queue of at most `Cap` diffs,
which drops the oldest and reports the lag first. The browser is the one the
messages are meant for: a snapshot replaces its book, a diff is applied.

Six variables are history: `lost`, the orders whose last diff the backend has
not got and will not get; `unseen`, the same for a socket and the diffs between
its snapshot and its subscription; `upto`, a diff the snapshot already
contained; `repeats` in a socket, the diffs in its queue that its book already
holds; `twice`, an order the snapshot has and a diff under way puts in again;
`again`, the same for a socket and the books it sent. They make the properties
exact: nothing else may differ, neither what a book says of an order (`Entries`)
nor how often it says it (`Doubled`).

### RoomManager and AtomicRooms

actix runs a connection's reader and its forwarder on one worker thread. A task
keeps the thread until it awaits; `Mutex::lock` of the standard library keeps
the thread and waits. That is what `Free` says: a thread runs something only if
none of its tasks waits for a mutex (`reader` at "locking", or the forwarder in
`stuck`) or is computing ("emit"). A broadcast takes the Mutex of all rooms and
emits user by user; when a channel is full it awaits ("full"), the thread goes
on with other tasks, and the Mutex stays locked. `Ping` is the other lock that
is held over an await: that of the session.

`AtomicRooms` has one step each for joining, leaving and posting. The refinement
mapping: members are `subscriptions`; the mail of a user is his channel and, if
the broadcast under way has yet to reach him, its message. So `SendMessage` is
the abstract `Post`, every `Emit` is a stutter. `AtomicRooms` lets a user leave
any set of rooms in a step, and says nothing of which; that LeaveRooms leaves
all of them is the action property `LeavingLeavesAll`.

### Heartbeat

One second is one `Tick`. The indexer's clock is `skew` ahead of the backend's;
a beat can fail (`set_ex` without Redis), come up to `Delay` late, and the
indexer can crash and restart at any time. Redis can stop answering at any time
(`Outage`) and come back (`Recovery`) with the key or without. `indexer_ok` is
`health_handler`'s answer: a connection or a GET that fails is a `None` and a 503
like a key that is not there (`health.rs:26-29`), so that nothing can be said of
a live indexer while Redis is away. The handler reads its clock before it reads
the key, the model both in one instant; a key written in between is newer than
that clock, which `saturating_sub` makes 0.

## 3. The runs

| run | question | bounds |
|---|---|---|
| `engine` | do the 14 properties of the engine hold with every guard and error path in play, and do the events rebuild the book? | 2 users, 1 token, 3 orders, quantities 1-2, prices 1 and 3 at scale 2, `MaxU64` 9, sides of 2 |
| `three` | do three-party trades with both tokens balance, do the loops end? | 3 users, 2 tokens, 3 orders of 2, market orders of 3 |
| `dust` | is a bid's collateral released to the last unit? *No.* | 2 users |
| `indexed_full` | is every listed order on the book when a side fills up? *No.* | sides of 1 |
| `listening` | does one source keep table, diffs and markets up to date, and store everything? | 4 transactions, one repeated delivery |
| `recovery` | does the backfill close the gap it was started for? | 4 transactions, 2 faults out of crash, lost stream, lost Redis |
| `concurrent` | what holds whatever happens? | 3 transactions, 2 webhook tasks and the backfill, 1 fault of any kind |
| `crash` | is everything up to the cursor stored? *No.* | 3 transactions, 1 crash |
| `ghost` | does a subscriber hold an order once? *No.* | 3 transactions, 2 tasks, no fault |
| `feed` | what can the backend's and a browser's book be wrong about, and do they settle? | 3 orders, 4 events, 2 sockets, channels of 1, 1 failure |
| `rooms` | are broadcasts atomic, does who leaves all rooms leave them, and what can hang a broadcast? | 2 users, 2 rooms, 2 messages, 1-2 threads, channels of 1 |
| `heartbeat` | is a death noticed, is a life believed? | the code's 10, 60 and 30 s, 1 failed beat, beats up to 2 s late, any outages of Redis that fail no more, clocks -6, 0 and 45 s apart, 100 s |

Why the bounds are enough. *Engine:* price 1 at scale 2 makes a fill of one
unit worth nothing and price 3 leaves a remainder, which are the two effects of
truncation; three orders are a maker, a second maker behind or in front of it,
and a taker; sides of two are filled by two of them; `MaxU64` 9 lets a market
order of 5 overflow. *Indexer:* a market, an order and what happens to it take
three transactions; the races are between the events of one order, so two
tasks and the backfill are all the parties a race has; every property that
fails does so with two parties. *Feed:* an order, one that takes a part of it
and one that goes before it; two sockets are what it takes to make two channels;
channels of one lag at the second diff, and the second of two diffs is the one
that is older than the book sent for the lag; one failure is enough for each kind
of loss, and `lost` says how losses add up. *Rooms:* one full channel suspends a
broadcast, and two users on one thread or on two are the two ways a thread can
be the one that would empty it; two rooms are one that is left and one that is not.
*Heartbeat:* 100 s are longer than the key
lives after any beat of the first 40.

`CHECK_DEADLOCK FALSE` stands in every configuration because the bounds
(`OrderIdBound`, `TxBound`) and the settled market stop the system. That no
instruction gets stuck is `Terminates`, that no event does is
`EverythingStored`; the feed and the room server stop when no events are left or
all users are gone, and the room server when it hangs, which is what
`OnlyBlockedThreadsHang` is about.

**Fairness.** `MatchingEngine`: weak fairness of the steps of an instruction in
flight, as the runtime executes it to its end; none for submitting one.
`Indexer`: weak fairness of `main`, of each task and of the POSTs: tokio runs
every task that is ready, the RPC node delivers what was committed, and Helius
repeats a POST until it is answered. Nothing makes the chain go on, and faults
are never required. `BookFeed`: weak fairness of all the tasks together - tokio
goes on with something as long as anything is ready; events, browsers that come
or go, and faults are free. `FeedSettles` needs no more, since events are
bounded and no task runs for ever without them. `RoomManager`: weak fairness of
each broadcast and each forwarder, which are enabled only when their thread is
free; the runtime polls a task that was woken. A pong may take for ever, and
nobody has to ask for anything. `Heartbeat` has no fairness: a `Tick` that may
not pass a beat that is due says that tokio's timer is at most `Delay` late.

**No gaps.** `NewTransaction` is held back while `main` neither listens nor is
about to ask for what it missed, unless `Faults` has `"gap"`. What is committed
between the listing of a backfill and the subscription, or while the stream is
down, is certainly lost (no backfill follows a reconnect, `main.rs:178`), and the
runs ask about the rest. `concurrent` has the gap.

## 4. What the runs found

Each is a line of the repository that the code does not live up to; the
counterexamples are short.

1. *dust*: `marketorder.rs:394` says a fill releases exactly what was locked.
   Each fill truncates; the truncated parts of a bid add up to less than the
   truncated whole, and the difference stays in `locked_collateral`.
2. *indexed_full*: the rest of an order whose side is full is released without
   an event (`limitorder.rs:616`); the table keeps listing it.
3. *crash*: the cursor is set after each event (`event_handler.rs:498`) and the
   backfill starts behind it: what a crash cuts off inside a transaction stays
   lost.
4. *ghost*: two handlers publish in another order than they stored in, and a
   subscriber holds an order twice, which `event_handler.rs:206` sets out to
   prevent.

The effect of 4 has a second cause, with one handler and no fault. The diff of
OrderPlaced only adds (`event_handler.rs:139`) and `push` does not look for the
id (`mod.rs:66`). If the backend loads the table after an order was stored, and
subscribes before its diff is published (InitMarket, PlaceOrder, Bootstrap,
Subscribe, Publish, Receive), the order stands in its book twice, and in every
browser's that is sent that book. It has no run of its own: `MemoryConverges`,
`ClientConverges` and `FeedSettles` name the orders that can be doubled (`twice`,
`again`), and say that no others are.

Two more follow from reading the statements and have no run. The key of a match,
`(signature, maker_order_id)` (`events.rs:384`), does not tell two fills of one
maker by two instructions of one transaction apart: the second is dropped, while
the migration calls the event tables an audit trail of every event. And the
UPDATEs of `markets` run for duplicates too (`events.rs:251`): a POST with a
WinningSideSet that arrives after the stream delivered the MarketClosed settles a
closed market. `listening` has one instruction per transaction and one source,
where neither happens.

Concurrent tasks have one more effect of the same kind as 4: a match or a
cancellation handled before its order was placed updates no row
(`events.rs:426`, `504`), and the order stays listed. `TableFollowsChain` holds
for a single source and is not claimed for more.

What the passing runs say is as much worth knowing:

- `OnlyReleasedLinger`: a full side is the *only* reason why the table lists an
  order that is not on the book.
- `MemoryConverges`: nothing compares slots, and a diff that the snapshot already
  contained is applied again. One of a match or a cancellation takes the order
  out first and changes nothing; one of OrderPlaced puts it in a second time, with the quantity it has anyway. The next diff that takes the
  order out takes out both; there may never be one. What is lost is lost per
  order, and the order's next diff repairs it. The gaps (bootstrap before the
  subscription, `main.rs:58`; a reconnect; a publication that failed) are not
  closed by anything else.
- `ClientConverges`, `OrdersOnlyShrink`: after a lag the browser gets the newest
  book and then older diffs. Its book goes back by those and comes forward
  again; only there does an order's quantity ever grow. An OrderPlaced among
  those diffs doubles the order in the browser, if no later one of them takes
  it out; so does one that a socket sends after a book that was read between
  the receiver's insert and its send (`receiver.rs:84-92`).
- `FeedSettles`: in the end every browser shows the table but for what was
  missed, and each order once but for those put in again, which stay doubled
  until their next diff. Of two sockets that make two channels, the first is
  closed and ends. It is not left behind with an old book, but its browser has
  to connect again.
- `OnlyBlockedThreadsHang`: a broadcast to a full channel hangs for ever only
  when a thread that it needs, its own or the forwarder's, is blocked in
  `lock()`: by anybody on that thread who sends, joins or leaves meanwhile, or by
  a forwarder whose reader awaits a pong with the session locked. Then every
  other user of the server hangs too, as the Mutex stays locked. With one worker
  thread, one more request while a channel is full is enough. A `tokio::sync`
  mutex would not have this. A user who left is no reason: his forwarder goes on
  emptying the channel, for the sender stays in `clients`.
- The forwarder does not await what `session.text` returns (`main.rs:91`), so the
  messages never leave the server; `AtomicRooms` promises them up to there.

## 5. What is proved

`MatchingEngineProofs`, for any number of users, tokens, orders and any values
of the constants that satisfy `ParametersAssumption`:

- `TypeCorrect`: `Spec => []TypeOK`. `TypeOK` is inductive: every subtraction
  in the model is guarded by what the code's `checked_sub` tests, so balances
  stay natural numbers. One lemma per action.
- `VaultCorrect`: `Spec => []VaultTracked`. By itself it is not inductive, since
  `Fails` restores accounts from before; `VaultInv` adds the same equation for
  `saved`.
- `BookPriorityCorrect`, `RestingOrdersCorrect`: `Spec => []BookPriority` and
  `Spec => []RestingOrdersLive`, from `BookInv`. Priority at one price is by id,
  and survives the insertion of the order in flight only because that order is
  younger than all that rest; so `BookInv` says that for the whole loop, and
  keeps priority, liveness and distinctness for `saved.book` too. The lemmas
  `UnlinkKeepsBook`, `FilledKeepsBook`, `InsertKeepsBook` are about the three
  ways a vector changes; `BookStep` has one case per action.

About the two loops, in the same module, from `TypeOK` and `BookInv`:

- `MakerFilledOnceCorrect`: `Spec => []MakerFilledOnce`. What the loop traded
  with is unlinked or behind `idx` (`FillsBehind`), and ids are distinct.
- `BestFirstCorrect`: `Spec => BestFirst`. The invariant is `PassedInv`: whatever
  lies behind `idx` is excused (own, filled, priced out, or worth no collateral).
  It is inductive because what the taker can still take only falls, and with it
  the truncated cost: `ProductGrows`, `QuotientGrows`, `CostGrows`. An order in
  front of `idx` is worse than the maker by `BookPriority`, and a priced-out one
  behind it would price the maker out as well (`FillIsBest`).
- `CrossedForAReasonCorrect`: `Spec => []CrossedForAReason`. `LoopInv` carries why
  the taker did not trade from the loop into the insertion: in a limit order a
  partly filled maker means that nothing is left to rest, so there `NoTrade` does
  without "filled". `LimitRestsCrossed` turns it into the pairs the new order
  makes; `FewerCrossed` says that removals and fills only lose pairs or shrink
  them. The accounts before the instruction satisfy it too, since `Fails`
  restores them.

`SumTheorems` is what the sums need. `SumFunctionOnSet` of the community modules
is a recursive function; that it splits off any element (`SumSplit`, `SumChanges`,
`SumAddsElement`) holds for every finite set, and is proved from a smallest
counterexample, which exists because the subsets of a finite set are
well-founded (`SmallestSubset`). Hence `Users` and `Tokens` are finite in
`ParametersAssumption`. It also has what a fold over a sequence needs: `FoldLeft`
is a recursive function over sets of indices. One that follows the steps exists
and is typed (`RecursExists`, `RecursIn`), again because the set of those on which
it fails has no smallest member, and it takes the elements one by one
(`RecursSteps`).

`LedgerProofs`, from the same assumption and from `TypeOK`:

- `VaultBacksUsersCorrect`, `EscrowBacksUsersCorrect`: the invariant `SolventInv`
  is both equations for the accounts as they are, with what a market order in
  flight has yet to settle, and for `saved` with nothing due, since a rollback
  returns there. Each action moves amounts between two places of one balance
  sheet (`LimitMovesSolvent`, `MarketFillSolvent`, `MarketSettlesSolvent`).
- `FairExchangeCorrect`, `LimitPriceHonouredCorrect`: action properties of the
  commit, from `ExchangeInv` about the instruction so far. It says what every
  user has gained since the last commit, counting what a market order's taker
  is still due; that the buyers' money and the sellers' tokens only fall, never
  one without the other, and add up to nothing (`Deal`; who may buy is fixed by
  the taker and its side); and that a limit order's price was kept but for a
  truncated unit a fill (`PriceKept`). A fill that yields no collateral would
  break it: the loops step over those, and `DealGrows` needs it.

In the same module, from `TypeOK`, `BookInv` and `SolventInv`:

- `AsksBackedCorrect`, `BidsBackedCorrect`: the invariant `BackedInv` is the two
  properties with the order in flight, and for `saved`. The sums range over the
  orders of a user on some books; `RemovedWorth`, `TradedWorth`, `InsertedWorth`
  say what the three changes of a vector do to them. Bids need that truncated
  costs only lose by splitting, `Cost(a) + Cost(b) <= Cost(a + b)` (`CostSplits`);
  what they lose stays locked (the finding of run `dust`).
- `AccountingNeverFailsCorrect`: what a fill takes from the maker is part of one
  summand of the maker's lock (`MakerCovered`), what the taker's side needs is
  what `BackedInv` keeps for it, and the vault has all that anybody locked
  because of `SolventInv`. So the error paths of `checked_sub` in fills, releases
  and settlements are dead code.

`HeartbeatProofs`, for any period, expiry, threshold, delay and set of skews
that satisfy `HeartbeatAssumption`:

- `HeartbeatTyped`; `DeathIsNoticed`: `Spec => []DeathNoticed`;
  `NoAlarmIsFalse`: `Spec => []NoFalseAlarm`. The properties speak of the key
  and the time of death only, which is not inductive: the invariant adds how old
  the key is, at most one period and delay per beat missed while the indexer is
  up, and no younger than the death while it is down; neither an outage of Redis
  nor the loss of the key disturbs that. `NoAlarmIsFalse` is about the times at
  which Redis answers. The arithmetic over `Gap`, a product, is a lemma of its
  own.

`RoomManagerProofs`, for any users, rooms, messages, threads and capacity:

- `RoomsCorrect`: `Spec => []RoomsInv`. It says that members have a channel and
  the room in their own set (so nobody is passed over and LeaveRooms finds every
  room), that a broadcast is under way only for the holder of the Mutex, and that
  who asks has connected.
- `LeavingCorrect`: `Spec => LeavingLeavesAll`, from the same invariant: who is in a
  room has it in the set that LeaveRooms goes by, which may have more.
- `RoomsImplementAtomicRooms`: `Spec => ImplementsAtomicRooms`, from that
  invariant: `InitAtomic` maps the initial states, `StepAtomic` every step to one
  of `AtomicRooms` or to a stutter. `PushKeepsMail` is the heart of it: moving
  the message from `targets` to a channel changes nobody's mail. The step that
  needs the invariant most is `LeaveRooms`.

`IndexedEngineProofs`, from `ParametersAssumption`, `TypeOK` and `BookInv`:

- `RestingOrdersListedCorrect`, `OnlyReleasedLingerCorrect`,
  `RowsOnlyShrinkCorrect`: the three properties speak of committed books, but an
  instruction changes the book fill by fill and the table all at once. So
  `IndexInv` follows the table that the events so far would leave if they were
  stored now (`SoFar`): it mirrors the book in flight (`Mirrors`), is further
  than the stored one in the sense of `RowsOnlyShrink` (`Shrunk`), and lists one
  order that does not rest yet, the taker, while it has something left
  (`Pending`). That order either rests, and then the row is its row
  (`RestsIndexed`), or is filled, and then it is not listed, or is given back,
  and then it lingers: `released` grows by exactly `Pending`.
- `SoFar` is a fold. What a fill adds to it is proved without induction
  (`RecordedNone`, `RecordedAppend`): only one function over the sets of indices
  follows the events, and the latest index of a set with a new largest one is
  that one.
- `UnlinkOrders`, `FilledOrders`, `InsertOrders` say what the three changes of a
  vector do to the set of resting orders.

`IndexerProofs`, for any markets, tasks, faults, bounds and whatever the ledger
holds:

- `MarketsFirst`: `Spec => []RowsHaveMarkets`, which no run checks. It is inductive as it stands: no
  row of `markets` is ever deleted, the one insertion into `live_orders` is
  behind the foreign key, and a row of another kind never has the key of an
  `OrderPlaced` (`UniqueKeyParts`). One case per statement of the database.
- `CursorsStored`: `Spec => []CursorStored`. It needs what every process knows
  between two awaits: one that is past its database transaction finds its
  event's row (`WorkLogged`), although other processes write in between.
  `OneProcess` says that a step of one process disturbs that for no other.
- `NeverOverfilledCorrect`, `TradesHappenedCorrect`, `IndexerTypeCorrect`: from
  `IndexInv`, which relates four things that no step sees together: the
  accounts, the ledger, the log and the table. On the chain, what an order has
  traded is the sum of what the events on the ledger take off it
  (`LedgerSound`; `TransactionReaches` has one lemma per instruction, and ids
  count up, so that a new order is new). Of that sum, `Due` is what is not in
  the log yet. A row has what its order has left *plus* what is due
  (`RowCovers`), and that is what makes it inductive: a commit moves an amount
  from "left" to "due" (`CommitCovers`), logging a fill takes it off both the
  row and what is due (`FillCovers`), and a fill that is logged before there is
  a row only lowers what is due (`LoggingCovers`), so a row that comes late has
  too much, never too little (`NewRowCovers`). The UNIQUE key is what keeps a
  fill from being taken off twice; that it also merges two fills of one maker
  in one transaction (section 4) is on the safe side of the inequality. A
  trade's fill is in the log (`TradeFits`), so the second insertion of the same
  trade fails. Sources deliver only what transactions that succeeded logged
  (`Deliveries`), in any order and number.
- `CursorForward`: `Spec => CursorNeverGoesBack` if there are no webhook tasks,
  which is what the property is about, and with all faults. `ForwardInv` says
  that what `main` has in hand is of one transaction at or after the cursor, and
  that what it takes next (`fetch`, `at`) comes no earlier; a crash clears all
  of it and starts behind the cursor.
- What one source keeps needs to know what events tell. Along a transaction's
  events there is a path of accounts (`Path`) on which each event finds what it
  is about (`Finds`) and says exactly what changes (`Tells`); `PerformsReaches` has
  that for every instruction. `HistoryInv` says it of the whole ledger, and what
  follows: after an order was placed, its market is not initialised again and the
  order not placed again (`Excludes`).
- `BackfillCorrect`: `Spec => []BackfillComplete`, without webhook tasks and without
  errors of the database or the RPC, each of which loses an event or a
  transaction for good (hazards at `main.rs:266` and in `handle_event`).
  `BackfillInv` says how far the backfill is (`Position`), that `fetch` is all of
  the rest, and that what was passed is stored, in hand, or an order of a market
  that is unknown and, by `HistoryInv`, stays so.
- `DiffsCorrect`: `Spec => []DiffsFollowTable`, without webhook tasks, crashes and
  errors of the database or Redis, each of which can come between a row and its
  diff. The stream may have gaps, break and redeliver, and the RPC may fail.
  `ShownInv` relates the subscriber's book, the diff in hand and the table in the
  middle of an event: what the subscriber would hold after the diff is what the
  table lists, but for the keys that are not read back yet (`DiffSound`). A new
  order has no row yet, because it was placed once (`FreshKey`).
- `MarketsCorrect`, `TableCorrect`: `Spec => []MarketsFollowChain` and
  `Spec => []TableFollowsChain`, without webhook tasks, crashes, lost streams,
  database errors, and transactions before `main` listens: one undisturbed
  source. `FollowInv` says which event of which transaction `main` is at, and
  that the tables are the accounts at that point of the path (`Told`); `StoreTold`
  has one case per statement of the database. `TableCorrect` also needs one
  instruction in a transaction: with two, the UNIQUE key of a match may hold a
  second fill of the same maker back, and the table is wrong (section 4).

`BookFeedProofs`, for any menu of orders, sockets, commits, channel capacity,
stream and faults that satisfy `FeedAssumption`, and for the queues and vectors
of `OrderbookDiff` of any length. First the operators:

- `SortedProperties`, `KeptProperties`: what is arranged by a strict order is each
  order once (`ArrangedProperties`, from counting who comes before whom:
  `PlacesCount`), so a stable sort is in price order and keeps the entries.
  `PushAllProperties` has that for all pushes of a diff, and `ApplyProperties` says
  what a diff does to a book: it stays sorted, and its entries are the old ones
  but for the removed, and the added.
- `DiffIsExact`: the diff of two books with one entry per order turns one into the
  other, and is empty only if they agree.
- `AppliedTells`: what a book says of an order after any sequence of diffs is what
  the last of them says that touches the order. The others may be anything,
  older than the book or in it already: that is why a diff that comes twice, or
  after the snapshot that has it, does not change what is said of the order.

The invariant is `FeedInv` (`FeedCorrect`: `Spec => []FeedInv`), one lemma per
action. None of the properties is inductive, since each speaks of a book after
all diffs that are on their way and a step changes both. What is inductive
speaks of one order and one diff at a time:

- `DiffInv`: diffs have different slots, and the first one of an order is the one
  that does not take it out; `OrderInv`: what has reached the book is older than
  what has not, except a diff that was in the snapshot; `InSnapshot` says that that
  one is next, and tells what the book says anyway.
- `MemoryInv`: of an order that is not lost, the latest diff on its way, or the
  book if there is none, tells what the table says; `Tells`: the diff in hand
  tells what its origin says. `CatchesUp` and `Shows` are the same for a socket and
  the backend's book, `SocketOrder` the same as `OrderInv`.
- `Fresh`: a book that has an order before the diff that says it is there has it
  as the diff says, so that the second entry is the same as the first.

From it follow

- `FeedTypeCorrect`: `Spec => []FeedTypeOK`: all books stay sorted, all queues bounded.
- `MemoryCorrect`: `Spec => []MemoryConverges`; `ClientCorrect`:
  `Spec => []ClientConverges`. What the books say is by `AppliedTells`, how often
  they say it from the invariant described below.
- `DiffCorrect`: `Spec => []DiffExact`, by `DiffIsExact`; what the lemma asks of the
  two books, that an order has one price in both, is `Home` in `KnownBook`.

How often the books have an order is a second invariant over `FeedInv`, `TwiceInv`
(`TwiceCorrect`), one lemma per action. `ApplyDoubles` and `AppliedDoubles` say
what diffs do: one that takes an order out leaves it at most once; one that only
puts it in (`Puts`: OrderPlaced's) doubles it exactly if it is there already.

- `MemoryTwice`: an order that a diff is to put in is not in the backend's book
  yet, but for those in `twice`; one that no diff touches any more is in it once.
- `ShowsTwice`: an order that no diff still queued for a socket touches is doubled
  in the browser's book exactly if it is in the backend's; one that such a diff
  puts in last is there before it exactly if the backend's book has it doubled;
  but for those in `unseen` and `again`. `UnseenOnce`: what a socket has not seen
  was placed before, so that no diff puts it in later.

The action property needs a third invariant, `ShrinkInv`, because a
step that puts an entry into a book takes it from a queue, from the table or from
another book:

- `Bounds(book)`: what a book says is left of an order bounds what the table says,
  what any diff on its way to the backend says, and what the backend's book says. It
  holds of the backend's book and of every browser's. `DiffsShrink` is the same for
  the diffs among themselves and against the table and the backend's book.
- `LessComes`: a browser's book bounds the diffs in its queue, except the first
  `repeats` ones, which were in the snapshot it got when it lagged.
- `EvensOut`: when those are over, the book says one quantity of an order, or the next
  diff takes the order out (`TakenNext`). Repeated diffs can leave an order in the
  book twice, with two quantities; without this it could stay there, and be the
  bigger one again after a step about another order. `Agrees` says it while there
  are repetitions to come: the last of them that touches an order decides.

- `ShrinkCorrect`: `Spec => OrdersOnlyShrink`, one lemma per action again.

Only model-checked: liveness under fairness (`Terminates`, `EverythingStored`,
`FeedSettles`, `OnlyBlockedThreadsHang`), which with ENABLED is out of the prover's
reach. Every safety property that a passing run checks is a theorem, under the
faults named above.

## 6. What is not modelled

- The instructions whose handlers are not in the repository (cancel, claim,
  split, merge, set_winning_side, close_market). The engine has the one that a
  guard depends on; the ledger has the events of all of them.
- Account constraints, mints, token program internals, event encoding.
- Trade ticks, the price socket and candles: ticks are forwarded once and nothing
  remembers them; the channel they pass through is made and lost as the one for
  diffs, which is modelled.
- REST queries, sign-up and sign-in, the JWT middleware: one query or one check
  per request, without a state of their own.
- The oracle's resolutions: one INSERT that keeps the first and that nothing in
  the repository calls.
- Several markets in `BookFeed`: books and channels are per market and share only
  the connection to Redis and the maps' locks.
- The order of several indexer handlers in `BookFeed`: they publish one at a time
  there; `Indexer` has what happens when they do not (run `ghost`).

## 7. Plan

1. The indexer without its faults as an implementation of `IndexedEngine`'s
   table.
2. `BookFeed` with two handlers that publish in any order.
