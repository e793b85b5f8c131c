------------------------------ MODULE ChainLog ------------------------------
(***************************************************************************)
(* What the services see of the chain: a ledger of transactions, each with *)
(* the events its instructions emitted, and for the properties the state   *)
(* of the program's accounts after it.  Matching is cut down to what an    *)
(* event can say: an instruction fills at most one resting order, and      *)
(* prices, sides, tokens and users are left out; MatchingEngine has them.  *)
(***************************************************************************)
EXTENDS Integers, Sequences, SequencesExt

CONSTANTS Markets,            \* market ids
          Quantities,         \* quantities an order may ask for
          Instructions,       \* the instructions that users send
          InstructionsPerTx,  \* at most this many in one transaction: 1 or 2
          TxBound             \* bound: the length of the ledger

VARIABLE ledger

ASSUME ChainAssumption ==
  /\ Quantities \subseteq Nat \ {0}
  /\ InstructionsPerTx \in 1..2
  /\ TxBound \in Nat

NewChain == [orders |-> << >>, markets |-> << >>]
chain == IF ledger = << >> THEN NewChain ELSE Last(ledger).after

\* A table with one more row.
With(table, key, row) ==
  [k \in DOMAIN table \cup {key} |-> IF k = key THEN row ELSE table[k]]

Outcome(state, events) == [after |-> state, events |-> events]
Event(kind, m, order, taker, quantity) ==
  [kind |-> kind, market_id |-> m, order_id |-> order,
   taker_order_id |-> taker, quantity |-> quantity]
MarketEvent(kind, m) == Event(kind, m, 0, 0, 0)

Active(c) == {m \in DOMAIN c.markets : c.markets[m].status = "active"}
Resting(c, m) == {key \in DOMAIN c.orders : key[1] = m /\ c.orders[key].resting}

\* The next order of a market, whose ids count from 1, and one OrderMatched's
\* worth of an order: fully filled orders leave the book.
NextOrder(c, m) == Cardinality({key \in DOMAIN c.orders : key[1] = m}) + 1
WithOrder(c, m, q) ==
  [c EXCEPT !.orders = With(@, <<m, NextOrder(c, m)>>,
                            [quantity |-> q, left |-> q, resting |-> TRUE])]
Filled(c, key, quantity) ==
  [c EXCEPT !.orders[key] = [quantity |-> @.quantity, left |-> @.left - quantity,
                             resting |-> @.left > quantity]]

-----------------------------------------------------------------------------
\* Each instruction is the set of its outcomes in a given state of the chain.

Initialise(c) ==
  {Outcome([c EXCEPT !.markets = With(@, m, [status |-> "active", meta_data_url |-> 0])],
           <<MarketEvent("MarketInitialized", m)>>) : m \in Markets \ DOMAIN c.markets}

\* OrderPlaced, then an OrderMatched if the order crosses a resting one.
PlaceOrder(c) ==
  LET Placed(m, q) == Event("OrderPlaced", m, NextOrder(c, m), 0, q)
      Rests(m, q) == Outcome(WithOrder(c, m, q), <<Placed(m, q)>>)
      Crosses(m, q, maker) ==
        LET taker == NextOrder(c, m)
            traded == Min({q, c.orders[maker].left})
        IN Outcome(Filled(Filled(WithOrder(c, m, q), maker, traded), <<m, taker>>, traded),
                   <<Placed(m, q), Event("OrderMatched", m, maker[2], taker, traded)>>)
  IN UNION {{Rests(m, q)} \cup {Crosses(m, q, maker) : maker \in Resting(c, m)} :
              m \in Active(c), q \in Quantities}

\* OrderMatched with taker_order_id 0, then MarketOrderExecuted.
MarketOrder(c) ==
  LET Fills(m, q, maker) ==
        LET traded == Min({q, c.orders[maker].left})
        IN Outcome(Filled(c, maker, traded),
                   <<Event("OrderMatched", m, maker[2], 0, traded),
                     MarketEvent("MarketOrderExecuted", m)>>)
  IN UNION {{Fills(m, q, maker) : maker \in Resting(c, m)} : m \in Active(c), q \in Quantities}

CancelOrder(c) ==
  UNION {{Outcome([c EXCEPT !.orders[key].resting = FALSE],
                  <<Event("OrderCancelled", m, key[2], 0, c.orders[key].left)>>) :
             key \in Resting(c, m)} : m \in DOMAIN c.markets}

SetWinningSide(c) ==
  {Outcome([c EXCEPT !.markets[m].status = "settled"], <<MarketEvent("WinningSideSet", m)>>) :
     m \in Active(c)}

CloseMarket(c) ==
  {Outcome([c EXCEPT !.markets[m].status = "closed"], <<MarketEvent("MarketClosed", m)>>) :
     m \in {n \in DOMAIN c.markets : c.markets[n].status = "settled"}}

\* The new url is a version number, carried in the event's quantity.
UpdateMetadata(c) ==
  {Outcome([c EXCEPT !.markets[m].meta_data_url = @ + 1],
           <<Event("MetadataUpdated", m, 0, 0, c.markets[m].meta_data_url + 1)>>) :
     m \in Active(c)}

\* TokensSplit, for the four kinds of event that are only logged.
SplitTokens(c) == {Outcome(c, <<MarketEvent("TokensSplit", m)>>) : m \in Active(c)}

Outcomes(c) ==
  UNION {CASE i = "initialise" -> Initialise(c)
           [] i = "place"      -> PlaceOrder(c)
           [] i = "market"     -> MarketOrder(c)
           [] i = "cancel"     -> CancelOrder(c)
           [] i = "settle"     -> SetWinningSide(c)
           [] i = "close"      -> CloseMarket(c)
           [] i = "metadata"   -> UpdateMetadata(c)
           [] i = "split"      -> SplitTokens(c)
           [] OTHER            -> {} : i \in Instructions}

Transactions(c) ==
  Outcomes(c) \cup
  IF InstructionsPerTx = 1 THEN {}
  ELSE UNION {{Outcome(second.after, first.events \o second.events) :
                 second \in Outcomes(first.after)} : first \in Outcomes(c)}

-----------------------------------------------------------------------------
Commit(ok, t) ==
  /\ Len(ledger) < TxBound
  /\ ledger' = Append(ledger, [ok |-> ok, events |-> t.events,
                               after |-> IF ok THEN t.after ELSE chain])

\* A failed transaction is on the ledger with the events it logged first.
Transact ==
  \E t \in Transactions(chain) :
    \/ Commit(TRUE, t)
    \/ "fail" \in Instructions /\ Commit(FALSE, t)

ChainInit == ledger = << >>
=============================================================================
