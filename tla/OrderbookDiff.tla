--------------------------- MODULE OrderbookDiff ---------------------------
(***************************************************************************)
(* The order book that the services pass around (common/src/state/mod.rs): *)
(* four vectors sorted by price, the diffs that change them, and the diff  *)
(* of two books.  An order is what a diff tells apart: its id, its price   *)
(* and what is left of it.                                                 *)
(***************************************************************************)
EXTENDS Integers, Sequences, SequencesExt, FiniteSets

TokenType == {"yes", "no"}
OrderSide == {"buy", "sell"}
Sides == TokenType \X OrderSide   \* yes_bids, yes_asks, no_bids, no_asks

\* OrderbookState::new
NewState(slot) == [slot |-> slot, orders |-> [side \in Sides |-> << >>]]

Ids(orders) == {orders[i].order_id : i \in DOMAIN orders}

Ahead(side, o, p) == IF side[2] = "buy" THEN o.price > p.price ELSE o.price < p.price

\* The orders that stand at the indices `kept', in the order `before' (pairs of
\* indices): each comes after those before it.
Arranged(orders, kept, before) ==
  LET place == [i \in kept |-> Cardinality({j \in kept : <<j, i>> \in before}) + 1]
  IN [k \in 1..Cardinality(kept) |-> orders[CHOOSE i \in kept : place[i] = k]]

\* retain and the loops of diff_side: what is kept keeps its order.
Kept(orders, kept) == Arranged(orders, kept, {p \in kept \X kept : p[1] < p[2]})

\* sort_by is stable: of two orders at one price the first stays first.
Sorted(side, orders) ==
  LET Before(j, i) == \/ Ahead(side, orders[j], orders[i])
                      \/ j < i /\ ~Ahead(side, orders[i], orders[j])
      D == DOMAIN orders
  IN Arranged(orders, D, {p \in D \X D : Before(p[1], p[2])})

\* Wrong on purpose: the new order is put at the end and stays there.
PushUnsorted(side, orders, order) == Append(orders, order)
Push(side, orders, order) == Sorted(side, Append(orders, order))

PushSnapshot(state, orderbook) ==
  [state EXCEPT !.orders = [side \in Sides |-> Sorted(side, orderbook[side])]]

Without(orders, ids) == Kept(orders, {i \in DOMAIN orders : orders[i].order_id \notin ids})

NewDiff(slot) == [slot |-> slot, added |-> [side \in Sides |-> << >>],
                  removed |-> [side \in Sides |-> {}]]

\* Wrong on purpose: the orders are added before the others are removed.
ApplyAddedFirst(diff, state) ==
  [slot   |-> diff.slot,
   orders |-> [side \in Sides |->
                 Without(FoldLeft(LAMBDA orders, order : Push(side, orders, order),
                                  state.orders[side], diff.added[side]),
                         diff.removed[side])]]

\* All removals come first, then the orders are pushed one by one.
Apply(diff, state) ==
  [slot   |-> diff.slot,
   orders |-> [side \in Sides |->
                 FoldLeft(LAMBDA orders, order : Push(side, orders, order),
                          Without(state.orders[side], diff.removed[side]),
                          diff.added[side])]]

\* Wrong on purpose: an order whose quantity changed is not taken out first.
AddedOnly(old, new) ==
  [added   |-> Kept(new, {k \in DOMAIN new : ~\E i \in DOMAIN old :
                  /\ old[i].order_id = new[k].order_id
                  /\ old[i].remaining_quantity = new[k].remaining_quantity}),
   removed |-> Ids(old) \ Ids(new)]

\* diff_side: an order of the new book that is not in the old one is added;
\* one with another quantity is removed and added; one that is gone, removed.
\* The map of the old orders keeps the last of two entries with one id.
DiffSide(old, new) ==
  LET InMap(i) == \A j \in DOMAIN old : old[j].order_id = old[i].order_id => j <= i
      Same(o, i) == InMap(i) /\ o.order_id = old[i].order_id
                            /\ o.remaining_quantity = old[i].remaining_quantity
      added == Kept(new, {k \in DOMAIN new : ~\E i \in DOMAIN old : Same(new[k], i)})
  IN [added |-> added, removed |-> (Ids(old) \ Ids(new)) \cup (Ids(old) \cap Ids(added))]

Diff(old, new) ==
  [slot    |-> new.slot,
   added   |-> [side \in Sides |-> DiffSide(old.orders[side], new.orders[side]).added],
   removed |-> [side \in Sides |-> DiffSide(old.orders[side], new.orders[side]).removed]]

IsEmpty(diff) ==
  \A side \in Sides : diff.added[side] = << >> /\ diff.removed[side] = {}

-----------------------------------------------------------------------------
\* What a book says of its orders, whatever their order; how often it says it is
\* told by Doubled.
Entries(state) ==
  UNION {{[side |-> side, order |-> state.orders[side][i]] :
            i \in DOMAIN state.orders[side]} : side \in Sides}
EntriesBut(state, ids) == {entry \in Entries(state) : entry.order.order_id \notin ids}

\* The orders that stand in a book more than once: push does not look for the id.
Doubled(state) ==
  UNION {{id \in Ids(state.orders[side]) :
            \E i, j \in DOMAIN state.orders[side] :
              /\ i # j /\ state.orders[side][i].order_id = id
              /\ state.orders[side][j].order_id = id} : side \in Sides}

\* The orders that a diff is about, those it takes out of a book first, and those
\* it only puts in, as the diff of an order that was placed.
Touched(diff) == UNION {Ids(diff.added[side]) \cup diff.removed[side] : side \in Sides}
TakenOut(diff) == UNION {diff.removed[side] : side \in Sides}
PutIn(diff) == Touched(diff) \ TakenOut(diff)

InPriceOrder(state) ==
  \A side \in Sides : \A i, j \in DOMAIN state.orders[side] :
    i < j => ~Ahead(side, state.orders[side][j], state.orders[side][i])
=============================================================================
