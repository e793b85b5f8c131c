------------------------ MODULE IndexedEngineProofs ------------------------
(***************************************************************************)
(* Theorems about the table live_orders beside the on-chain book, for      *)
(* every value of the constants: the events of each instruction add up to  *)
(* what it did to the book, with nothing left but the orders whose rest    *)
(* was given back because their side was full.                             *)
(***************************************************************************)
EXTENDS IndexedEngine, MatchingEngineProofs, SumTheorems

-----------------------------------------------------------------------------
(* Tables *)

Announcements == [user_key : Users, side : Sides, token_type : Tokens, price : Nat]
Rows == [order : Announcements, remaining_quantity : Nat, status : OrderStatus]

IsTable(table) == table \in [DOMAIN table -> Rows]

\* The orders of a book, and their ids.
OrdersIn(bk) == UNION {InBook(bk, c) : c \in Books}
Ids(orders) == {o.id : o \in orders}

\* Every order has the row it should have, and what is listed without being
\* one of them is what lingers.
Mirrors(table, orders, lingering) ==
  /\ \A o \in orders : o.id \in DOMAIN table /\ table[o.id] = Row(o)
  /\ Listed(table) = Ids(orders) \cup lingering
  /\ Ids(orders) \cap lingering = {}

\* Rows stay, what they have left does not grow, and none is listed again.
Shrunk(old, new) ==
  \A key \in DOMAIN old :
    /\ key \in DOMAIN new
    /\ new[key].remaining_quantity <= old[key].remaining_quantity
    /\ key \in Listed(new) => key \in Listed(old)

-----------------------------------------------------------------------------
(* The table the instruction in flight would leave if it ended here *)

Recorded(base, id, events) ==
  FoldLeft(LAMBDA table, fill : Matched(table, fill.maker, id, fill.quantity, id # 0),
           base, events)

Base == IF LimitInFlight
        THEN Placed(live_orders, taker.id, Announced(taker), taker.quantity)
        ELSE live_orders

SoFar == Recorded(Base, taker.id, fills)

\* The order in flight is listed, although it does not rest, while it has
\* something left.
Pending == IF LimitInFlight /\ Left(taker) > 0 THEN {taker.id} ELSE {}

InFlightInv ==
  /\ LimitInFlight =>
       /\ taker.id = saved.next_order_id /\ next_order_id = taker.id + 1
       /\ Left(taker) \in Nat /\ taker.id \in DOMAIN SoFar
       /\ SoFar[taker.id].remaining_quantity = Left(taker)
       /\ Left(taker) > 0 => SoFar[taker.id] = Row(taker)
  /\ ~LimitInFlight => taker.id = 0 /\ next_order_id = saved.next_order_id

\* A table that mirrors a book which has handed out the ids below n.
TableInv(n, table, orders, lingering) ==
  /\ n \in Nat \ {0} /\ DOMAIN table \subseteq 1..(n - 1) /\ lingering \subseteq DOMAIN table
  /\ IsTable(table)
  /\ Mirrors(table, orders, lingering)

IndexInv ==
  /\ TableInv(saved.next_order_id, live_orders, OrdersIn(saved.book), released)
  /\ TableInv(next_order_id, SoFar, OrdersIn(book), released \cup Pending)
  /\ Shrunk(live_orders, SoFar)
  /\ InFlightInv
  /\ pc = "idle" => fills = << >> /\ book = saved.book

-----------------------------------------------------------------------------
(* The fold over the events of an instruction *)

\* g follows the events over every subset of their indices.
Follows(g, base, id, events, S) ==
  g = [T \in SUBSET S |->
         IF T = {} THEN base
         ELSE Matched(g[T \ {Max(T)}], events[Max(T)].maker, id,
                      events[Max(T)].quantity, id # 0)]

LEMMA RecordedIs ==
  ASSUME NEW base, NEW id, NEW events
  PROVE  Recorded(base, id, events)
           = (CHOOSE g : Follows(g, base, id, events, DOMAIN events))[DOMAIN events]
BY DEF Recorded, FoldLeft, MapThenFoldSet, Follows

\* Two such functions agree where both are defined and the events are the same.
LEMMA FollowsUnique ==
  ASSUME NEW base, NEW id, NEW events, NEW others,
         NEW S, HasLatest(S), NEW R \in SUBSET S,
         \A i \in R : events[i] = others[i],
         NEW g, Follows(g, base, id, events, S),
         NEW h, Follows(h, base, id, others, R)
  PROVE  g[R] = h[R]
<1> DEFINE B == {T \in SUBSET R : g[T] # h[T]}
<1> SUFFICES ASSUME B # {} PROVE FALSE
  OBVIOUS
<1>1. PICK T \in B : \A U \in B : ~(U \subseteq T /\ U # T)
  <2>1. B \subseteq SUBSET S  OBVIOUS
  <2> HIDE DEF B
  <2> QED  BY <2>1, SmallestSubset DEF HasLatest
<1>2. T # {}  BY <1>1 DEF Follows
<1>3. Max(T) \in T  BY <1>1, <1>2 DEF HasLatest
<1>4. T \ {Max(T)} \in SUBSET R /\ T \ {Max(T)} # T  BY <1>1, <1>3
<1>5. g[T \ {Max(T)}] = h[T \ {Max(T)}]  BY <1>1, <1>4
<1>6. g[T] = Matched(g[T \ {Max(T)}], events[Max(T)].maker, id,
                     events[Max(T)].quantity, id # 0)
  BY <1>1, <1>2 DEF Follows
<1>7. h[T] = Matched(h[T \ {Max(T)}], others[Max(T)].maker, id,
                     others[Max(T)].quantity, id # 0)
  BY <1>1, <1>2 DEF Follows
<1>8. events[Max(T)] = others[Max(T)]  BY <1>1, <1>3
<1> QED  BY <1>1, <1>5, <1>6, <1>7, <1>8

\* There is one: at each set of indices, follow the one of the set below it.
LEMMA FollowsExists ==
  ASSUME NEW base, NEW id, NEW events, NEW S, HasLatest(S)
  PROVE  \E g : Follows(g, base, id, events, S)
<1> DEFINE B == {T \in SUBSET S : ~ \E g : Follows(g, base, id, events, T)}
<1> SUFFICES ASSUME B # {} PROVE FALSE
  OBVIOUS
<1>1. PICK T \in B : \A U \in B : ~(U \subseteq T /\ U # T)
  <2>1. B \subseteq SUBSET S  OBVIOUS
  <2> HIDE DEF B
  <2> QED  BY <2>1, SmallestSubset DEF HasLatest
<1> DEFINE Below(R) == CHOOSE g : Follows(g, base, id, events, R)
           After(table, R) == Matched(table, events[Max(R)].maker, id,
                                      events[Max(R)].quantity, id # 0)
           all == [R \in SUBSET T |->
                     IF R = {} THEN base
                     ELSE After(Below(R \ {Max(R)})[R \ {Max(R)}], R)]
<1>2. \A R \in SUBSET T : R # {} => Max(R) \in R
  BY <1>1 DEF HasLatest
<1>3. \A R \in SUBSET T : R # T => Follows(Below(R), base, id, events, R)
  BY <1>1
<1>4. ASSUME NEW R \in SUBSET T, R # {}
      PROVE  all[R \ {Max(R)}] = Below(R \ {Max(R)})[R \ {Max(R)}]
  <2> DEFINE Q == R \ {Max(R)}
  <2>1. Q \in SUBSET T /\ Q # T  BY <1>2, <1>4
  <2>2. Follows(Below(Q), base, id, events, Q)  BY <1>3, <2>1
  <2>3. CASE Q = {}
    <3>1. Below(Q)[Q] = base  BY <2>2, <2>3 DEF Follows
    <3>2. all[Q] = base  BY <2>1, <2>3
    <3> QED  BY <3>1, <3>2
  <2>4. CASE Q # {}
    <3> DEFINE P == Q \ {Max(Q)}
    <3>1. P \in SUBSET Q /\ P \in SUBSET T /\ P # T  BY <2>1
    <3>3. HasLatest(Q)  BY <1>1, <2>1, FS_Subset DEF HasLatest
    <3>2. Follows(Below(P), base, id, events, P)  BY <1>3, <3>1
    <3>4. Below(Q)[P] = Below(P)[P]
      <4>1. \A i \in P : events[i] = events[i]  OBVIOUS
      <4> HIDE DEF P, Q, Below
      <4> QED  BY <2>2, <3>1, <3>2, <3>3, <4>1, FollowsUnique
    <3>5. Below(Q)[Q] = After(Below(Q)[P], Q)
      <4> HIDE DEF Below
      <4> QED  BY <2>2, <2>4 DEF Follows
    <3>6. all[Q] = After(Below(P)[P], Q)
      <4> HIDE DEF Below, After
      <4> QED  BY <2>1, <2>4
    <3> QED  BY <3>4, <3>5, <3>6
  <2> QED  BY <2>3, <2>4
<1>5. Follows(all, base, id, events, T)
  <2> HIDE DEF Below
  <2> QED  BY <1>4 DEF Follows
<1> QED  BY <1>1, <1>5

\* No event, no change.
LEMMA RecordedNone ==
  ASSUME NEW base, NEW id
  PROVE  Recorded(base, id, << >>) = base
<1>1. DOMAIN << >> = {} /\ HasLatest({})  BY FS_EmptySet DEF HasLatest
<1>2. PICK g : g = (CHOOSE h : Follows(h, base, id, << >>, {}))  OBVIOUS
<1>3. Follows(g, base, id, << >>, {})  BY <1>1, <1>2, FollowsExists
<1>4. g[{}] = base  BY <1>3 DEF Follows
<1> QED  BY <1>1, <1>2, <1>4, RecordedIs

\* One more event: its statement is run on the table the others left.
LEMMA RecordedAppend ==
  ASSUME NEW base, NEW id, NEW events \in Seq(Fill), NEW f \in Fill
  PROVE  Recorded(base, id, Append(events, f))
           = Matched(Recorded(base, id, events), f.maker, id, f.quantity, id # 0)
<1> DEFINE more == Append(events, f)
           n == Len(events)
           R == 1..n
           S == 1..(n + 1)
<1>1. /\ n \in Nat /\ DOMAIN events = R /\ DOMAIN more = S
      /\ more[n + 1] = f /\ \A i \in R : more[i] = events[i]
  BY AppendProperties, LenProperties
<1> HIDE DEF more, n
<1>2. HasLatest(R) /\ HasLatest(S)
  <2>1. n + 1 \in Nat  BY <1>1
  <2> QED  BY <1>1, <2>1, IndicesHaveLatest
<1>3. R \in SUBSET S /\ S \in SUBSET S  BY <1>1
<1>4. Max(S) = n + 1 /\ S # {} /\ S \ {n + 1} = R
  <2>1. n + 1 \in S /\ S \in SUBSET (1..(n + 1)) /\ n + 1 \in Nat  BY <1>1
  <2>2. Max(S) \in S /\ Max(S) >= n + 1
    <3> HIDE DEF S
    <3> QED  BY <2>1, LatestIndex
  <2>3. Max(S) = n + 1  BY <1>1, <2>2
  <2>4. S \ {n + 1} = R  BY <1>1
  <2> QED  BY <2>1, <2>3, <2>4
<1> HIDE DEF R, S
<1>5. PICK g : g = (CHOOSE h : Follows(h, base, id, more, S))  OBVIOUS
<1>6. Follows(g, base, id, more, S)  BY <1>2, <1>5, FollowsExists
<1>7. PICK k : k = (CHOOSE h : Follows(h, base, id, events, R))  OBVIOUS
<1>8. Follows(k, base, id, events, R)  BY <1>2, <1>7, FollowsExists
<1>9. g[R] = k[R]  BY <1>1, <1>2, <1>3, <1>6, <1>8, FollowsUnique
<1>10. g[S] = Matched(g[R], f.maker, id, f.quantity, id # 0)
  <2>1. g[S] = Matched(g[S \ {Max(S)}], more[Max(S)].maker, id,
                       more[Max(S)].quantity, id # 0)
    BY <1>3, <1>4, <1>6 DEF Follows
  <2>2. more[Max(S)] = f /\ S \ {Max(S)} = R  BY <1>1, <1>4
  <2> QED  BY <2>1, <2>2
<1>11. Recorded(base, id, more) = g[S] /\ Recorded(base, id, events) = k[R]
  BY <1>1, <1>5, <1>7, RecordedIs
<1> QED  BY <1>9, <1>10, <1>11 DEF more

-----------------------------------------------------------------------------
(* What a statement does to a table that mirrors a set of orders *)

LEMMA RowTyped ==
  ASSUME NEW o \in Order
  PROVE  Announced(o) \in Announcements /\ Row(o).order = Announced(o)
BY DEF Order, Announced, Announcements, Row

LEMMA RowChanges ==
  ASSUME NEW r \in Rows, NEW n \in Nat, NEW s \in OrderStatus
  PROVE  [r EXCEPT !.remaining_quantity = n, !.status = s]
           = [order |-> r.order, remaining_quantity |-> n, status |-> s]
<1>1. PICK u : u = [r EXCEPT !.remaining_quantity = n, !.status = s]  OBVIOUS
<1>2. u.order = r.order /\ u.remaining_quantity = n /\ u.status = s  BY <1>1 DEF Rows
<1>3. u \in Rows  BY <1>1 DEF Rows
<1>4. u = [order |-> u.order, remaining_quantity |-> u.remaining_quantity,
           status |-> u.status]
  BY <1>3 DEF Rows
<1> QED  BY <1>1, <1>2, <1>4

LEMMA ReducedIs ==
  ASSUME NEW t, IsTable(t), NEW key \in DOMAIN t, NEW q \in Nat,
         q <= t[key].remaining_quantity
  PROVE  /\ IsTable(Reduced(t, key, q)) /\ DOMAIN Reduced(t, key, q) = DOMAIN t
         /\ Reduced(t, key, q)[key] =
              [order |-> t[key].order,
               remaining_quantity |-> t[key].remaining_quantity - q,
               status |-> IF q = t[key].remaining_quantity THEN "filled"
                          ELSE "partially_filled"]
         /\ \A k \in DOMAIN t : k # key => Reduced(t, key, q)[k] = t[k]
<1> DEFINE left == t[key].remaining_quantity - q
           new == [order |-> t[key].order, remaining_quantity |-> left,
                   status |-> IF q = t[key].remaining_quantity THEN "filled"
                              ELSE "partially_filled"]
<1>1. t[key] \in Rows  BY DEF IsTable
<1>2. /\ t[key].order \in Announcements /\ t[key].remaining_quantity \in Nat
      /\ t[key] = [order |-> t[key].order,
                   remaining_quantity |-> t[key].remaining_quantity,
                   status |-> t[key].status]
  BY <1>1 DEF Rows
<1>3. new \in Rows  BY <1>2 DEF Rows, OrderStatus
<1>4. (left <= 0) <=> q = t[key].remaining_quantity  BY <1>2
<1>5. Reduced(t, key, q) = [t EXCEPT ![key] = new]
  <2> DEFINE s == IF left <= 0 THEN "filled" ELSE "partially_filled"
  <2>1. Reduced(t, key, q) = [t EXCEPT ![key].remaining_quantity = left, ![key].status = s]
    BY DEF Reduced
  <2>2. [t[key] EXCEPT !.remaining_quantity = left, !.status = s] = new
    <3>1. s = IF q = t[key].remaining_quantity THEN "filled" ELSE "partially_filled"
      BY <1>4
    <3>2. s \in OrderStatus /\ left \in Nat  BY <1>2 DEF OrderStatus
    <3> HIDE DEF s, left
    <3> QED  BY <1>1, <3>1, <3>2, RowChanges
  <2> HIDE DEF left, s, new
  <2>3. [t EXCEPT ![key].remaining_quantity = left, ![key].status = s]
          = [t EXCEPT ![key] = [t[key] EXCEPT !.remaining_quantity = left, !.status = s]]
    BY DEF IsTable
  <2> QED  BY <2>1, <2>2, <2>3
<1> HIDE DEF new
<1>6. [t EXCEPT ![key] = new] \in [DOMAIN t -> Rows]  BY <1>3 DEF IsTable
<1> QED  BY <1>5, <1>6 DEF IsTable, new

\* An order of which q more is filled.
Grown(o, q) == [o EXCEPT !.filledquantity = @ + q]

LEMMA GrownIs ==
  ASSUME NEW o \in Order, NEW q \in Nat \ {0}
  PROVE  /\ Grown(o, q) \in Order /\ Grown(o, q).id = o.id
         /\ Left(Grown(o, q)) = Left(o) - q /\ Announced(Grown(o, q)) = Announced(o)
         /\ Grown(o, q).quantity = o.quantity /\ Grown(o, q).filledquantity # 0
<1>1. o.filledquantity + q \in Nat \ {0}  BY DEF Order
<1>2. Grown(o, q) \in Order /\ Grown(o, q).filledquantity = o.filledquantity + q
  BY <1>1 DEF Grown, Order
<1>3. /\ Grown(o, q).id = o.id /\ Grown(o, q).quantity = o.quantity
      /\ Announced(Grown(o, q)) = Announced(o)
  BY DEF Grown, Order, Announced
<1>4. Left(Grown(o, q)) = Left(o) - q  BY <1>2, <1>3 DEF Left, Order
<1> QED  BY <1>1, <1>2, <1>3, <1>4

\* A fill of q: the order's row follows it, the other rows stay.
LEMMA FilledMirrors ==
  ASSUME NEW t, IsTable(t), NEW S \in SUBSET Order, NEW L, Mirrors(t, S, L),
         NEW m \in S, \A o \in S : o.id = m.id => o = m,
         Left(m) \in Nat, NEW q \in Nat \ {0}, q <= Left(m)
  PROVE  LET rest == IF q = Left(m) THEN {} ELSE {Grown(m, q)}
         IN Mirrors(Reduced(t, m.id, q), (S \ {m}) \cup rest, L)
<1> DEFINE after == Grown(m, q)
           rest == IF q = Left(m) THEN {} ELSE {after}
           u == Reduced(t, m.id, q)
<1>1. m.id \in DOMAIN t /\ t[m.id] = Row(m) /\ Row(m).remaining_quantity = Left(m)
  BY DEF Mirrors, Row
<1>2. /\ DOMAIN u = DOMAIN t
      /\ u[m.id] = [order |-> Announced(m), remaining_quantity |-> Left(m) - q,
                    status |-> IF q = Left(m) THEN "filled" ELSE "partially_filled"]
      /\ \A k \in DOMAIN t : k # m.id => u[k] = t[k]
  <2>1. q <= t[m.id].remaining_quantity /\ q \in Nat  BY <1>1
  <2> QED  BY <1>1, <2>1, ReducedIs DEF Row
<1> HIDE DEF u
<1>3. /\ after.id = m.id /\ Left(after) = Left(m) - q
      /\ Announced(after) = Announced(m) /\ after.filledquantity # 0
  BY GrownIs
<1>4. q # Left(m) => u[m.id] = Row(after)  BY <1>2, <1>3 DEF Row
<1>5. Ids((S \ {m}) \cup rest) = IF q = Left(m) THEN Ids(S) \ {m.id} ELSE Ids(S)
  BY <1>3 DEF Ids
<1>6. m.id \in Ids(S) /\ m.id \notin L  BY DEF Ids, Mirrors
<1>7. \A o \in (S \ {m}) \cup rest : o.id \in DOMAIN u /\ u[o.id] = Row(o)
  BY <1>1, <1>2, <1>3, <1>4 DEF Mirrors
<1>8. Listed(u) = IF q = Left(m) THEN Listed(t) \ {m.id} ELSE Listed(t)
  <2>1. m.id \in Listed(t)  BY <1>6 DEF Mirrors
  <2>2. \A k \in DOMAIN t : k # m.id => (k \in Listed(u) <=> k \in Listed(t))
    BY <1>2 DEF Listed
  <2>3. m.id \in Listed(u) <=> q # Left(m)  BY <1>1, <1>2 DEF Listed
  <2>4. Listed(u) \subseteq DOMAIN t /\ Listed(t) \subseteq DOMAIN t
    BY <1>2 DEF Listed
  <2> QED  BY <1>1, <2>1, <2>2, <2>3, <2>4
<1>9. Listed(u) = Ids((S \ {m}) \cup rest) \cup L
  BY <1>5, <1>6, <1>8 DEF Mirrors
<1>10. Ids((S \ {m}) \cup rest) \cap L = {}  BY <1>5 DEF Mirrors
<1> QED  BY <1>7, <1>9, <1>10 DEF Mirrors, u

\* The taker's row after a fill: the order is not one of those that rest.
LEMMA TakerMirrors ==
  ASSUME NEW t, IsTable(t), NEW S, NEW L, NEW key, key \notin Ids(S), key \notin L,
         Mirrors(t, S, L \cup {key}), NEW q \in Nat, q <= t[key].remaining_quantity
  PROVE  LET rest == IF q = t[key].remaining_quantity THEN {} ELSE {key}
         IN Mirrors(Reduced(t, key, q), S, L \cup rest)
<1> DEFINE rest == IF q = t[key].remaining_quantity THEN {} ELSE {key}
           u == Reduced(t, key, q)
<1>1. key \in DOMAIN t /\ key \in Listed(t)  BY DEF Mirrors, Listed
<1>2. /\ DOMAIN u = DOMAIN t
      /\ u[key] = [order |-> t[key].order,
                   remaining_quantity |-> t[key].remaining_quantity - q,
                   status |-> IF q = t[key].remaining_quantity THEN "filled"
                              ELSE "partially_filled"]
      /\ \A k \in DOMAIN t : k # key => u[k] = t[k]
  BY <1>1, ReducedIs
<1> HIDE DEF u
<1>3. \A o \in S : o.id # key  BY DEF Ids
<1>4. \A o \in S : o.id \in DOMAIN u /\ u[o.id] = Row(o)
  BY <1>2, <1>3 DEF Mirrors
<1>5. Listed(u) = IF q = t[key].remaining_quantity THEN Listed(t) \ {key} ELSE Listed(t)
  <2>1. \A k \in DOMAIN t : k # key => (k \in Listed(u) <=> k \in Listed(t))
    BY <1>2 DEF Listed
  <2>2. key \in Listed(u) <=> q # t[key].remaining_quantity  BY <1>1, <1>2 DEF Listed
  <2>3. Listed(u) \subseteq DOMAIN t /\ Listed(t) \subseteq DOMAIN t
    BY <1>2 DEF Listed
  <2> QED  BY <1>1, <2>1, <2>2, <2>3
<1>6. Listed(u) = Ids(S) \cup (L \cup rest)  BY <1>5 DEF Mirrors
<1>7. Ids(S) \cap (L \cup rest) = {}  BY DEF Mirrors
<1> QED  BY <1>4, <1>6, <1>7 DEF Mirrors, u

\* A new row is listed, and no other changes.
LEMMA PlacedMirrors ==
  ASSUME NEW t, IsTable(t), NEW S, NEW L, Mirrors(t, S, L), NEW key, key \notin DOMAIN t,
         L \subseteq DOMAIN t, NEW a \in Announcements, NEW n \in Nat
  PROVE  LET u == Placed(t, key, a, n)
         IN /\ IsTable(u) /\ DOMAIN u = DOMAIN t \cup {key}
            /\ u[key] = [order |-> a, remaining_quantity |-> n, status |-> "open"]
            /\ Mirrors(u, S, L \cup {key}) /\ Shrunk(t, u)
<1> DEFINE row == [order |-> a, remaining_quantity |-> n, status |-> "open"]
           u == Placed(t, key, a, n)
<1>1. row \in Rows /\ row.status = "open"  BY DEF Rows, OrderStatus
<1> HIDE DEF row
<1>2. u = [k \in DOMAIN t \cup {key} |-> IF k \in DOMAIN t THEN t[k] ELSE row]
  BY DEF Placed, Inserted, row
<1> HIDE DEF u
<1>3. DOMAIN u = DOMAIN t \cup {key} /\ u[key] = row /\ \A k \in DOMAIN t : u[k] = t[k]
  BY <1>2
<1>4. IsTable(u)  BY <1>1, <1>2 DEF IsTable
<1>5. Listed(u) = Listed(t) \cup {key}  BY <1>1, <1>3 DEF Listed
<1>6. Mirrors(u, S, L \cup {key})
  <2>1. \A o \in S : o.id \in DOMAIN t  BY DEF Mirrors
  <2>2. key \notin Ids(S)  BY <2>1 DEF Ids
  <2>3. \A o \in S : o.id \in DOMAIN u /\ u[o.id] = Row(o)
    BY <1>3, <2>1 DEF Mirrors
  <2> QED  BY <1>5, <2>2, <2>3 DEF Mirrors
<1>7. Shrunk(t, u)
  <2>1. \A k \in DOMAIN t : t[k].remaining_quantity \in Nat  BY DEF IsTable, Rows
  <2>2. \A k \in DOMAIN t : k \in Listed(u) => k \in Listed(t)  BY <1>3 DEF Listed
  <2> QED  BY <1>3, <2>1, <2>2 DEF Shrunk
<1> QED  BY <1>3, <1>4, <1>6, <1>7 DEF u, row

\* A statement on a listed row takes the table further the same way.
LEMMA ReducedShrinks ==
  ASSUME NEW old, IsTable(old), NEW t, IsTable(t), Shrunk(old, t), NEW key \in Listed(t),
         NEW q \in Nat, q <= t[key].remaining_quantity
  PROVE  Shrunk(old, Reduced(t, key, q))
<1> DEFINE u == Reduced(t, key, q)
<1>1. key \in DOMAIN t  BY DEF Listed
<1>2. /\ DOMAIN u = DOMAIN t
      /\ u[key] = [order |-> t[key].order,
                   remaining_quantity |-> t[key].remaining_quantity - q,
                   status |-> IF q = t[key].remaining_quantity THEN "filled"
                              ELSE "partially_filled"]
      /\ \A k \in DOMAIN t : k # key => u[k] = t[k]
  BY <1>1, ReducedIs
<1> HIDE DEF u
<1>3. ASSUME NEW k \in DOMAIN old
      PROVE  /\ k \in DOMAIN u
             /\ u[k].remaining_quantity <= old[k].remaining_quantity
             /\ k \in Listed(u) => k \in Listed(old)
  <2>1. /\ k \in DOMAIN t /\ t[k].remaining_quantity <= old[k].remaining_quantity
        /\ k \in Listed(t) => k \in Listed(old)
    BY DEF Shrunk
  <2>2. t[k].remaining_quantity \in Nat /\ old[k].remaining_quantity \in Nat
    BY <2>1 DEF IsTable, Rows
  <2>3. CASE k = key  BY <1>2, <2>1, <2>2, <2>3
  <2>4. CASE k # key  BY <1>2, <2>1, <2>4 DEF Listed
  <2> QED  BY <2>3, <2>4
<1> QED  BY <1>3 DEF Shrunk, u

-----------------------------------------------------------------------------
(* The orders of a book as a set *)

LEMMA OrdersTyped ==
  ASSUME NEW bk \in [Books -> Seq(RestingOrder)], NEW n, BookOK(bk, n)
  PROVE  /\ OrdersIn(bk) \in SUBSET Order
         /\ \A o \in OrdersIn(bk) : \E c \in Books : \E i \in 1..Len(bk[c]) : o = bk[c][i]
         /\ \A c \in Books : \A i \in 1..Len(bk[c]) : bk[c][i] \in OrdersIn(bk)
         /\ \A o, r \in OrdersIn(bk) : o.id = r.id => o = r
<1>1. \A c \in Books : \A o \in InBook(bk, c) : o \in Order
  BY InBookTyped DEF RestingOrder
<1>2. \A o \in OrdersIn(bk) : \E c \in Books : \E i \in 1..Len(bk[c]) : o = bk[c][i]
  BY DEF OrdersIn, InBook
<1>3. \A c \in Books : \A i \in 1..Len(bk[c]) : bk[c][i] \in OrdersIn(bk)
  BY DEF OrdersIn, InBook
<1>4. ASSUME NEW o \in OrdersIn(bk), NEW r \in OrdersIn(bk), o.id = r.id
      PROVE  o = r
  <2>1. PICK c \in Books : \E i \in 1..Len(bk[c]) : o = bk[c][i]  BY <1>2
  <2>2. PICK i \in 1..Len(bk[c]) : o = bk[c][i]  BY <2>1
  <2>3. PICK d \in Books : \E j \in 1..Len(bk[d]) : r = bk[d][j]  BY <1>2
  <2>4. PICK j \in 1..Len(bk[d]) : r = bk[d][j]  BY <2>3
  <2>5. c = d /\ i = j  BY <1>4, <2>2, <2>4 DEF BookOK, Distinct
  <2> QED  BY <2>2, <2>4, <2>5
<1>5. OrdersIn(bk) \in SUBSET Order  BY <1>1 DEF OrdersIn
<1> QED  BY <1>2, <1>3, <1>4, <1>5

LEMMA UnlinkOrders ==
  ASSUME NEW bk \in [Books -> Seq(RestingOrder)], NEW n, BookOK(bk, n),
         NEW b \in Books, NEW i \in 1..Len(bk[b])
  PROVE  OrdersIn([bk EXCEPT ![b] = Unlink(bk[b], i)]) = OrdersIn(bk) \ {bk[b][i]}
<1> DEFINE q == bk[b]
           new == [bk EXCEPT ![b] = Unlink(q, i)]
<1>1. /\ q \in Seq(RestingOrder) /\ Len(q) \in Nat
      /\ Unlink(q, i) \in Seq(RestingOrder) /\ Len(Unlink(q, i)) = Len(q) - 1
      /\ \A j \in 1..(Len(q) - 1) : Unlink(q, i)[j] = IF j < i THEN q[j] ELSE q[j + 1]
  BY LenProperties, UnlinkProperties
<1>2. InBook(new, b) = InBook(bk, b) \ {q[i]}
  <2>1. \A j \in 1..Len(q) : q[j] = q[i] => j = i  BY DEF BookOK, Distinct
  <2>2. ASSUME NEW j \in 1..(Len(q) - 1)
        PROVE  \E k \in 1..Len(q) : k # i /\ Unlink(q, i)[j] = q[k]
    <3>1. CASE j < i
      <4>1. j \in 1..Len(q) /\ j # i /\ Unlink(q, i)[j] = q[j]  BY <1>1, <3>1
      <4> QED  BY <4>1
    <3>2. CASE ~(j < i)
      <4>1. j + 1 \in 1..Len(q) /\ j + 1 # i /\ Unlink(q, i)[j] = q[j + 1]
        BY <1>1, <3>2
      <4> QED  BY <4>1
    <3> QED  BY <3>1, <3>2
  <2>3. ASSUME NEW k \in 1..Len(q), k # i
        PROVE  \E j \in 1..(Len(q) - 1) : Unlink(q, i)[j] = q[k]
    <3>1. CASE k < i
      <4>1. k \in 1..(Len(q) - 1) /\ Unlink(q, i)[k] = q[k]  BY <1>1, <3>1
      <4> QED  BY <4>1
    <3>2. CASE ~(k < i)
      <4>1. k - 1 \in 1..(Len(q) - 1) /\ ~(k - 1 < i) /\ (k - 1) + 1 = k
        BY <1>1, <2>3, <3>2
      <4>2. Unlink(q, i)[k - 1] = q[k]  BY <1>1, <4>1
      <4> QED  BY <4>1, <4>2
    <3> QED  BY <3>1, <3>2
  <2>4. InBook(new, b) = {Unlink(q, i)[j] : j \in 1..(Len(q) - 1)}  BY <1>1 DEF InBook
  <2>5. InBook(bk, b) = {q[k] : k \in 1..Len(q)}  BY DEF InBook
  <2>6. i \in 1..Len(q)  OBVIOUS
  <2> DEFINE u == Unlink(q, i)
             m == Len(q) - 1
             l == Len(q)
  <2> HIDE DEF new, q, u, m, l
  <2>7. \A o \in InBook(new, b) : o \in InBook(bk, b) /\ o # q[i]
    BY <2>1, <2>2, <2>4, <2>5, <2>6 DEF u, m, l
  <2>8. \A o \in InBook(bk, b) : o # q[i] => o \in InBook(new, b)
    BY <2>3, <2>4, <2>5 DEF u, m, l
  <2> QED  BY <2>7, <2>8
<1>3. \A c \in Books : c # b => InBook(new, c) = InBook(bk, c)  BY DEF InBook
<1>4. \A c \in Books : c # b => q[i] \notin InBook(bk, c)
  BY DEF InBook, BookOK, Distinct
<1> HIDE DEF new, q
<1>5. OrdersIn(new) = OrdersIn(bk) \ {q[i]}  BY <1>2, <1>3, <1>4 DEF OrdersIn
<1> QED  BY <1>5 DEF new, q

LEMMA FilledOrders ==
  ASSUME NEW bk \in [Books -> Seq(RestingOrder)], NEW n, BookOK(bk, n),
         NEW b \in Books, NEW i \in 1..Len(bk[b]), NEW qty \in Nat,
         NEW new, new[b] = Filled(bk[b], i, qty), \A c \in Books : c # b => new[c] = bk[c]
  PROVE  OrdersIn(new) = (OrdersIn(bk) \ {bk[b][i]}) \cup {Grown(bk[b][i], qty)}
<1> DEFINE q == bk[b]
           o == Grown(q[i], qty)
<1>1. /\ q \in Seq(RestingOrder) /\ Len(q) \in Nat /\ Len(Filled(q, i, qty)) = Len(q)
      /\ \A j \in 1..Len(q) : Filled(q, i, qty)[j] = IF j = i THEN o ELSE q[j]
  BY LenProperties, FilledProperties DEF Grown
<1> HIDE DEF o
<1>2. InBook(new, b) = (InBook(bk, b) \ {q[i]}) \cup {o}
  <2>1. \A j \in 1..Len(q) : q[j] = q[i] => j = i  BY DEF BookOK, Distinct
  <2>2. InBook(new, b) = {Filled(q, i, qty)[j] : j \in 1..Len(q)}  BY <1>1 DEF InBook
  <2>3. InBook(bk, b) = {q[j] : j \in 1..Len(q)}  BY DEF InBook
  <2>4. i \in 1..Len(q)  OBVIOUS
  <2> HIDE DEF q
  <2> QED  BY <1>1, <2>1, <2>2, <2>3, <2>4
<1>3. \A c \in Books : c # b => InBook(new, c) = InBook(bk, c)  BY DEF InBook
<1>4. \A c \in Books : c # b => q[i] \notin InBook(bk, c)
  BY DEF InBook, BookOK, Distinct
<1> HIDE DEF q
<1>5. OrdersIn(new) = (OrdersIn(bk) \ {q[i]}) \cup {o}  BY <1>2, <1>3, <1>4 DEF OrdersIn
<1> QED  BY <1>5 DEF q, o

LEMMA InsertOrders ==
  ASSUME NEW bk \in [Books -> Seq(RestingOrder)], NEW b \in Books,
         NEW k \in 0..Len(bk[b]), NEW t \in RestingOrder,
         NEW new, new[b] = Insert(bk[b], t, k), \A c \in Books : c # b => new[c] = bk[c]
  PROVE  OrdersIn(new) = OrdersIn(bk) \cup {t}
<1> DEFINE q == bk[b]
<1>1. /\ q \in Seq(RestingOrder) /\ Len(q) \in Nat /\ Len(Insert(q, t, k)) = Len(q) + 1
      /\ \A j \in 1..(Len(q) + 1) : Insert(q, t, k)[j] =
           IF j <= k THEN q[j] ELSE IF j = k + 1 THEN t ELSE q[j - 1]
  BY LenProperties, InsertProperties
<1>2. InBook(new, b) = InBook(bk, b) \cup {t}
  <2>1. ASSUME NEW j \in 1..Len(q)
        PROVE  \E l \in 1..(Len(q) + 1) : Insert(q, t, k)[l] = q[j]
    <3>1. CASE j <= k
      <4>1. j \in 1..(Len(q) + 1) /\ Insert(q, t, k)[j] = q[j]  BY <1>1, <3>1
      <4> QED  BY <4>1
    <3>2. CASE ~(j <= k)
      <4>1. /\ j + 1 \in 1..(Len(q) + 1) /\ ~(j + 1 <= k) /\ j + 1 # k + 1
            /\ (j + 1) - 1 = j
        BY <1>1, <3>2
      <4>2. Insert(q, t, k)[j + 1] = q[j]  BY <1>1, <4>1
      <4> QED  BY <4>1, <4>2
    <3> QED  BY <3>1, <3>2
  <2>2. k + 1 \in 1..(Len(q) + 1) /\ Insert(q, t, k)[k + 1] = t  BY <1>1
  <2>3. InBook(new, b) = {Insert(q, t, k)[j] : j \in 1..(Len(q) + 1)}  BY <1>1 DEF InBook
  <2>4. InBook(bk, b) = {q[j] : j \in 1..Len(q)}  BY DEF InBook
  <2>5. ASSUME NEW j \in 1..(Len(q) + 1)
        PROVE  Insert(q, t, k)[j] = t \/ \E l \in 1..Len(q) : Insert(q, t, k)[j] = q[l]
    <3>1. CASE j <= k
      <4>1. j \in 1..Len(q) /\ Insert(q, t, k)[j] = q[j]  BY <1>1, <3>1
      <4> QED  BY <4>1
    <3>2. CASE j = k + 1
      BY <1>1, <3>2
    <3>3. CASE j > k + 1
      <4>1. j - 1 \in 1..Len(q) /\ Insert(q, t, k)[j] = q[j - 1]  BY <1>1, <3>3
      <4> QED  BY <4>1
    <3> QED  BY <3>1, <3>2, <3>3
  <2> DEFINE ins == Insert(q, t, k)
             l == Len(q)
             m == Len(q) + 1
  <2> HIDE DEF q, ins, l, m
  <2>6. \A o \in InBook(new, b) : o \in InBook(bk, b) \/ o = t
    BY <2>3, <2>4, <2>5 DEF ins, l, m
  <2>7. \A o \in InBook(bk, b) : o \in InBook(new, b)
    BY <2>1, <2>3, <2>4 DEF ins, l, m
  <2>8. t \in InBook(new, b)
    BY <2>2, <2>3 DEF ins, l, m
  <2> QED  BY <2>6, <2>7, <2>8
<1>3. \A c \in Books : c # b => InBook(new, c) = InBook(bk, c)  BY DEF InBook
<1>4. OrdersIn(new) = OrdersIn(bk) \cup {t}
  BY <1>2, <1>3 DEF OrdersIn
<1> QED  BY <1>4

\* A fill takes the maker as it was from the book and leaves what remains of it.
LEMMA FillMakerOrders ==
  ASSUME TypeOK, BookOK(book, next_order_id), InLoop,
         NEW qty \in Nat \ {0}, qty <= Left(maker), FillMaker(qty)
  PROVE  LET rest == IF qty = Left(maker) THEN {} ELSE {Grown(maker, qty)}
         IN OrdersIn(book') = (OrdersIn(book) \ {maker}) \cup rest
<1>1. /\ book \in [Books -> Seq(RestingOrder)]
      /\ opposite \in Books /\ idx \in 1..Len(book[opposite])
      /\ maker = book[opposite][idx]
  BY AccountsTyped, TakerTyped, MakerTyped DEF TypeOK, Balances, maker
<1>2. maker.filledquantity + qty >= maker.quantity <=> qty = Left(maker)
  <2>1. maker.quantity \in Nat /\ maker.filledquantity \in Nat  BY MakerTyped
  <2>2. qty <= maker.quantity - maker.filledquantity  BY DEF Left
  <2>3. Left(maker) = maker.quantity - maker.filledquantity  BY DEF Left
  <2> DEFINE a == maker.quantity
             f == maker.filledquantity
  <2> HIDE DEF a, f
  <2> QED  BY <2>1, <2>2, <2>3 DEF a, f
<1>3. CASE qty = Left(maker)
  <2>1. book' = [book EXCEPT ![opposite] = Unlink(book[opposite], idx)]
    BY <1>2, <1>3 DEF FillMaker
  <2>2. OrdersIn(book') = OrdersIn(book) \ {maker}  BY <1>1, <2>1, UnlinkOrders
  <2> QED  BY <1>3, <2>2
<1>4. CASE qty # Left(maker)
  <2>1. book' = [book EXCEPT ![opposite] = Filled(book[opposite], idx, qty)]
    BY <1>2, <1>4 DEF FillMaker
  <2>2. OrdersIn(book') = (OrdersIn(book) \ {maker}) \cup {Grown(maker, qty)}
    <3>1. /\ qty \in Nat /\ book'[opposite] = Filled(book[opposite], idx, qty)
          /\ \A c \in Books : c # opposite => book'[c] = book[c]
      BY <1>1, <2>1
    <3> QED  BY <1>1, <3>1, FilledOrders
  <2> QED  BY <1>4, <2>2
<1> QED  BY <1>3, <1>4

-----------------------------------------------------------------------------
(* The invariant, step by step *)

\* A fill on the maker's row.
LEMMA MakerReduced ==
  ASSUME NEW n, NEW t, NEW S \in SUBSET Order, NEW L, TableInv(n, t, S, L),
         NEW old, IsTable(old), Shrunk(old, t),
         NEW m \in S, \A o \in S : o.id = m.id => o = m,
         Left(m) \in Nat, NEW q \in Nat \ {0}, q <= Left(m)
  PROVE  LET rest == IF q = Left(m) THEN {} ELSE {Grown(m, q)}
             u == Reduced(t, m.id, q)
         IN /\ TableInv(n, u, (S \ {m}) \cup rest, L) /\ Shrunk(old, u)
            /\ DOMAIN u = DOMAIN t
            /\ \A k \in DOMAIN t : k # m.id => u[k] = t[k]
<1> DEFINE rest == IF q = Left(m) THEN {} ELSE {Grown(m, q)}
           u == Reduced(t, m.id, q)
<1>1. IsTable(t) /\ Mirrors(t, S, L)  BY DEF TableInv
<1>2. /\ m.id \in DOMAIN t /\ m.id \in Listed(t) /\ t[m.id] = Row(m)
      /\ Row(m).remaining_quantity = Left(m)
  BY <1>1 DEF Mirrors, Ids, Row
<1>3. q \in Nat /\ q <= t[m.id].remaining_quantity  BY <1>2
<1>4. /\ IsTable(u) /\ DOMAIN u = DOMAIN t
      /\ \A k \in DOMAIN t : k # m.id => u[k] = t[k]
  <2>1. PICK key : key = m.id  OBVIOUS
  <2> DEFINE v == Reduced(t, key, q)
  <2>2. /\ IsTable(v) /\ DOMAIN v = DOMAIN t
        /\ v[key] = [order |-> t[key].order,
                     remaining_quantity |-> t[key].remaining_quantity - q,
                     status |-> IF q = t[key].remaining_quantity THEN "filled"
                                ELSE "partially_filled"]
        /\ \A k \in DOMAIN t : k # key => v[k] = t[k]
    BY <1>1, <1>2, <1>3, <2>1, ReducedIs
  <2> QED  BY <2>1, <2>2
<1>5. Mirrors(u, (S \ {m}) \cup rest, L)  BY <1>1, FilledMirrors
<1>6. Shrunk(old, u)  BY <1>1, <1>2, <1>3, ReducedShrinks
<1> HIDE DEF u, rest
<1>7. TableInv(n, u, (S \ {m}) \cup rest, L)  BY <1>4, <1>5 DEF TableInv
<1> QED  BY <1>4, <1>6, <1>7 DEF u, rest

\* And on the row of the order that takes.
LEMMA TakerReduced ==
  ASSUME NEW n, NEW t, NEW S, NEW L, NEW key, TableInv(n, t, S, L \cup {key}),
         NEW old, IsTable(old), Shrunk(old, t), key \notin Ids(S), key \notin L,
         NEW q \in Nat, q <= t[key].remaining_quantity
  PROVE  LET more == IF q = t[key].remaining_quantity THEN {} ELSE {key}
             u == Reduced(t, key, q)
         IN /\ TableInv(n, u, S, L \cup more) /\ Shrunk(old, u)
            /\ key \in DOMAIN u
            /\ u[key] = [order |-> t[key].order,
                         remaining_quantity |-> t[key].remaining_quantity - q,
                         status |-> IF q = t[key].remaining_quantity THEN "filled"
                                    ELSE "partially_filled"]
<1> DEFINE more == IF q = t[key].remaining_quantity THEN {} ELSE {key}
           u == Reduced(t, key, q)
<1>1. IsTable(t) /\ Mirrors(t, S, L \cup {key})  BY DEF TableInv
<1>2. key \in DOMAIN t /\ key \in Listed(t)  BY <1>1 DEF Mirrors, Listed
<1>3. /\ IsTable(u) /\ DOMAIN u = DOMAIN t
      /\ u[key] = [order |-> t[key].order,
                   remaining_quantity |-> t[key].remaining_quantity - q,
                   status |-> IF q = t[key].remaining_quantity THEN "filled"
                              ELSE "partially_filled"]
  BY <1>1, <1>2, ReducedIs
<1>4. Mirrors(u, S, L \cup more)  BY <1>1, TakerMirrors
<1>5. Shrunk(old, u)  BY <1>1, <1>2, ReducedShrinks
<1>6. L \cup more \subseteq L \cup {key}  OBVIOUS
<1> HIDE DEF u, more
<1>7. TableInv(n, u, S, L \cup more)  BY <1>3, <1>4, <1>6 DEF TableInv
<1> QED  BY <1>2, <1>3, <1>5, <1>7 DEF u, more

\* What the fill of the order at idx adds to the events.
LEMMA FillRecorded ==
  ASSUME TypeOK, InLoop, NEW qty \in Nat, FillMaker(qty), Base' = Base, taker'.id = taker.id
  PROVE  SoFar' = Matched(SoFar, maker.id, taker.id, qty, taker.id # 0)
<1> DEFINE f == [maker |-> maker.id, owner |-> maker.user_key,
                 price |-> maker.price, quantity |-> qty]
<1>1. f \in Fill /\ f.maker = maker.id /\ f.quantity = qty  BY MakerTyped DEF Fill
<1>2. fills' = Append(fills, f) /\ fills \in Seq(Fill)  BY DEF FillMaker, TypeOK
<1> HIDE DEF f
<1>3. SoFar' = Recorded(Base, taker.id, Append(fills, f))  BY <1>2 DEF SoFar
<1>4. SoFar = Recorded(Base, taker.id, fills)  BY DEF SoFar
<1> QED  BY <1>1, <1>2, <1>3, <1>4, RecordedAppend

\* The maker is one of the orders, which no other order has the id of.
LEMMA MakerRests ==
  ASSUME TypeOK, BookInv, InLoop
  PROVE  /\ OrdersIn(book) \in SUBSET Order /\ maker \in OrdersIn(book)
         /\ \A o \in OrdersIn(book) : o.id = maker.id => o = maker
         /\ Left(maker) \in Nat \ {0}
         /\ pc \in {"limit", "rest"} => \A o \in OrdersIn(book) : o.id # taker.id
<1>1. book \in [Books -> Seq(RestingOrder)] /\ BookOK(book, next_order_id)
  BY AccountsTyped DEF TypeOK, Balances, BookInv
<1>2. opposite \in Books /\ idx \in 1..Len(book[opposite]) /\ maker = book[opposite][idx]
  BY TakerTyped, MakerTyped DEF maker
<1>3. /\ OrdersIn(book) \in SUBSET Order /\ maker \in OrdersIn(book)
      /\ \A o \in OrdersIn(book) : o.id = maker.id => o = maker
  BY <1>1, <1>2, OrdersTyped
<1>4. Left(maker) \in Nat \ {0}  BY <1>1, MakerLive
<1>5. ASSUME pc \in {"limit", "rest"}, NEW o \in OrdersIn(book)
      PROVE  o.id # taker.id
  <2>1. Live(book, taker.id)  BY <1>5 DEF BookInv, BookOK
  <2>2. \E c \in Books : \E i \in 1..Len(book[c]) : o = book[c][i]  BY <1>1, OrdersTyped
  <2>3. o.id < taker.id /\ o \in Order  BY <1>3, <2>1, <2>2 DEF Live
  <2> QED  BY <2>3, TakerTyped DEF Order
<1> QED  BY <1>3, <1>4, <1>5

LEMMA MarketFillIndexed ==
  ASSUME TypeOK, BookInv, IndexInv, MarketFillBuy \/ MarketFillSell,
         UNCHANGED <<live_orders, released>>
  PROVE  IndexInv'
<1> DEFINE rest == IF MarketQty = Left(maker) THEN {} ELSE {Grown(maker, MarketQty)}
<1>1. MarketTrades /\ MarketFill  BY DEF MarketFillBuy, MarketFillSell, MarketFill
<1>2. /\ InLoop /\ pc = "market" /\ MarketQty \in Nat \ {0} /\ MarketQty <= Left(maker)
      /\ FillMaker(MarketQty) /\ UNCHANGED <<next_order_id, saved, pc, taker>>
  BY <1>1, MarketTradeTyped DEF MarketFill
<1>3. ~LimitInFlight /\ ~LimitInFlight' /\ taker.id = 0 /\ pc' # "idle"
  BY <1>2 DEF LimitInFlight, IndexInv, InFlightInv
<1>4. Base = live_orders /\ Base' = Base /\ Pending = {} /\ Pending' = {}
  BY <1>3 DEF Base, Pending
<1>5. SoFar' = Reduced(SoFar, maker.id, MarketQty)
  <2>1. MarketQty \in Nat  BY <1>2
  <2>2. SoFar' = Matched(SoFar, maker.id, taker.id, MarketQty, taker.id # 0)
    BY <1>2, <1>4, <2>1, FillRecorded
  <2> QED  BY <1>3, <2>2 DEF Matched
<1>6. OrdersIn(book') = (OrdersIn(book) \ {maker}) \cup rest
  BY <1>2, FillMakerOrders DEF BookInv
<1>7. /\ TableInv(next_order_id, SoFar, OrdersIn(book), released)
      /\ IsTable(live_orders) /\ Shrunk(live_orders, SoFar)
  BY <1>4 DEF IndexInv, TableInv
<1>8. /\ TableInv(next_order_id, SoFar', OrdersIn(book'), released)
      /\ Shrunk(live_orders, SoFar')
  <2>1. Left(maker) \in Nat  BY <1>2, MakerRests
  <2>2. /\ OrdersIn(book) \in SUBSET Order /\ maker \in OrdersIn(book)
        /\ \A o \in OrdersIn(book) : o.id = maker.id => o = maker
    BY <1>2, MakerRests
  <2>3. /\ TableInv(next_order_id, Reduced(SoFar, maker.id, MarketQty),
                    (OrdersIn(book) \ {maker}) \cup rest, released)
        /\ Shrunk(live_orders, Reduced(SoFar, maker.id, MarketQty))
    BY <1>2, <1>7, <2>1, <2>2, MakerReduced
  <2> QED  BY <1>5, <1>6, <2>3
<1>9. InFlightInv'  BY <1>2, <1>3 DEF IndexInv, InFlightInv
<1> QED  BY <1>2, <1>3, <1>4, <1>8, <1>9 DEF IndexInv

LEMMA LimitFillIndexed ==
  ASSUME TypeOK, BookInv, IndexInv, LimitFillBuy \/ LimitFillSell,
         UNCHANGED <<live_orders, released>>
  PROVE  IndexInv'
<1> DEFINE id == taker.id
           mid == Reduced(SoFar, maker.id, LimitQty)
           rest == IF LimitQty = Left(maker) THEN {} ELSE {Grown(maker, LimitQty)}
           more == IF LimitQty = Left(taker) THEN {} ELSE {id}
<1>1. LimitTrades /\ LimitFill  BY DEF LimitFillBuy, LimitFillSell
<1>2. /\ InLoop /\ pc = "limit" /\ LimitQty \in Nat \ {0}
      /\ LimitQty <= Left(maker) /\ LimitQty <= Left(taker)
      /\ FillMaker(LimitQty) /\ UNCHANGED <<next_order_id, saved, pc>>
      /\ taker' = Grown(taker, LimitQty)
  BY <1>1, LimitTradeTyped DEF LimitFill, Grown
<1>3. /\ taker' \in Order /\ taker'.id = id /\ Left(taker') = Left(taker) - LimitQty
      /\ Announced(taker') = Announced(taker) /\ taker'.quantity = taker.quantity
      /\ taker'.filledquantity # 0
  BY <1>2, GrownIs DEF TypeOK
<1>4. /\ LimitInFlight /\ LimitInFlight' /\ pc' # "idle"
      /\ Left(taker) \in Nat \ {0} /\ id \in Nat \ {0}
      /\ id \notin DOMAIN live_orders /\ next_order_id = id + 1
      /\ id = saved.next_order_id /\ id \in DOMAIN SoFar /\ SoFar[id] = Row(taker)
  BY <1>2 DEF LimitInFlight, IndexInv, InFlightInv, TableInv
<1>5. Base' = Base  BY <1>3, <1>4 DEF Base
<1>6. SoFar' = Reduced(mid, id, LimitQty)
  <2>1. LimitQty \in Nat  BY <1>2
  <2>2. SoFar' = Matched(SoFar, maker.id, id, LimitQty, id # 0)
    BY <1>2, <1>3, <1>5, <2>1, FillRecorded
  <2> QED  BY <1>4, <2>2 DEF Matched
<1>7. Pending = {id} /\ Pending' = more
  <2>1. Left(taker') > 0 <=> LimitQty # Left(taker)  BY <1>2, <1>3, <1>4
  <2> QED  BY <1>3, <1>4, <2>1 DEF Pending
<1>8. OrdersIn(book') = (OrdersIn(book) \ {maker}) \cup rest
  BY <1>2, FillMakerOrders DEF BookInv
<1>9. /\ TableInv(next_order_id, SoFar, OrdersIn(book), released \cup {id})
      /\ IsTable(live_orders) /\ Shrunk(live_orders, SoFar)
      /\ released \subseteq DOMAIN live_orders
  BY <1>7 DEF IndexInv, TableInv
<1>10. /\ OrdersIn(book) \in SUBSET Order /\ maker \in OrdersIn(book)
       /\ \A o \in OrdersIn(book) : o.id = maker.id => o = maker
       /\ \A o \in OrdersIn(book) : o.id # id
       /\ Left(maker) \in Nat
  BY <1>2, MakerRests
<1>11. /\ TableInv(next_order_id, mid, (OrdersIn(book) \ {maker}) \cup rest,
                   released \cup {id})
       /\ Shrunk(live_orders, mid)
       /\ \A k \in DOMAIN SoFar : k # maker.id => mid[k] = SoFar[k]
  BY <1>2, <1>9, <1>10, MakerReduced
<1>12. mid[id] = Row(taker) /\ Row(taker).remaining_quantity = Left(taker)
  BY <1>4, <1>10, <1>11 DEF Row
<1>13. id \notin Ids(OrdersIn(book')) /\ id \notin released
  <2>1. Grown(maker, LimitQty).id = maker.id  BY <1>10 DEF Grown, Order
  <2>2. \A o \in OrdersIn(book') : o.id # id  BY <1>8, <1>10, <2>1
  <2> QED  BY <1>4, <1>9, <2>2 DEF Ids
<1> HIDE DEF mid, rest, id
<1>14. /\ TableInv(next_order_id, SoFar', OrdersIn(book'), released \cup more)
       /\ Shrunk(live_orders, SoFar')
       /\ id \in DOMAIN SoFar'
       /\ SoFar'[id] = [order |-> mid[id].order,
                        remaining_quantity |-> mid[id].remaining_quantity - LimitQty,
                        status |-> IF LimitQty = mid[id].remaining_quantity THEN "filled"
                                   ELSE "partially_filled"]
  <2>1. LimitQty \in Nat /\ LimitQty <= mid[id].remaining_quantity  BY <1>2, <1>12
  <2>2. PICK S : S = OrdersIn(book')  OBVIOUS
  <2>3. TableInv(next_order_id, mid, S, released \cup {id})  BY <1>8, <1>11, <2>2
  <2>4. id \notin Ids(S) /\ id \notin released  BY <1>13, <2>2
  <2>5. /\ TableInv(next_order_id, Reduced(mid, id, LimitQty), S,
                    released \cup (IF LimitQty = mid[id].remaining_quantity THEN {}
                                   ELSE {id}))
        /\ Shrunk(live_orders, Reduced(mid, id, LimitQty))
        /\ id \in DOMAIN Reduced(mid, id, LimitQty)
        /\ Reduced(mid, id, LimitQty)[id] =
             [order |-> mid[id].order,
              remaining_quantity |-> mid[id].remaining_quantity - LimitQty,
              status |-> IF LimitQty = mid[id].remaining_quantity THEN "filled"
                         ELSE "partially_filled"]
    BY <1>9, <1>11, <2>1, <2>3, <2>4, TakerReduced
  <2> QED  BY <1>6, <1>12, <2>2, <2>5
<1>15. InFlightInv'
  <2>1. mid[id].order = Announced(taker) /\ mid[id].remaining_quantity = Left(taker)
    BY <1>12 DEF Row
  <2>2. SoFar'[id].remaining_quantity = Left(taker')  BY <1>3, <1>14, <2>1
  <2>3. Left(taker') > 0 => SoFar'[id] = Row(taker')
    BY <1>2, <1>3, <1>4, <1>14, <2>1 DEF Row
  <2>4. Left(taker') \in Nat  BY <1>2, <1>3, <1>4
  <2>5. taker'.id = id /\ id = saved'.next_order_id /\ next_order_id' = id + 1
    BY <1>2, <1>3, <1>4
  <2> QED  BY <1>4, <1>14, <2>2, <2>3, <2>4, <2>5 DEF InFlightInv
<1>16. TableInv(saved'.next_order_id, live_orders', OrdersIn(saved'.book), released')
  BY <1>2 DEF IndexInv
<1> QED  BY <1>2, <1>4, <1>7, <1>14, <1>15, <1>16 DEF IndexInv

\* Nothing that the tables or the book depend on changes.
LEMMA QuietIndexed ==
  ASSUME IndexInv,
         UNCHANGED <<saved, live_orders, released, fills, book, next_order_id, taker>>,
         LimitInFlight' = LimitInFlight, pc' = "idle" => pc = "idle"
  PROVE  IndexInv'
<1>1. Base' = Base /\ Pending' = Pending  BY DEF Base, Pending
<1>2. SoFar' = SoFar  BY <1>1 DEF SoFar
<1>3. InFlightInv'  BY <1>2 DEF IndexInv, InFlightInv
<1> QED  BY <1>1, <1>2, <1>3 DEF IndexInv

LEMMA SameShrunk ==
  ASSUME NEW t, IsTable(t)
  PROVE  Shrunk(t, t)
<1>1. \A k \in DOMAIN t : t[k].remaining_quantity \in Nat  BY DEF IsTable, Rows
<1> QED  BY <1>1 DEF Shrunk

\* An instruction is over, and the table mirrors the book it left.
LEMMA OverIndexed ==
  ASSUME Idle, book' = saved'.book, next_order_id' = saved'.next_order_id,
         TableInv(saved'.next_order_id, live_orders', OrdersIn(saved'.book), released')
  PROVE  IndexInv'
<1>1. /\ pc' = "idle" /\ ~LimitInFlight' /\ fills' = << >> /\ taker'.id = 0
  BY DEF Idle, LimitInFlight, NoOrder
<1>2. Base' = live_orders' /\ Pending' = {}  BY <1>1 DEF Base, Pending
<1>3. SoFar' = Recorded(live_orders', taker'.id, << >>)  BY <1>1, <1>2 DEF SoFar
<1>4. SoFar' = live_orders'  BY <1>3, RecordedNone
<1>5. Shrunk(live_orders', SoFar')  BY <1>4, SameShrunk DEF TableInv
<1>6. InFlightInv'  BY <1>1 DEF InFlightInv
<1>7. released' \cup Pending' = released'  BY <1>2
<1> QED  BY <1>1, <1>4, <1>5, <1>6, <1>7 DEF IndexInv

LEMMA StoredIsSoFar ==
  ASSUME pc \in {"rest", "settle"}
  PROVE  Stored = SoFar
<1> DEFINE placed == IF pc = "rest"
                     THEN Placed(live_orders, taker.id, Announced(taker), taker.quantity)
                     ELSE live_orders
<1>1. placed = Base  BY DEF Base, LimitInFlight
<1>2. Stored = Recorded(placed, taker.id, fills)  BY DEF Stored, Recorded
<1> QED  BY <1>1, <1>2 DEF SoFar

\* A limit order that rests, and one whose rest is given back.
LEMMA RestsIndexed ==
  ASSUME TypeOK, BookInv, IndexInv, LimitRests,
         live_orders' = Stored, released' = released
  PROVE  IndexInv'
<1>1. /\ pc = "rest" /\ Left(taker) > 0 /\ LimitInFlight
      /\ Commit /\ Idle /\ next_order_id' = next_order_id /\ taker \in RestingOrder
  BY DEF LimitRests, LimitInFlight, TypeOK, RestingOrder, Commit
<1>2. saved'.book = book' /\ saved'.next_order_id = next_order_id
  BY <1>1 DEF Commit, Accounts
<1>3. PICK k \in 0..Len(book[own]) : book' = [book EXCEPT ![own] = Insert(book[own], taker, k)]
  BY DEF LimitRests
<1>4. OrdersIn(book') = OrdersIn(book) \cup {taker}
  <2>1. own \in Books /\ book \in [Books -> Seq(RestingOrder)]
    BY AccountsTyped, TakerTyped DEF TypeOK, Balances
  <2>2. book'[own] = Insert(book[own], taker, k) /\ \A c \in Books : c # own => book'[c] = book[c]
    BY <1>3, <2>1
  <2> QED  BY <1>1, <2>1, <2>2, InsertOrders
<1>5. Stored = SoFar  BY <1>1, StoredIsSoFar
<1>6. Pending = {taker.id}  BY <1>1 DEF Pending
<1>7. /\ TableInv(next_order_id, SoFar, OrdersIn(book), released \cup {taker.id})
      /\ taker.id \in DOMAIN SoFar /\ SoFar[taker.id] = Row(taker)
      /\ taker.id \notin released
  BY <1>1, <1>6 DEF IndexInv, InFlightInv, TableInv
<1>8. Mirrors(SoFar, OrdersIn(book) \cup {taker}, released)
  <2>1. Mirrors(SoFar, OrdersIn(book), released \cup {taker.id})  BY <1>7 DEF TableInv
  <2>2. Ids(OrdersIn(book) \cup {taker}) = Ids(OrdersIn(book)) \cup {taker.id}
    BY DEF Ids
  <2>3. \A o \in OrdersIn(book) \cup {taker} : o.id \in DOMAIN SoFar /\ SoFar[o.id] = Row(o)
    BY <1>7, <2>1 DEF Mirrors
  <2> QED  BY <1>7, <2>1, <2>2, <2>3 DEF Mirrors
<1>9. TableInv(next_order_id, SoFar, OrdersIn(book) \cup {taker}, released)
  BY <1>7, <1>8 DEF TableInv
<1> QED  BY <1>1, <1>2, <1>4, <1>5, <1>9, OverIndexed

\* The other ends of an instruction leave the book as it is.
LEMMA EndsIndexed ==
  ASSUME IndexInv, pc \in {"rest", "settle"}, Commit, UNCHANGED <<book, next_order_id>>,
         live_orders' = Stored, released' = released \cup Pending
  PROVE  IndexInv'
<1>1. Idle /\ saved'.book = book /\ saved'.next_order_id = next_order_id
  BY DEF Commit, Accounts
<1>2. Stored = SoFar  BY StoredIsSoFar
<1> QED  BY <1>1, <1>2, OverIndexed DEF IndexInv

LEMMA PlaceOrderIndexed ==
  ASSUME TypeOK, IndexInv,
         NEW v \in Users, NEW side \in Sides, NEW k \in Tokens,
         NEW n \in Iterations, NEW accounts \in AccountLists,
         NEW quantity \in Quantities, NEW price \in Prices,
         PlaceOrder(v, side, k, quantity, price, n, accounts),
         UNCHANGED <<live_orders, released>>
  PROVE  IndexInv'
<1> DEFINE id == next_order_id
<1>1. /\ pc = "idle" /\ ~LimitInFlight /\ LimitInFlight' /\ pc' = "limit"
      /\ UNCHANGED <<book, saved, fills>> /\ next_order_id' = id + 1
      /\ quantity > 0
      /\ taker' = [id |-> id, user_key |-> v, side |-> side, token_type |-> k,
                   price |-> price, quantity |-> quantity, filledquantity |-> 0]
  BY DEF PlaceOrder, Open, LimitInFlight
<1>2. /\ fills = << >> /\ book = saved.book /\ id = saved.next_order_id
      /\ TableInv(id, live_orders, OrdersIn(book), released)
  BY <1>1 DEF IndexInv, InFlightInv
<1>3. quantity \in Nat \ {0} /\ price \in Nat /\ id \in Nat \ {0}
  BY <1>1, <1>2, ParametersAssumption DEF TableInv
<1>4. /\ taker'.id = id /\ taker'.quantity = quantity /\ taker'.filledquantity = 0
      /\ taker' \in Order /\ Left(taker') = quantity
  BY <1>1, <1>3 DEF Order, Left
<1> DEFINE a == Announced(taker')
           u == Placed(live_orders, id, a, quantity)
<1>5. a \in Announcements  BY <1>4, RowTyped
<1>6. SoFar' = u
  <2>1. Base' = u  BY <1>1, <1>4 DEF Base
  <2>2. SoFar' = Recorded(u, id, << >>)  BY <1>1, <1>2, <1>4, <2>1 DEF SoFar
  <2> QED  BY <2>2, RecordedNone
<1>7. Pending' = {id}  BY <1>1, <1>3, <1>4 DEF Pending
<1>8. id \notin DOMAIN live_orders /\ DOMAIN live_orders \cup {id} \subseteq 1..((id + 1) - 1)
  BY <1>2, <1>3 DEF TableInv
<1> HIDE DEF a, id
<1>9. /\ IsTable(u) /\ DOMAIN u = DOMAIN live_orders \cup {id}
      /\ u[id] = [order |-> a, remaining_quantity |-> quantity, status |-> "open"]
      /\ Mirrors(u, OrdersIn(book), released \cup {id}) /\ Shrunk(live_orders, u)
  <2>1. /\ IsTable(live_orders) /\ Mirrors(live_orders, OrdersIn(book), released)
        /\ released \subseteq DOMAIN live_orders /\ quantity \in Nat
    BY <1>2, <1>3 DEF TableInv
  <2> QED  BY <1>5, <1>8, <2>1, PlacedMirrors
<1> HIDE DEF u
<1>10. TableInv(id + 1, u, OrdersIn(book), released \cup {id})
  BY <1>2, <1>3, <1>8, <1>9 DEF TableInv
<1>11. Row(taker') = [order |-> a, remaining_quantity |-> quantity, status |-> "open"]
  BY <1>4 DEF Row, a
<1>12. InFlightInv'
  BY <1>1, <1>2, <1>3, <1>4, <1>6, <1>9, <1>11 DEF InFlightInv, id
<1>13. next_order_id' = id + 1 /\ pc' # "idle"  BY <1>1 DEF id
<1> QED  BY <1>1, <1>2, <1>6, <1>7, <1>9, <1>10, <1>12, <1>13 DEF IndexInv, id

LEMMA MarketOrderIndexed ==
  ASSUME IndexInv,
         NEW v \in Users, NEW side \in Sides, NEW k \in Tokens,
         NEW n \in Iterations, NEW accounts \in AccountLists, NEW amount \in Amounts,
         MarketOrder(v, side, k, amount, n, accounts),
         UNCHANGED <<live_orders, released>>
  PROVE  IndexInv'
<1>1. /\ pc = "idle" /\ ~LimitInFlight /\ ~LimitInFlight' /\ pc' = "market"
      /\ UNCHANGED <<book, saved, fills, next_order_id>> /\ taker'.id = 0
  BY DEF MarketOrder, Open, LimitInFlight
<1>2. taker.id = 0 /\ next_order_id = saved.next_order_id
  BY <1>1 DEF IndexInv, InFlightInv
<1>3. Base' = Base /\ Pending' = Pending  BY <1>1 DEF Base, Pending
<1>4. SoFar' = SoFar  BY <1>1, <1>2, <1>3 DEF SoFar
<1>5. InFlightInv'  BY <1>1, <1>2 DEF InFlightInv
<1> QED  BY <1>1, <1>3, <1>4, <1>5 DEF IndexInv

LEMMA IndexInit == IndexedInit => IndexInv
<1> SUFFICES ASSUME IndexedInit PROVE IndexInv  OBVIOUS
<1>1. /\ Init /\ live_orders = << >> /\ released = {} /\ ~LimitInFlight
      /\ fills = << >> /\ taker.id = 0 /\ next_order_id = 1
      /\ saved.book = book /\ saved.next_order_id = 1
  BY DEF IndexedInit, Init, EmptyTable, LimitInFlight, NoOrder, Accounts
<1>2. Base = live_orders /\ Pending = {}  BY <1>1 DEF Base, Pending
<1>3. SoFar = live_orders  BY <1>1, <1>2, RecordedNone DEF SoFar
<1>4. OrdersIn(book) = {}  BY <1>1 DEF Init, OrdersIn, InBook
<1>5. DOMAIN live_orders = {} /\ IsTable(live_orders)  BY <1>1 DEF IsTable
<1>6. Mirrors(live_orders, {}, {})  BY <1>5 DEF Mirrors, Listed, Ids
<1>7. TableInv(1, live_orders, {}, {})  BY <1>5, <1>6 DEF TableInv
<1>8. Shrunk(live_orders, live_orders)  BY <1>5, SameShrunk
<1>9. InFlightInv  BY <1>1 DEF InFlightInv
<1> QED  BY <1>1, <1>2, <1>3, <1>4, <1>7, <1>8, <1>9 DEF IndexInv

\* Every step of the engine, with what the indexer stores of it.
LEMMA IndexStep ==
  ASSUME TypeOK, BookInv, IndexInv, [IndexedNext]_indexed_vars
  PROVE  IndexInv'
<1>1. CASE UNCHANGED indexed_vars
  <2>1. UNCHANGED <<saved, live_orders, released, fills, book, next_order_id, taker, pc>>
    BY <1>1 DEF indexed_vars, vars
  <2> QED  BY <2>1, QuietIndexed DEF LimitInFlight
<1> SUFFICES ASSUME IndexedNext PROVE IndexInv'
  BY <1>1
<1>2. /\ Next
      /\ live_orders' = IF Commits THEN Stored ELSE live_orders
      /\ released' = IF Commits /\ Releases THEN released \cup {taker.id} ELSE released
  BY DEF IndexedNext
<1>3. ASSUME ~Commits PROVE UNCHANGED <<live_orders, released>>
  BY <1>2, <1>3
<1>4. ASSUME pc \in {"rest", "settle"}, Commit, ~Errs,
             UNCHANGED <<book, next_order_id>>, Pending = IF Releases THEN {taker.id} ELSE {}
      PROVE  IndexInv'
  <2>1. Commits  BY <1>4 DEF Commits, Commit, Idle
  <2>2. live_orders' = Stored /\ released' = released \cup Pending  BY <1>2, <1>4, <2>1
  <2> QED  BY <1>4, <2>2, EndsIndexed
<1>5. CASE Begin
  <2>1. UNCHANGED <<live_orders, released>>
    <3>1. pc = "idle"  BY <1>5 DEF Begin, PlaceOrder, MarketOrder, Open
    <3> QED  BY <1>3, <3>1 DEF Commits
  <2>2. ASSUME NEW v \in Users, NEW side \in Sides, NEW k \in Tokens,
               NEW n \in Iterations, NEW accounts \in AccountLists,
               NEW quantity \in Quantities, NEW price \in Prices,
               PlaceOrder(v, side, k, quantity, price, n, accounts)
        PROVE  IndexInv'
    BY <2>1, <2>2, PlaceOrderIndexed
  <2>3. ASSUME NEW v \in Users, NEW side \in Sides, NEW k \in Tokens,
               NEW n \in Iterations, NEW accounts \in AccountLists, NEW amount \in Amounts,
               MarketOrder(v, side, k, amount, n, accounts)
        PROVE  IndexInv'
    BY <2>1, <2>3, MarketOrderIndexed
  <2> QED  BY <1>5, <2>2, <2>3 DEF Begin
<1>6. CASE Fails
  <2>1. Errs /\ Rollback /\ Idle  BY <1>6 DEF Fails, Rollback
  <2>2. UNCHANGED <<live_orders, released>>  BY <1>3, <2>1 DEF Commits
  <2>3. saved' = saved /\ book' = saved.book /\ next_order_id' = saved.next_order_id
    BY <2>1 DEF Rollback
  <2> QED  BY <2>1, <2>2, <2>3, OverIndexed DEF IndexInv
<1>7. CASE LimitPasses \/ MarketPasses
  <2>1. PICK remove \in BOOLEAN :
          /\ PassOver(remove) /\ InLoop /\ pc \in {"limit", "market"}
          /\ remove => Left(maker) = 0
    BY <1>7 DEF LimitPasses, MarketPasses, LimitLooksAt, MarketLooksAt
  <2>2. ~remove  BY <2>1, MakerRests
  <2>3. UNCHANGED <<saved, fills, book, next_order_id, taker, pc>>  BY <2>1, <2>2 DEF PassOver
  <2>4. UNCHANGED <<live_orders, released>>  BY <1>3, <2>1, <2>3 DEF Commits
  <2> QED  BY <2>3, <2>4, QuietIndexed DEF LimitInFlight
<1>8. CASE LimitFillBuy \/ LimitFillSell
  <2>1. pc = "limit"  BY <1>8 DEF LimitFillBuy, LimitFillSell, LimitTrades, LimitLooksAt
  <2>2. UNCHANGED <<live_orders, released>>  BY <1>3, <2>1 DEF Commits
  <2> QED  BY <1>8, <2>2, LimitFillIndexed
<1>9. CASE MarketFillBuy \/ MarketFillSell
  <2>1. pc = "market"
    BY <1>9 DEF MarketFillBuy, MarketFillSell, MarketFill, MarketTrades, MarketLooksAt
  <2>2. UNCHANGED <<live_orders, released>>  BY <1>3, <2>1 DEF Commits
  <2> QED  BY <1>9, <2>2, MarketFillIndexed
<1>10. CASE LimitLoopEnds \/ MarketLoopEnds
  <2>1. /\ UNCHANGED <<saved, fills, book, next_order_id, taker>>
        /\ pc' # "idle" /\ LimitInFlight' = LimitInFlight
    BY <1>10 DEF LimitLoopEnds, MarketLoopEnds, LimitInFlight
  <2>2. UNCHANGED <<live_orders, released>>  BY <1>3, <2>1 DEF Commits
  <2> QED  BY <2>1, <2>2, QuietIndexed
<1>11. CASE LimitFilled
  <2>1. /\ pc = "rest" /\ Left(taker) = 0 /\ Commit /\ UNCHANGED <<book, next_order_id>>
    BY <1>11 DEF LimitFilled
  <2>2. ~Releases /\ Pending = {}  BY <2>1 DEF Releases, Pending
  <2>3. ~Errs  BY <2>1, <2>2 DEF Errs, LimitTrades, LimitLooksAt, MarketOverflows,
                              MarketTrades, MarketLooksAt
  <2> QED  BY <1>4, <2>1, <2>2, <2>3
<1>12. CASE LimitRests
  <2>1. pc = "rest" /\ ~Releases /\ Commit  BY <1>12 DEF LimitRests, Releases
  <2>2. ~Errs  BY <2>1 DEF Errs, LimitTrades, LimitLooksAt, MarketOverflows,
                         MarketTrades, MarketLooksAt
  <2>3. Commits  BY <2>1, <2>2 DEF Commits, Commit, Idle
  <2>4. live_orders' = Stored /\ released' = released  BY <1>2, <2>1, <2>3
  <2> QED  BY <1>12, <2>4, RestsIndexed
<1>13. CASE LimitReleasesBuy \/ LimitReleasesSell
  <2>1. /\ pc = "rest" /\ Releases /\ ReleaseAccepts /\ ReleaseAffords /\ Commit
        /\ UNCHANGED <<book, next_order_id>>
    BY <1>13 DEF LimitReleasesBuy, LimitReleasesSell, Releases
  <2>2. Pending = {taker.id}  BY <2>1 DEF Releases, Pending, LimitInFlight
  <2>3. ~Errs  BY <2>1 DEF Errs, LimitTrades, LimitLooksAt, MarketOverflows,
                         MarketTrades, MarketLooksAt
  <2> QED  BY <1>4, <2>1, <2>2, <2>3
<1>14. CASE MarketSettlesBuy \/ MarketSettlesSell
  <2>1. /\ pc = "settle" /\ SettleAffords /\ Commit /\ UNCHANGED <<book, next_order_id>>
    BY <1>14 DEF MarketSettlesBuy, MarketSettlesSell
  <2>2. ~Releases /\ Pending = {}  BY <2>1 DEF Releases, Pending, LimitInFlight
  <2>3. ~Errs  BY <2>1, <2>2 DEF Errs, LimitTrades, LimitLooksAt, MarketOverflows,
                              MarketTrades, MarketLooksAt
  <2> QED  BY <1>4, <2>1, <2>2, <2>3
<1>15. CASE Tick \/ SetWinningSide
  <2>1. UNCHANGED <<saved, fills, book, next_order_id, taker, pc>> /\ pc = "idle"
    BY <1>15 DEF Tick, SetWinningSide
  <2>2. UNCHANGED <<live_orders, released>>  BY <1>3, <2>1 DEF Commits
  <2> QED  BY <2>1, <2>2, QuietIndexed DEF LimitInFlight
<1> QED
  BY <1>2, <1>5, <1>6, <1>7, <1>8, <1>9, <1>10, <1>11, <1>12, <1>13, <1>14, <1>15
     DEF Next, Step

-----------------------------------------------------------------------------
(* The theorems *)

\* The engine keeps its own invariants beside the table.
LEMMA EngineKept == IndexedSpec => [](TypeOK /\ BookInv)
<1>1. IndexedInit => TypeOK /\ BookInv  BY TypeInit, BookInit DEF IndexedInit
<1>2. TypeOK /\ BookInv /\ [IndexedNext]_indexed_vars => (TypeOK /\ BookInv)'
  <2>1. [IndexedNext]_indexed_vars => [Next]_vars  BY DEF IndexedNext, indexed_vars
  <2> QED  BY <2>1, TypeStep, BookStep
<1> QED  BY <1>1, <1>2, PTL DEF IndexedSpec

LEMMA TableKept == IndexedSpec => []IndexInv
<1>1. TypeOK /\ BookInv /\ IndexInv /\ [IndexedNext]_indexed_vars => IndexInv'
  BY IndexStep
<1> QED  BY <1>1, IndexInit, EngineKept, PTL DEF IndexedSpec

LEMMA OnChainOrders == OnChain = OrdersIn(saved.book)
BY DEF OnChain, OrdersIn, InBook

\* Whatever the orders and however they were matched: every order of the
\* committed book has the row its events add up to, with what it has left.
THEOREM RestingOrdersListedCorrect == IndexedSpec => []RestingOrdersListed
<1>1. IndexInv => RestingOrdersListed
  BY OnChainOrders DEF IndexInv, TableInv, Mirrors, RestingOrdersListed
<1> QED  BY <1>1, TableKept, PTL

\* What the table lists beside the book is what the engine gave back in silence.
THEOREM OnlyReleasedLingerCorrect == IndexedSpec => []OnlyReleasedLinger
<1>1. IndexInv => OnlyReleasedLinger
  BY OnChainOrders DEF IndexInv, TableInv, Mirrors, Ids, OnlyReleasedLinger
<1> QED  BY <1>1, TableKept, PTL

\* No instruction takes a row back: what an order has left only shrinks, and
\* an order that is not listed any more stays so.
THEOREM RowsOnlyShrinkCorrect == IndexedSpec => RowsOnlyShrink
<1> DEFINE Shrinks == \A key \in DOMAIN live_orders :
             /\ key \in DOMAIN live_orders'
             /\ live_orders'[key].remaining_quantity <= live_orders[key].remaining_quantity
             /\ key \in Listed(live_orders') => key \in Listed(live_orders)
             /\ live_orders'[key].remaining_quantity >= 0
<1>1. IndexInv /\ IndexInv' /\ [IndexedNext]_indexed_vars => Shrinks
  <2> SUFFICES ASSUME IndexInv, IndexInv', [IndexedNext]_indexed_vars PROVE Shrinks
    OBVIOUS
  <2>1. live_orders' = SoFar \/ live_orders' = live_orders
    <3>1. CASE UNCHANGED indexed_vars  BY <3>1 DEF indexed_vars
    <3>2. CASE IndexedNext /\ Commits
      <4>1. pc \in {"rest", "settle"}  BY <3>2 DEF Commits
      <4> QED  BY <3>2, <4>1, StoredIsSoFar DEF IndexedNext
    <3>3. CASE IndexedNext /\ ~Commits  BY <3>3 DEF IndexedNext
    <3> QED  BY <3>1, <3>2, <3>3
  <2>2. Shrunk(live_orders, live_orders')
    <3>1. Shrunk(live_orders, SoFar) /\ Shrunk(live_orders, live_orders)
      BY SameShrunk DEF IndexInv, TableInv
    <3> QED  BY <2>1, <3>1
  <2>3. IsTable(live_orders')  BY DEF IndexInv, TableInv
  <2>4. \A key \in DOMAIN live_orders' : live_orders'[key].remaining_quantity \in Nat
    BY <2>3 DEF IsTable, Rows
  <2> QED  BY <2>2, <2>4 DEF Shrunk
<1> HIDE DEF Shrinks
<1>2. IndexedSpec => [][Shrinks]_indexed_vars
  BY <1>1, TableKept, PTL DEF IndexedSpec
<1> QED  BY <1>2 DEF Shrinks, RowsOnlyShrink

=============================================================================
