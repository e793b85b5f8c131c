--------------------------- MODULE BookFeedProofs ---------------------------
(***************************************************************************)
(* The order book on its way to the browsers, for every value of the       *)
(* constants: which book a snapshot and its diffs give, that diff_side     *)
(* finds what turns one book into another, and that the backend's book and *)
(* each browser's catch up with the table but for what was missed.         *)
(***************************************************************************)
EXTENDS BookFeed, SumTheorems, SequenceTheorems, TLAPS

-----------------------------------------------------------------------------
(* Arranging *)

\* before orders the members of K one after the other.
StrictOrder(before, K) ==
  /\ \A i \in K : <<i, i>> \notin before
  /\ \A i, j \in K : i # j => <<i, j>> \in before \/ <<j, i>> \in before
  /\ \A i, j, k \in K : <<i, j>> \in before /\ <<j, k>> \in before => <<i, k>> \in before

\* Counting what comes before gives every member a place of its own, from 1 on.
LEMMA PlacesCount ==
  ASSUME NEW K, IsFiniteSet(K), NEW before, StrictOrder(before, K), NEW place,
         place = [i \in K |-> Cardinality({j \in K : <<j, i>> \in before}) + 1]
  PROVE  /\ Cardinality(K) \in Nat
         /\ place \in Bijection(K, 1..Cardinality(K))
         /\ \A i, j \in K : <<i, j>> \in before => place[i] < place[j]
<1> DEFINE Below(i) == {j \in K : <<j, i>> \in before}
           n == Cardinality(K)
<1>1. n \in Nat  BY FS_CardinalityType
<1>2. ASSUME NEW i \in K
      PROVE  IsFiniteSet(Below(i)) /\ Cardinality(Below(i)) \in 0..(n - 1)
  <2>1. Below(i) \in SUBSET (K \ {i})  BY DEF StrictOrder
  <2>2. IsFiniteSet(K \ {i}) /\ Cardinality(K \ {i}) = n - 1  BY FS_RemoveElement
  <2>3. IsFiniteSet(Below(i)) /\ Cardinality(Below(i)) <= n - 1
    <3> DEFINE T == Below(i)
               S == K \ {i}
    <3> HIDE DEF T, S
    <3>1. T \in SUBSET S /\ IsFiniteSet(S)  BY <2>1, <2>2 DEF T, S
    <3>2. IsFiniteSet(T) /\ Cardinality(T) <= Cardinality(S)  BY <3>1, FS_Subset
    <3> QED  BY <2>2, <3>2 DEF T, S
  <2> QED  BY <1>1, <2>3, FS_CardinalityType
<1>3. ASSUME NEW i \in K, NEW j \in K, <<i, j>> \in before
      PROVE  Cardinality(Below(i)) + 1 <= Cardinality(Below(j))
  <2>1. i \notin Below(i)  BY DEF StrictOrder
  <2>2. IsFiniteSet(Below(i) \cup {i}) /\ Cardinality(Below(i) \cup {i}) = Cardinality(Below(i)) + 1
    BY <1>2, <2>1, FS_AddElement
  <2>3. Below(i) \cup {i} \in SUBSET Below(j)  BY <1>3 DEF StrictOrder
  <2> DEFINE T == Below(i) \cup {i}
             S == Below(j)
  <2>4. IsFiniteSet(S)  BY <1>2
  <2> HIDE DEF T, S
  <2>5. Cardinality(T) <= Cardinality(S)  BY <2>3, <2>4, FS_Subset DEF T, S
  <2> QED  BY <2>2, <2>5 DEF T, S
<1>4. \A i \in K : place[i] = Cardinality(Below(i)) + 1  OBVIOUS
<1> HIDE DEF Below
<1>5. \A i \in K : place[i] \in 1..n  BY <1>1, <1>2, <1>4
<1>6. \A i, j \in K : <<i, j>> \in before => place[i] < place[j]
  BY <1>2, <1>3, <1>4
<1>7. \A i, j \in K : i # j => place[i] # place[j]
  <2> SUFFICES ASSUME NEW i \in K, NEW j \in K, i # j PROVE place[i] # place[j]
    OBVIOUS
  <2>1. place[i] \in Int /\ place[j] \in Int  BY <1>1, <1>5
  <2>2. place[i] < place[j] \/ place[j] < place[i]  BY <1>6 DEF StrictOrder
  <2> HIDE DEF n
  <2> QED  BY <2>1, <2>2
<1>8. place \in [K -> 1..n]  BY <1>5
<1>9. place \in Injection(K, 1..n)  BY <1>7, <1>8 DEF Injection, IsInjective
<1>10. IsFiniteSet(1..n) /\ Cardinality(1..n) = n  BY <1>1, FS_Interval
<1>11. place \in Surjection(K, 1..n)  BY <1>9, <1>10, FS_Injection
<1> QED  BY <1>1, <1>6, <1>9, <1>11 DEF Bijection

LEMMA SameLength ==
  ASSUME NEW m \in Nat, NEW n \in Nat, 1..m = 1..n
  PROVE  m = n
<1>1. CASE m < n
  <2>1. n \in 1..n /\ n \notin 1..m  BY <1>1
  <2> QED  BY <2>1
<1>2. CASE n < m
  <2>1. m \in 1..m /\ m \notin 1..n  BY <1>2
  <2> QED  BY <2>1
<1> QED  BY <1>1, <1>2

\* So what is arranged is each order that is kept, once, in that order: `at' is
\* where the k-th comes from.
LEMMA ArrangedProperties ==
  ASSUME NEW O, NEW orders \in Seq(O), NEW kept \in SUBSET DOMAIN orders,
         NEW before, StrictOrder(before, kept)
  PROVE  /\ Cardinality(kept) \in Nat
         /\ Arranged(orders, kept, before) \in Seq(O)
         /\ Len(Arranged(orders, kept, before)) = Cardinality(kept)
         /\ \E at \in [1..Cardinality(kept) -> kept] :
              /\ \A k \in 1..Cardinality(kept) :
                   Arranged(orders, kept, before)[k] = orders[at[k]]
              /\ \A i \in kept : \E k \in 1..Cardinality(kept) : at[k] = i
              /\ \A k, l \in 1..Cardinality(kept) : k < l => <<at[k], at[l]>> \in before
<1> DEFINE n == Cardinality(kept)
           place == [i \in kept |-> Cardinality({j \in kept : <<j, i>> \in before}) + 1]
           at == [k \in 1..n |-> CHOOSE i \in kept : place[i] = k]
           a == Arranged(orders, kept, before)
<1>1. DOMAIN orders = 1..Len(orders) /\ Len(orders) \in Nat /\ orders \in [1..Len(orders) -> O]
  BY LenProperties
<1>2. IsFiniteSet(kept)
  <2>1. IsFiniteSet(1..Len(orders))  BY <1>1, FS_Interval
  <2> QED  BY <1>1, <2>1, FS_Subset
<1>3. /\ n \in Nat /\ place \in Bijection(kept, 1..n)
      /\ \A i, j \in kept : <<i, j>> \in before => place[i] < place[j]
  <2> DEFINE p == place
  <2>1. p = [i \in kept |-> Cardinality({j \in kept : <<j, i>> \in before}) + 1]  OBVIOUS
  <2> HIDE DEF p
  <2>2. n \in Nat /\ p \in Bijection(kept, 1..n)
        /\ \A i, j \in kept : <<i, j>> \in before => p[i] < p[j]
    BY <1>2, <2>1, PlacesCount
  <2> QED  BY <2>2 DEF p
<1>4. a = [k \in 1..n |-> orders[CHOOSE i \in kept : place[i] = k]]  BY DEF Arranged
<1> HIDE DEF place, n, a
<1>5. /\ place \in [kept -> 1..n]
      /\ \A k \in 1..n : \E i \in kept : place[i] = k
      /\ \A i, j \in kept : place[i] = place[j] => i = j
  BY <1>3 DEF Bijection, Injection, Surjection, IsInjective
<1>6. \A k \in 1..n : at[k] \in kept /\ place[at[k]] = k  BY <1>5
<1>7. \A i \in kept : at[place[i]] = i /\ place[i] \in 1..n  BY <1>5, <1>6
<1>8. \A k \in 1..n : a[k] = orders[at[k]]  BY <1>4
<1> HIDE DEF at
<1>9. ASSUME NEW k \in 1..n, NEW l \in 1..n, k < l
      PROVE  <<at[k], at[l]>> \in before
  <2>1. at[k] # at[l]  BY <1>6, <1>9
  <2>2. <<at[l], at[k]>> \notin before
    <3>1. at[k] \in kept /\ place[at[k]] = k /\ at[l] \in kept /\ place[at[l]] = l
      BY <1>6
    <3>2. <<at[l], at[k]>> \in before => l < k  BY <1>3, <3>1
    <3>3. ~(l < k)  BY <1>3, <1>9
    <3> QED  BY <3>2, <3>3
  <2> QED  BY <1>6, <2>1, <2>2 DEF StrictOrder
<1>10. at \in [1..n -> kept]  BY <1>6 DEF at
<1>11. a \in [1..n -> O]
  <2>1. \A i \in kept : orders[i] \in O  BY <1>1
  <2>2. \A k \in 1..n : a[k] \in O  BY <1>6, <1>8, <2>1
  <2>3. a = [k \in 1..n |-> a[k]]  BY <1>4
  <2> QED  BY <2>2, <2>3
<1>12. a \in Seq(O) /\ Len(a) = n
  <2>1. a \in Seq(O)  BY <1>3, <1>11, SeqDef
  <2>2. Len(a) \in Nat /\ DOMAIN a = 1..Len(a) /\ DOMAIN a = 1..n
    BY <1>11, <2>1, LenProperties
  <2>3. 1..Len(a) = 1..n  BY <2>2
  <2>4. Len(a) = n  BY <1>3, <2>2, <2>3, SameLength
  <2> QED  BY <2>1, <2>4
<1> QED  BY <1>3, <1>7, <1>8, <1>9, <1>10, <1>12 DEF n, a
\* The vectors of a book are sorted this way.
InOrder(side, orders) ==
  \A i, j \in DOMAIN orders : i < j => ~Ahead(side, orders[j], orders[i])
Priced(O) == \A o \in O : o.price \in Int

LEMMA SortedProperties ==
  ASSUME NEW O, Priced(O), NEW side, NEW orders \in Seq(O)
  PROVE  /\ Sorted(side, orders) \in Seq(O)
         /\ InOrder(side, Sorted(side, orders))
         /\ ToSet(Sorted(side, orders)) = ToSet(orders)
<1> DEFINE D == DOMAIN orders
           Before(j, i) == \/ Ahead(side, orders[j], orders[i])
                           \/ j < i /\ ~Ahead(side, orders[i], orders[j])
           before == {p \in D \X D : Before(p[1], p[2])}
           s == Sorted(side, orders)
           n == Cardinality(D)
<1>1. D = 1..Len(orders) /\ Len(orders) \in Nat /\ \A i \in D : orders[i] \in O
  BY LenProperties
<1>2. \A i \in D : i \in Int /\ orders[i].price \in Int  BY <1>1 DEF Priced
<1>3. \A i, j \in D : <<i, j>> \in before <=> Before(i, j)  OBVIOUS
<1>4. StrictOrder(before, D)
  <2> HIDE DEF D, before
  <2>1. \A i \in D : ~Before(i, i)  BY <1>2 DEF Ahead
  <2>2. \A i, j \in D : i # j => Before(i, j) \/ Before(j, i)  BY <1>2 DEF Ahead
  <2>3. \A i, j, k \in D : Before(i, j) /\ Before(j, k) => Before(i, k)
    BY <1>2 DEF Ahead
  <2> HIDE DEF Before
  <2> QED  BY <1>3, <2>1, <2>2, <2>3 DEF StrictOrder
<1>5. s = Arranged(orders, D, before)  BY DEF Sorted
<1> HIDE DEF s, before, Before, D
<1>6. D \in SUBSET DOMAIN orders  BY DEF D
<1>7. /\ n \in Nat /\ s \in Seq(O) /\ Len(s) = n
      /\ \E at \in [1..n -> D] :
           /\ \A k \in 1..n : s[k] = orders[at[k]]
           /\ \A i \in D : \E k \in 1..n : at[k] = i
           /\ \A k, l \in 1..n : k < l => <<at[k], at[l]>> \in before
  BY <1>4, <1>5, <1>6, ArrangedProperties
<1> HIDE DEF n
<1>8. PICK at \in [1..n -> D] :
        /\ \A k \in 1..n : s[k] = orders[at[k]]
        /\ \A i \in D : \E k \in 1..n : at[k] = i
        /\ \A k, l \in 1..n : k < l => <<at[k], at[l]>> \in before
  BY <1>7
<1>9. DOMAIN s = 1..n  BY <1>7, LenProperties
<1>10. InOrder(side, s)
  <2>1. \A i, j \in D : Before(i, j) => ~Ahead(side, orders[j], orders[i])
    BY <1>2 DEF Before, Ahead
  <2> SUFFICES ASSUME NEW k \in 1..n, NEW l \in 1..n, k < l
               PROVE  ~Ahead(side, s[l], s[k])
    BY <1>9 DEF InOrder
  <2>2. at[k] \in D /\ at[l] \in D /\ s[k] = orders[at[k]] /\ s[l] = orders[at[l]]
    BY <1>8
  <2>3. <<at[k], at[l]>> \in before  BY <1>8
  <2> QED  BY <1>3, <2>1, <2>2, <2>3
<1>11. ToSet(s) = ToSet(orders)
  <2>1. \A k \in 1..n : at[k] \in D  BY <1>8
  <2> QED  BY <1>8, <1>9, <2>1 DEF ToSet, D
<1> QED  BY <1>7, <1>10, <1>11 DEF s

LEMMA KeptProperties ==
  ASSUME NEW O, NEW orders \in Seq(O), NEW kept \in SUBSET DOMAIN orders
  PROVE  /\ Kept(orders, kept) \in Seq(O)
         /\ ToSet(Kept(orders, kept)) = {orders[i] : i \in kept}
         /\ \A side : InOrder(side, orders) => InOrder(side, Kept(orders, kept))
<1> DEFINE before == {p \in kept \X kept : p[1] < p[2]}
           s == Kept(orders, kept)
           n == Cardinality(kept)
<1>1. \A i \in kept : i \in Int /\ i \in DOMAIN orders  BY LenProperties
<1>2. \A i, j \in kept : <<i, j>> \in before <=> i < j  OBVIOUS
<1>3. StrictOrder(before, kept)
  <2> HIDE DEF before
  <2> QED  BY <1>1, <1>2 DEF StrictOrder
<1>4. s = Arranged(orders, kept, before)  BY DEF Kept
<1> HIDE DEF s, before
<1>5. /\ n \in Nat /\ s \in Seq(O) /\ Len(s) = n
      /\ \E at \in [1..n -> kept] :
           /\ \A k \in 1..n : s[k] = orders[at[k]]
           /\ \A i \in kept : \E k \in 1..n : at[k] = i
           /\ \A k, l \in 1..n : k < l => <<at[k], at[l]>> \in before
  BY <1>3, <1>4, ArrangedProperties
<1> HIDE DEF n
<1>6. PICK at \in [1..n -> kept] :
        /\ \A k \in 1..n : s[k] = orders[at[k]]
        /\ \A i \in kept : \E k \in 1..n : at[k] = i
        /\ \A k, l \in 1..n : k < l => <<at[k], at[l]>> \in before
  BY <1>5
<1>7. DOMAIN s = 1..n  BY <1>5, LenProperties
<1>8. \A k \in 1..n : at[k] \in kept  BY <1>6
<1>9. ASSUME NEW side, InOrder(side, orders)
      PROVE  InOrder(side, s)
  <2> SUFFICES ASSUME NEW k \in 1..n, NEW l \in 1..n, k < l
               PROVE  ~Ahead(side, s[l], s[k])
    BY <1>7 DEF InOrder
  <2>1. at[k] \in kept /\ at[l] \in kept /\ s[k] = orders[at[k]] /\ s[l] = orders[at[l]]
    BY <1>6, <1>8
  <2>2. <<at[k], at[l]>> \in before  BY <1>6
  <2>3. at[k] < at[l] /\ at[k] \in DOMAIN orders /\ at[l] \in DOMAIN orders
    BY <1>1, <1>2, <2>1, <2>2
  <2> QED  BY <1>9, <2>1, <2>3 DEF InOrder
<1>10. ToSet(s) = {orders[i] : i \in kept}
  BY <1>6, <1>7, <1>8 DEF ToSet
<1> QED  BY <1>5, <1>9, <1>10 DEF s

LEMMA WithoutProperties ==
  ASSUME NEW O, NEW orders \in Seq(O), NEW ids
  PROVE  /\ Without(orders, ids) \in Seq(O)
         /\ ToSet(Without(orders, ids)) = {o \in ToSet(orders) : o.order_id \notin ids}
         /\ \A side : InOrder(side, orders) => InOrder(side, Without(orders, ids))
<1> DEFINE kept == {i \in DOMAIN orders : orders[i].order_id \notin ids}
<1>1. kept \in SUBSET DOMAIN orders  OBVIOUS
<1>2. {orders[i] : i \in kept} = {o \in ToSet(orders) : o.order_id \notin ids}
  BY DEF ToSet
<1>3. Without(orders, ids) = Kept(orders, kept)  BY DEF Without
<1> HIDE DEF kept
<1> QED  BY <1>1, <1>2, <1>3, KeptProperties

LEMMA PushProperties ==
  ASSUME NEW O, Priced(O), NEW side, NEW orders \in Seq(O), NEW order \in O
  PROVE  /\ Push(side, orders, order) \in Seq(O)
         /\ InOrder(side, Push(side, orders, order))
         /\ ToSet(Push(side, orders, order)) = ToSet(orders) \cup {order}
<1> DEFINE more == Append(orders, order)
<1>1. /\ more \in Seq(O) /\ DOMAIN more = 1..(Len(orders) + 1)
      /\ DOMAIN orders = 1..Len(orders) /\ Len(orders) \in Nat
      /\ \A i \in 1..Len(orders) : more[i] = orders[i]
      /\ more[Len(orders) + 1] = order
  BY AppendProperties, LenProperties
<1>2. Push(side, orders, order) = Sorted(side, more)  BY DEF Push
<1> HIDE DEF more
<1>3. ToSet(more) = ToSet(orders) \cup {order}
  <2>1. ToSet(more) = {more[i] : i \in 1..(Len(orders) + 1)}  BY <1>1 DEF ToSet
  <2>2. ToSet(orders) = {orders[i] : i \in 1..Len(orders)}  BY <1>1 DEF ToSet
  <2>3. \A i \in 1..(Len(orders) + 1) : i \in 1..Len(orders) \/ i = Len(orders) + 1
    BY <1>1
  <2>4. \A i \in 1..Len(orders) : i \in 1..(Len(orders) + 1)  BY <1>1
  <2>5. Len(orders) + 1 \in 1..(Len(orders) + 1)  BY <1>1
  <2> QED  BY <1>1, <2>1, <2>2, <2>3, <2>4, <2>5
<1> QED  BY <1>1, <1>2, <1>3, SortedProperties

-----------------------------------------------------------------------------
(* Pushing one order after the other *)

PushAll(side, orders, added) ==
  FoldLeft(LAMBDA os, order : Push(side, os, order), orders, added)

PushesOf(g, side, orders, added) ==
  g = [T \in SUBSET DOMAIN added |->
         IF T = {} THEN orders ELSE Push(side, g[T \ {Max(T)}], added[Max(T)])]

LEMMA PushAllIs ==
  ASSUME NEW side, NEW orders, NEW added
  PROVE  PushAll(side, orders, added)
           = (CHOOSE g : PushesOf(g, side, orders, added))[DOMAIN added]
BY DEF PushAll, FoldLeft, MapThenFoldSet, PushesOf

PushedBy(steps, O, side, orders, added) ==
  /\ steps \in [0..Len(added) -> Seq(O)]
  /\ steps[0] = orders
  /\ \A i \in 1..Len(added) : steps[i] = Push(side, steps[i - 1], added[i])
  /\ steps[Len(added)] = PushAll(side, orders, added)

LEMMA PushSteps ==
  ASSUME NEW O, Priced(O), NEW side, NEW orders \in Seq(O), NEW added \in Seq(O)
  PROVE  \E steps : PushedBy(steps, O, side, orders, added)
<1> DEFINE n == Len(added)
           D == Seq(O)
           after == [p \in D \X (1..n) |-> Push(side, p[1], added[p[2]])]
           S == 1..n
<1>1. n \in Nat /\ DOMAIN added = S /\ \A i \in S : added[i] \in O  BY LenProperties
<1>2. \A os \in D, i \in S : after[<<os, i>>] = Push(side, os, added[i])  OBVIOUS
<1>3. \A os \in D, i \in S : Push(side, os, added[i]) \in D  BY <1>1, PushProperties
<1>4. after \in [D \X (1..n) -> D]  BY <1>3
<1> HIDE DEF after, D, n
<1>5. orders \in D  BY DEF D
<1>6. HasLatest(S)  BY <1>1, IndicesHaveLatest
<1>7. \A T \in SUBSET S : T # {} => Max(T) \in T  BY <1>6 DEF HasLatest
<1>8. \E g : PushesOf(g, side, orders, added)
  <2>1. PICK g : Recurs(g, orders, after, S)  BY <1>6, RecursExists
  <2>2. \A T \in SUBSET S : g[T] \in D  BY <1>1, <1>4, <1>5, <2>1, RecursIn
  <2>3. ASSUME NEW T \in SUBSET S, T # {}
        PROVE  after[<<g[T \ {Max(T)}], Max(T)>>] = Push(side, g[T \ {Max(T)}], added[Max(T)])
    <3>1. Max(T) \in S /\ T \ {Max(T)} \in SUBSET S  BY <1>7, <2>3
    <3> QED  BY <1>2, <2>2, <3>1
  <2>4. PushesOf(g, side, orders, added)
    <3> HIDE DEF S
    <3> QED  BY <1>1, <2>1, <2>3 DEF PushesOf, Recurs
  <2> QED  BY <2>4
<1>9. PICK g : PushesOf(g, side, orders, added) /\ PushAll(side, orders, added) = g[S]
  BY <1>1, <1>8, PushAllIs
<1> HIDE DEF S
<1>10. \A T \in SUBSET S :
         g[T] = IF T = {} THEN orders ELSE Push(side, g[T \ {Max(T)}], added[Max(T)])
  BY <1>1, <1>9 DEF PushesOf
<1>11. \A T \in SUBSET S : g[T] \in D
  <2>1. g[{}] \in D  BY <1>5, <1>10
  <2>2. ASSUME NEW T \in SUBSET S, T # {} /\ g[T \ {Max(T)}] \in D
        PROVE  g[T] \in D
    <3>1. g[T] = Push(side, g[T \ {Max(T)}], added[Max(T)])  BY <1>10, <2>2
    <3>2. Max(T) \in S  BY <1>7, <2>2
    <3> QED  BY <1>3, <2>2, <3>1, <3>2
  <2> QED  BY <1>1, <2>1, <2>2, RecursTyped DEF S
<1>12. Recurs(g, orders, after, S)
  <2>1. ASSUME NEW T \in SUBSET S, T # {}
        PROVE  after[<<g[T \ {Max(T)}], Max(T)>>] = Push(side, g[T \ {Max(T)}], added[Max(T)])
    <3>1. Max(T) \in S /\ T \ {Max(T)} \in SUBSET S  BY <1>7, <2>1
    <3> QED  BY <1>2, <1>11, <3>1
  <2> QED  BY <1>1, <1>9, <2>1 DEF PushesOf, Recurs
<1>13. PICK steps : FoldSteps(steps, D, orders, after, n, g[1..n])
  <2>1. Recurs(g, orders, after, 1..n)  BY <1>12 DEF S
  <2> QED  BY <1>1, <1>4, <1>5, <2>1, RecursSteps
<1>14. \A i \in 1..n : i - 1 \in 0..n /\ steps[i - 1] \in D
  <2>1. \A i \in 1..n : i - 1 \in 0..n  BY <1>1
  <2>2. \A j \in 0..n : steps[j] \in D  BY <1>13 DEF FoldSteps
  <2> QED  BY <2>1, <2>2
<1>15. \A i \in 1..n : steps[i] = Push(side, steps[i - 1], added[i])
  BY <1>2, <1>13, <1>14 DEF FoldSteps, S
<1>16. steps[0] = orders /\ steps[n] = PushAll(side, orders, added)
  BY <1>9, <1>13 DEF FoldSteps, S
<1> QED  BY <1>13, <1>15, <1>16 DEF n, D, PushedBy, FoldSteps

\* A book that was sorted stays so, and has the orders it had and those pushed.
LEMMA PushAllProperties ==
  ASSUME NEW O, Priced(O), NEW side, NEW orders \in Seq(O), NEW added \in Seq(O)
  PROVE  /\ PushAll(side, orders, added) \in Seq(O)
         /\ InOrder(side, orders) => InOrder(side, PushAll(side, orders, added))
         /\ ToSet(PushAll(side, orders, added)) = ToSet(orders) \cup ToSet(added)
<1> DEFINE n == Len(added)
<1>2. PICK steps :
        /\ steps \in [0..n -> Seq(O)]
        /\ steps[0] = orders
        /\ \A i \in 1..n : steps[i] = Push(side, steps[i - 1], added[i])
        /\ steps[n] = PushAll(side, orders, added)
  <2>1. PICK steps : PushedBy(steps, O, side, orders, added)  BY PushSteps
  <2> QED  BY <2>1 DEF PushedBy
<1>1. n \in Nat /\ DOMAIN added = 1..n /\ \A i \in 1..n : added[i] \in O  BY LenProperties
<1> HIDE DEF n
<1> DEFINE A == {i \in 0..n : /\ InOrder(side, orders) => InOrder(side, steps[i])
                              /\ ToSet(steps[i]) = ToSet(orders) \cup {added[j] : j \in 1..i}}
<1>3. 0 \in A
  <2>1. {added[j] : j \in 1..0} = {}  OBVIOUS
  <2> QED  BY <1>1, <1>2, <2>1
<1>4. ASSUME NEW i \in 0..(n - 1), i \in A
      PROVE  i + 1 \in A
  <2>1. i + 1 \in 1..n /\ i \in 0..n /\ i + 1 \in 0..n /\ (i + 1) - 1 = i  BY <1>1
  <2>2. steps[i + 1] = Push(side, steps[i], added[i + 1])  BY <1>2, <2>1
  <2>3. steps[i] \in Seq(O) /\ added[i + 1] \in O  BY <1>1, <1>2, <2>1
  <2>4. InOrder(side, steps[i + 1]) /\ ToSet(steps[i + 1]) = ToSet(steps[i]) \cup {added[i + 1]}
    BY <2>2, <2>3, PushProperties
  <2>5. ToSet(steps[i]) = ToSet(orders) \cup {added[j] : j \in 1..i}  BY <1>4
  <2>6. \A j \in 1..(i + 1) : j \in 1..i \/ j = i + 1  BY <2>1
  <2>7. \A j \in 1..i : j \in 1..(i + 1)  BY <2>1
  <2>8. i + 1 \in 1..(i + 1)  BY <2>1
  <2>9. {added[j] : j \in 1..(i + 1)} = {added[j] : j \in 1..i} \cup {added[i + 1]}
    BY <2>6, <2>7, <2>8
  <2> QED  BY <2>1, <2>4, <2>5, <2>9
<1>5. \A i \in 0..n : i \in A
  <2> HIDE DEF A
  <2> QED  BY <1>1, <1>3, <1>4, AllSteps
<1>6. n \in A /\ n \in 0..n  BY <1>1, <1>5
<1>7. ToSet(added) = {added[j] : j \in 1..n}  BY <1>1 DEF ToSet
<1> QED  BY <1>2, <1>6, <1>7

-----------------------------------------------------------------------------
(* What a diff does to a book *)

StatesOf(O) == [slot : Nat, orders : [Sides -> Seq(O)]]
DiffsOf(O, I) == [slot : Nat, added : [Sides -> Seq(O)], removed : [Sides -> SUBSET I]]

\* What a diff adds, as entries of a book.
AddedBy(diff) == UNION {{[side |-> side, order |-> diff.added[side][i]] :
                           i \in DOMAIN diff.added[side]} : side \in Sides}

\* What a book says of one order, what a diff says of it, and whether the diff
\* takes out what the book said before.
EntriesOf(state, id) == {e \in Entries(state) : e.order.order_id = id}
AddedOf(diff, id) == {e \in AddedBy(diff) : e.order.order_id = id}
Takes(diff, id) == \E side \in Sides : id \in diff.removed[side]

LEMMA EntriesAre ==
  ASSUME NEW book
  PROVE  Entries(book) = UNION {{[side |-> side, order |-> o] : o \in ToSet(book.orders[side])} :
                                   side \in Sides}
BY DEF Entries, ToSet

LEMMA AddedAre ==
  ASSUME NEW diff
  PROVE  AddedBy(diff) = UNION {{[side |-> side, order |-> o] : o \in ToSet(diff.added[side])} :
                                   side \in Sides}
BY DEF AddedBy, ToSet

LEMMA EntryIn ==
  ASSUME NEW book, NEW side \in Sides, NEW o
  PROVE  [side |-> side, order |-> o] \in Entries(book) <=> o \in ToSet(book.orders[side])
<1>1. \A s, p : [side |-> s, order |-> p] = [side |-> side, order |-> o] => s = side /\ p = o
  <2> SUFFICES ASSUME NEW s, NEW p, [side |-> s, order |-> p] = [side |-> side, order |-> o]
               PROVE  s = side /\ p = o
    OBVIOUS
  <2>1. [side |-> s, order |-> p].side = [side |-> side, order |-> o].side  OBVIOUS
  <2>2. [side |-> s, order |-> p].order = [side |-> side, order |-> o].order  OBVIOUS
  <2> QED  BY <2>1, <2>2
<1> QED  BY <1>1, EntriesAre

\* A member of a book's entries.
LEMMA EntryIs ==
  ASSUME NEW book, NEW e \in Entries(book)
  PROVE  e.side \in Sides /\ e.order \in ToSet(book.orders[e.side])
         /\ e = [side |-> e.side, order |-> e.order]
<1>1. PICK side \in Sides : \E o \in ToSet(book.orders[side]) : e = [side |-> side, order |-> o]
  BY EntriesAre
<1> QED  BY <1>1

LEMMA AddedIs ==
  ASSUME NEW diff, NEW e \in AddedBy(diff)
  PROVE  e.side \in Sides /\ e.order \in ToSet(diff.added[e.side])
         /\ e = [side |-> e.side, order |-> e.order]
<1>1. PICK side \in Sides : \E o \in ToSet(diff.added[side]) : e = [side |-> side, order |-> o]
  BY AddedAre
<1> QED  BY <1>1

LEMMA ApplySides ==
  ASSUME NEW diff, NEW book
  PROVE  Apply(diff, book)
           = [slot   |-> diff.slot,
              orders |-> [side \in Sides |->
                            PushAll(side, Without(book.orders[side], diff.removed[side]),
                                    diff.added[side])]]
BY DEF Apply, PushAll

LEMMA ApplyProperties ==
  ASSUME NEW O, Priced(O), NEW I, NEW book \in StatesOf(O), NEW diff \in DiffsOf(O, I)
  PROVE  /\ Apply(diff, book) \in StatesOf(O)
         /\ Apply(diff, book).slot = diff.slot
         /\ InPriceOrder(book) => InPriceOrder(Apply(diff, book))
         /\ Entries(Apply(diff, book))
              = {e \in Entries(book) : e.order.order_id \notin diff.removed[e.side]}
                  \cup AddedBy(diff)
<1> DEFINE kept == [side \in Sides |-> Without(book.orders[side], diff.removed[side])]
           all == [side \in Sides |-> PushAll(side, kept[side], diff.added[side])]
           next == Apply(diff, book)
<1>1. next = [slot |-> diff.slot, orders |-> all]  BY ApplySides
<1>2. \A side \in Sides : book.orders[side] \in Seq(O) /\ diff.added[side] \in Seq(O)
  BY DEF StatesOf, DiffsOf
<1>3. \A side \in Sides :
        /\ kept[side] \in Seq(O)
        /\ ToSet(kept[side])
             = {o \in ToSet(book.orders[side]) : o.order_id \notin diff.removed[side]}
        /\ InOrder(side, book.orders[side]) => InOrder(side, kept[side])
  BY <1>2, WithoutProperties
<1> HIDE DEF kept
<1>4. \A side \in Sides :
        /\ all[side] \in Seq(O)
        /\ ToSet(all[side]) = ToSet(kept[side]) \cup ToSet(diff.added[side])
        /\ InOrder(side, kept[side]) => InOrder(side, all[side])
  <2> SUFFICES ASSUME NEW side \in Sides
               PROVE  /\ all[side] \in Seq(O)
                      /\ ToSet(all[side]) = ToSet(kept[side]) \cup ToSet(diff.added[side])
                      /\ InOrder(side, kept[side]) => InOrder(side, all[side])
    OBVIOUS
  <2>1. all[side] = PushAll(side, kept[side], diff.added[side])  OBVIOUS
  <2>2. kept[side] \in Seq(O) /\ diff.added[side] \in Seq(O)  BY <1>2, <1>3
  <2> HIDE DEF all
  <2> QED  BY <2>1, <2>2, PushAllProperties
<1>5. all = [side \in Sides |-> all[side]]  OBVIOUS
<1> HIDE DEF all, next
<1>6. next.slot = diff.slot /\ next.orders = all /\ diff.slot \in Nat
  BY <1>1 DEF DiffsOf
<1>7. next \in StatesOf(O)  BY <1>1, <1>4, <1>5, <1>6 DEF StatesOf
<1>8. ASSUME InPriceOrder(book) PROVE InPriceOrder(next)
  <2>1. \A side \in Sides : InOrder(side, book.orders[side])
    BY <1>8 DEF InPriceOrder, InOrder
  <2>2. \A side \in Sides : InOrder(side, next.orders[side])
    BY <1>3, <1>4, <1>6, <2>1
  <2> QED  BY <2>2 DEF InPriceOrder, InOrder
<1>9. ASSUME NEW e
      PROVE  e \in Entries(next)
               <=> \/ e \in Entries(book) /\ e.order.order_id \notin diff.removed[e.side]
                   \/ e \in AddedBy(diff)
  <2>1. e \in Entries(next)
          <=> \E side \in Sides : \E o \in ToSet(all[side]) : e = [side |-> side, order |-> o]
    BY <1>6, EntriesAre
  <2>2. e \in Entries(book)
          <=> \E side \in Sides : \E o \in ToSet(book.orders[side]) :
                e = [side |-> side, order |-> o]
    BY EntriesAre
  <2>3. e \in AddedBy(diff)
          <=> \E side \in Sides : \E o \in ToSet(diff.added[side]) :
                e = [side |-> side, order |-> o]
    BY AddedAre
  <2>4. \A side \in Sides : \A o :
          o \in ToSet(all[side])
            <=> \/ o \in ToSet(book.orders[side]) /\ o.order_id \notin diff.removed[side]
                \/ o \in ToSet(diff.added[side])
    BY <1>3, <1>4
  <2> QED  BY <2>1, <2>2, <2>3, <2>4
<1> QED  BY <1>6, <1>7, <1>8, <1>9 DEF next

\* A snapshot has the orders it is made of, sorted.
LEMMA PushSnapshotProperties ==
  ASSUME NEW O, Priced(O), NEW state \in StatesOf(O), NEW loaded \in [Sides -> Seq(O)]
  PROVE  /\ PushSnapshot(state, loaded) \in StatesOf(O)
         /\ PushSnapshot(state, loaded).slot = state.slot
         /\ InPriceOrder(PushSnapshot(state, loaded))
         /\ \A side \in Sides :
              ToSet(PushSnapshot(state, loaded).orders[side]) = ToSet(loaded[side])
<1> DEFINE sorted == [side \in Sides |-> Sorted(side, loaded[side])]
           next == PushSnapshot(state, loaded)
<1>1. next.slot = state.slot /\ next.orders = sorted /\ next = [slot |-> state.slot, orders |-> sorted]
  BY DEF PushSnapshot, StatesOf
<1>2. ASSUME NEW side \in Sides
      PROVE  /\ sorted[side] \in Seq(O) /\ InOrder(side, sorted[side])
             /\ ToSet(sorted[side]) = ToSet(loaded[side])
  <2>1. sorted[side] = Sorted(side, loaded[side]) /\ loaded[side] \in Seq(O)  OBVIOUS
  <2> HIDE DEF sorted
  <2> QED  BY <2>1, SortedProperties
<1>3. sorted = [side \in Sides |-> sorted[side]] /\ state.slot \in Nat  BY DEF StatesOf
<1> HIDE DEF sorted, next
<1>4. next \in StatesOf(O)  BY <1>1, <1>2, <1>3 DEF StatesOf
<1>5. InPriceOrder(next)  BY <1>1, <1>2 DEF InPriceOrder, InOrder
<1> QED  BY <1>1, <1>2, <1>4, <1>5 DEF next

LEMMA NewStateProperties ==
  ASSUME NEW O, NEW slot \in Nat
  PROVE  /\ NewState(slot) \in StatesOf(O) /\ NewState(slot).slot = slot
         /\ InPriceOrder(NewState(slot)) /\ Entries(NewState(slot)) = {}
<1>1. << >> \in Seq(O) /\ DOMAIN << >> = {}  OBVIOUS
<1>2. NewState(slot).orders = [side \in Sides |-> << >>] /\ NewState(slot).slot = slot
  BY DEF NewState
<1> QED  BY <1>1, <1>2 DEF NewState, StatesOf, InPriceOrder, Entries

-----------------------------------------------------------------------------
(* How often an order stands in a vector *)

Twice(orders, id) ==
  \E i, j \in DOMAIN orders : i # j /\ orders[i].order_id = id /\ orders[j].order_id = id

\* What is arranged has an order twice if two of the indices kept have it.
LEMMA ArrangedTwice ==
  ASSUME NEW O, NEW orders \in Seq(O), NEW kept \in SUBSET DOMAIN orders,
         NEW before, StrictOrder(before, kept), NEW id
  PROVE  Twice(Arranged(orders, kept, before), id)
           <=> \E i, j \in kept : i # j /\ orders[i].order_id = id /\ orders[j].order_id = id
<1> DEFINE n == Cardinality(kept)
           s == Arranged(orders, kept, before)
<1>0. s = Arranged(orders, kept, before)  OBVIOUS
<1> HIDE DEF s
<1>1. /\ n \in Nat /\ s \in Seq(O) /\ Len(s) = n
      /\ \E at \in [1..n -> kept] :
           /\ \A k \in 1..n : s[k] = orders[at[k]]
           /\ \A i \in kept : \E k \in 1..n : at[k] = i
           /\ \A k, l \in 1..n : k < l => <<at[k], at[l]>> \in before
  BY <1>0, ArrangedProperties
<1> HIDE DEF n
<1>2. PICK at \in [1..n -> kept] :
        /\ \A k \in 1..n : s[k] = orders[at[k]]
        /\ \A i \in kept : \E k \in 1..n : at[k] = i
        /\ \A k, l \in 1..n : k < l => <<at[k], at[l]>> \in before
  BY <1>1
<1>3. DOMAIN s = 1..n /\ \A k \in 1..n : at[k] \in kept  BY <1>1, <1>2, LenProperties
<1>4. \A k, l \in 1..n : k # l => at[k] # at[l]
  <2> SUFFICES ASSUME NEW k \in 1..n, NEW l \in 1..n, k < l PROVE at[k] # at[l]
    BY <1>1
  <2>1. <<at[k], at[l]>> \in before /\ at[k] \in kept  BY <1>2, <1>3
  <2> QED  BY <2>1 DEF StrictOrder
<1>5. ASSUME Twice(s, id)
      PROVE  \E i, j \in kept : i # j /\ orders[i].order_id = id /\ orders[j].order_id = id
  <2>1. PICK k, l \in 1..n : k # l /\ s[k].order_id = id /\ s[l].order_id = id
    BY <1>3, <1>5 DEF Twice
  <2>2. at[k] \in kept /\ at[l] \in kept /\ at[k] # at[l]  BY <1>3, <1>4, <2>1
  <2>3. orders[at[k]].order_id = id /\ orders[at[l]].order_id = id  BY <1>2, <2>1
  <2> QED  BY <2>2, <2>3
<1>6. ASSUME NEW i \in kept, NEW j \in kept, i # j, orders[i].order_id = id, orders[j].order_id = id
      PROVE  Twice(s, id)
  <2>1. PICK k \in 1..n : at[k] = i  BY <1>2
  <2>2. PICK l \in 1..n : at[l] = j  BY <1>2
  <2>3. k # l /\ s[k].order_id = id /\ s[l].order_id = id  BY <1>2, <1>6, <2>1, <2>2
  <2> QED  BY <1>3, <2>3 DEF Twice
<1> QED  BY <1>0, <1>5, <1>6

\* Sorting keeps every order as often as it was there.
LEMMA SortedTwice ==
  ASSUME NEW O, Priced(O), NEW side, NEW orders \in Seq(O), NEW id
  PROVE  Twice(Sorted(side, orders), id) <=> Twice(orders, id)
<1> DEFINE D == DOMAIN orders
           Before(j, i) == \/ Ahead(side, orders[j], orders[i])
                           \/ j < i /\ ~Ahead(side, orders[i], orders[j])
           before == {p \in D \X D : Before(p[1], p[2])}
<1>1. D = 1..Len(orders) /\ Len(orders) \in Nat /\ \A i \in D : orders[i] \in O
  BY LenProperties
<1>2. \A i \in D : i \in Int /\ orders[i].price \in Int  BY <1>1 DEF Priced
<1>3. \A i, j \in D : <<i, j>> \in before <=> Before(i, j)  OBVIOUS
<1>4. StrictOrder(before, D)
  <2> HIDE DEF D, before
  <2>1. \A i \in D : ~Before(i, i)  BY <1>2 DEF Ahead
  <2>2. \A i, j \in D : i # j => Before(i, j) \/ Before(j, i)  BY <1>2 DEF Ahead
  <2>3. \A i, j, k \in D : Before(i, j) /\ Before(j, k) => Before(i, k)
    BY <1>2 DEF Ahead
  <2> HIDE DEF Before
  <2> QED  BY <1>3, <2>1, <2>2, <2>3 DEF StrictOrder
<1>5. Sorted(side, orders) = Arranged(orders, D, before)  BY DEF Sorted
<1> HIDE DEF before, Before, D
<1>6. D \in SUBSET DOMAIN orders  BY DEF D
<1>7. Twice(Arranged(orders, D, before), id)
        <=> \E i, j \in D : i # j /\ orders[i].order_id = id /\ orders[j].order_id = id
  BY <1>4, <1>6, ArrangedTwice
<1> QED  BY <1>5, <1>7 DEF Twice, D

LEMMA KeptTwice ==
  ASSUME NEW O, NEW orders \in Seq(O), NEW kept \in SUBSET DOMAIN orders, NEW id
  PROVE  Twice(Kept(orders, kept), id)
           <=> \E i, j \in kept : i # j /\ orders[i].order_id = id /\ orders[j].order_id = id
<1> DEFINE before == {p \in kept \X kept : p[1] < p[2]}
<1>1. \A i \in kept : i \in Int /\ i \in DOMAIN orders  BY LenProperties
<1>2. \A i, j \in kept : <<i, j>> \in before <=> i < j  OBVIOUS
<1>3. StrictOrder(before, kept)
  <2> HIDE DEF before
  <2> QED  BY <1>1, <1>2 DEF StrictOrder
<1>4. Kept(orders, kept) = Arranged(orders, kept, before)  BY DEF Kept
<1> HIDE DEF before
<1> QED  BY <1>3, <1>4, ArrangedTwice

LEMMA WithoutTwice ==
  ASSUME NEW O, NEW orders \in Seq(O), NEW ids, NEW id
  PROVE  Twice(Without(orders, ids), id) <=> Twice(orders, id) /\ id \notin ids
<1> DEFINE kept == {i \in DOMAIN orders : orders[i].order_id \notin ids}
<1>1. kept \in SUBSET DOMAIN orders  OBVIOUS
<1>2. Without(orders, ids) = Kept(orders, kept)  BY DEF Without
<1>3. Twice(Kept(orders, kept), id)
        <=> \E i, j \in kept : i # j /\ orders[i].order_id = id /\ orders[j].order_id = id
  <2> HIDE DEF kept
  <2> QED  BY <1>1, KeptTwice
<1> QED  BY <1>2, <1>3 DEF Twice

\* A vector that has an order has it twice when it is pushed again.
LEMMA PushTwice ==
  ASSUME NEW O, Priced(O), NEW side, NEW orders \in Seq(O), NEW order \in O, NEW id
  PROVE  Twice(Push(side, orders, order), id)
           <=> Twice(orders, id) \/ (order.order_id = id /\ id \in Ids(orders))
<1> DEFINE more == Append(orders, order)
           n == Len(orders)
<1>1. /\ more \in Seq(O) /\ DOMAIN more = 1..(n + 1)
      /\ DOMAIN orders = 1..n /\ n \in Nat
      /\ \A i \in 1..n : more[i] = orders[i]
      /\ more[n + 1] = order
  BY AppendProperties, LenProperties
<1>2. Push(side, orders, order) = Sorted(side, more)  BY DEF Push
<1> HIDE DEF more, n
<1>3. /\ \A i \in 1..(n + 1) : i \in 1..n \/ i = n + 1
      /\ \A i \in 1..n : i \in 1..(n + 1) /\ i # n + 1
      /\ n + 1 \in 1..(n + 1)
  BY <1>1
<1>4. ASSUME Twice(more, id)
      PROVE  Twice(orders, id) \/ (order.order_id = id /\ id \in Ids(orders))
  <2>1. PICK i, j \in 1..(n + 1) : i # j /\ more[i].order_id = id /\ more[j].order_id = id
    BY <1>1, <1>4 DEF Twice
  <2>2. CASE i \in 1..n /\ j \in 1..n  BY <1>1, <2>1, <2>2 DEF Twice
  <2>3. CASE i \in 1..n /\ j = n + 1  BY <1>1, <2>1, <2>3 DEF Ids
  <2>4. CASE i = n + 1 /\ j \in 1..n  BY <1>1, <2>1, <2>4 DEF Ids
  <2> QED  BY <1>3, <2>1, <2>2, <2>3, <2>4
<1>5. ASSUME Twice(orders, id) PROVE Twice(more, id)
  <2>1. PICK i, j \in 1..n : i # j /\ orders[i].order_id = id /\ orders[j].order_id = id
    BY <1>1, <1>5 DEF Twice
  <2>2. more[i].order_id = id /\ more[j].order_id = id  BY <1>1, <2>1
  <2> QED  BY <1>1, <1>3, <2>1, <2>2 DEF Twice
<1>6. ASSUME order.order_id = id, id \in Ids(orders) PROVE Twice(more, id)
  <2>1. PICK i \in 1..n : orders[i].order_id = id  BY <1>1, <1>6 DEF Ids
  <2>2. more[i].order_id = id /\ more[n + 1].order_id = id /\ i # n + 1
    BY <1>1, <1>3, <1>6, <2>1
  <2> QED  BY <1>1, <1>3, <2>1, <2>2 DEF Twice
<1>7. Twice(Sorted(side, more), id) <=> Twice(more, id)  BY <1>1, SortedTwice
<1> QED  BY <1>2, <1>4, <1>5, <1>6, <1>7

\* Orders pushed that are all different stand twice where they already stood.
LEMMA PushAllTwice ==
  ASSUME NEW O, Priced(O), NEW side, NEW orders \in Seq(O), NEW added \in Seq(O), NEW id,
         ~Twice(added, id)
  PROVE  Twice(PushAll(side, orders, added), id)
           <=> Twice(orders, id) \/ (id \in Ids(orders) /\ id \in Ids(added))
<1> DEFINE n == Len(added)
<1>1. PICK steps :
        /\ steps \in [0..n -> Seq(O)]
        /\ steps[0] = orders
        /\ \A i \in 1..n : steps[i] = Push(side, steps[i - 1], added[i])
        /\ steps[n] = PushAll(side, orders, added)
  <2>1. PICK steps : PushedBy(steps, O, side, orders, added)  BY PushSteps
  <2> QED  BY <2>1 DEF PushedBy
<1>2. n \in Nat /\ DOMAIN added = 1..n /\ \A i \in 1..n : added[i] \in O  BY LenProperties
<1> HIDE DEF n
<1> DEFINE had == id \in Ids(orders)
           Came(i) == \E j \in 1..i : added[j].order_id = id
           A == {i \in 0..n : /\ id \in Ids(steps[i]) <=> had \/ Came(i)
                              /\ Twice(steps[i], id) <=> Twice(orders, id) \/ (had /\ Came(i))}
<1>3. 0 \in A
  <2>1. ~Came(0)  OBVIOUS
  <2> QED  BY <1>1, <1>2, <2>1
<1>4. ASSUME NEW i \in 0..(n - 1), i \in A
      PROVE  i + 1 \in A
  <2>1. i + 1 \in 1..n /\ i \in 0..n /\ i + 1 \in 0..n /\ (i + 1) - 1 = i  BY <1>2
  <2>2. steps[i + 1] = Push(side, steps[i], added[i + 1])  BY <1>1, <2>1
  <2>3. steps[i] \in Seq(O) /\ added[i + 1] \in O  BY <1>1, <1>2, <2>1
  <2>4. PICK new : new = added[i + 1].order_id  OBVIOUS
  <2>5. Twice(steps[i + 1], id) <=> Twice(steps[i], id) \/ (new = id /\ id \in Ids(steps[i]))
    BY <2>2, <2>3, <2>4, PushTwice
  <2>6. id \in Ids(steps[i + 1]) <=> id \in Ids(steps[i]) \/ new = id
    <3>1. ToSet(steps[i + 1]) = ToSet(steps[i]) \cup {added[i + 1]}
      BY <2>2, <2>3, PushProperties
    <3>2. \A s : id \in Ids(s) <=> \E o \in ToSet(s) : o.order_id = id  BY DEF Ids, ToSet
    <3> QED  BY <2>4, <3>1, <3>2
  <2>7. Came(i + 1) <=> Came(i) \/ new = id
    <3>1. \A j \in 1..(i + 1) : j \in 1..i \/ j = i + 1  BY <2>1
    <3>2. (\A j \in 1..i : j \in 1..(i + 1)) /\ i + 1 \in 1..(i + 1)  BY <2>1
    <3> QED  BY <2>4, <3>1, <3>2
  <2>8. ~(Came(i) /\ new = id)
    <3> SUFFICES ASSUME NEW j \in 1..i, added[j].order_id = id, new = id PROVE FALSE
      OBVIOUS
    <3>1. j \in 1..n /\ j # i + 1  BY <1>2, <2>1
    <3> QED  BY <1>2, <2>1, <2>4, <3>1 DEF Twice
  <2>9. /\ id \in Ids(steps[i]) <=> had \/ Came(i)
        /\ Twice(steps[i], id) <=> Twice(orders, id) \/ (had /\ Came(i))
    BY <1>4
  <2> HIDE DEF Came, had
  <2>10. /\ id \in Ids(steps[i + 1]) <=> had \/ Came(i + 1)
         /\ Twice(steps[i + 1], id) <=> Twice(orders, id) \/ (had /\ Came(i + 1))
    BY <2>5, <2>6, <2>7, <2>8, <2>9
  <2> QED  BY <2>1, <2>10
<1>5. \A i \in 0..n : i \in A
  <2> HIDE DEF A
  <2> QED  BY <1>2, <1>3, <1>4, AllSteps
<1>6. n \in 0..n /\ n \in A  BY <1>2, <1>5
<1>7. id \in Ids(added) <=> Came(n)  BY <1>2 DEF Ids
<1>8. Twice(steps[n], id) <=> Twice(orders, id) \/ (had /\ Came(n))  BY <1>6
<1> QED  BY <1>1, <1>7, <1>8

LEMMA DoubledIs ==
  ASSUME NEW state, NEW id
  PROVE  id \in Doubled(state) <=> \E side \in Sides : Twice(state.orders[side], id)
<1>1. \A side \in Sides : Twice(state.orders[side], id) => id \in Ids(state.orders[side])
  BY DEF Twice, Ids
<1>2. id \in Doubled(state)
        <=> \E side \in Sides : id \in Ids(state.orders[side]) /\ Twice(state.orders[side], id)
  BY DEF Doubled, Twice
<1> QED  BY <1>1, <1>2

\* One side of a book that a diff is applied to.
LEMMA SideTwice ==
  ASSUME NEW O, Priced(O), NEW I, NEW book \in StatesOf(O), NEW diff \in DiffsOf(O, I),
         NEW side \in Sides, NEW id, ~Twice(diff.added[side], id)
  PROVE  Twice(Apply(diff, book).orders[side], id)
           <=> /\ id \notin diff.removed[side]
               /\ \/ Twice(book.orders[side], id)
                  \/ id \in Ids(book.orders[side]) /\ id \in Ids(diff.added[side])
<1>1. PICK s, added, removed :
        s = book.orders[side] /\ added = diff.added[side] /\ removed = diff.removed[side]
  OBVIOUS
<1>2. s \in Seq(O) /\ added \in Seq(O)  BY <1>1 DEF StatesOf, DiffsOf
<1>3. PICK kept : kept = Without(s, removed)  OBVIOUS
<1>4. Apply(diff, book).orders[side] = PushAll(side, kept, added)  BY <1>1, <1>3, ApplySides
<1>5. kept \in Seq(O) /\ ToSet(kept) = {o \in ToSet(s) : o.order_id \notin removed}
  BY <1>2, <1>3, WithoutProperties
<1>6. Twice(kept, id) <=> Twice(s, id) /\ id \notin removed  BY <1>2, <1>3, WithoutTwice
<1>7. id \in Ids(kept) <=> id \in Ids(s) /\ id \notin removed
  <2>1. \A t : id \in Ids(t) <=> \E o \in ToSet(t) : o.order_id = id  BY DEF Ids, ToSet
  <2> QED  BY <1>5, <2>1
<1>8. Twice(PushAll(side, kept, added), id)
        <=> Twice(kept, id) \/ (id \in Ids(kept) /\ id \in Ids(added))
  BY <1>1, <1>2, <1>5, PushAllTwice
<1> QED  BY <1>1, <1>4, <1>6, <1>7, <1>8

-----------------------------------------------------------------------------
(* The diff of two books *)

\* Nothing is in what an empty vector tells.
LEMMA EmptyIs ==
  ASSUME NEW O, NEW s \in Seq(O)
  PROVE  s = << >> <=> ToSet(s) = {}
<1>1. Len(s) \in Nat /\ DOMAIN s = 1..Len(s)  BY LenProperties
<1>2. ASSUME ToSet(s) = {} PROVE s = << >>
  <2>1. \A i \in 1..Len(s) : s[i] \in ToSet(s)  BY <1>1 DEF ToSet
  <2>2. Len(s) = 0
    <3> SUFFICES ASSUME Len(s) # 0 PROVE FALSE
      OBVIOUS
    <3>1. 1 \in 1..Len(s)  BY <1>1
    <3> QED  BY <1>2, <2>1, <3>1
  <2> QED  BY <2>2, EmptySeq
<1>3. s = << >> => ToSet(s) = {}
  <2>1. DOMAIN << >> = {}  OBVIOUS
  <2> QED  BY <2>1 DEF ToSet
<1> QED  BY <1>2, <1>3

\* An order is what a diff tells apart, and keeps its price.
Told(O) == \A o, p \in O : /\ o.order_id = p.order_id /\ o.price = p.price
                           /\ o.remaining_quantity = p.remaining_quantity
                           => o = p
SamePrice(old, new) ==
  \A o \in ToSet(old), p \in ToSet(new) : o.order_id = p.order_id => o.price = p.price

\* One side of two books: what is left of the old without the removed ones and
\* with the added ones is the new one.
LEMMA DiffSideExact ==
  ASSUME NEW O, Told(O), NEW old \in Seq(O), NEW new \in Seq(O), SamePrice(old, new),
         \A id : ~Twice(old, id) /\ ~Twice(new, id), NEW d, d = DiffSide(old, new)
  PROVE  /\ d.added \in Seq(O)
         /\ d.removed \subseteq Ids(old)
         /\ ToSet(new) = {o \in ToSet(old) : o.order_id \notin d.removed} \cup ToSet(d.added)
         /\ \A id : ~Twice(d.added, id) /\ (id \in Ids(old) /\ id \in Ids(d.added) => id \in d.removed)
         /\ ToSet(old) = ToSet(new) => d.added = << >> /\ d.removed = {}
<1> DEFINE InMap(i) == \A j \in DOMAIN old : old[j].order_id = old[i].order_id => j <= i
           Same(o, i) == InMap(i) /\ o.order_id = old[i].order_id
                                 /\ o.remaining_quantity = old[i].remaining_quantity
           kept == {k \in DOMAIN new : ~\E i \in DOMAIN old : Same(new[k], i)}
           added == Kept(new, kept)
<1>1. d.added = added /\ d.removed = (Ids(old) \ Ids(new)) \cup (Ids(old) \cap Ids(added))
  BY DEF DiffSide
<1>2. /\ \A i, j \in DOMAIN old : old[i].order_id = old[j].order_id => i = j
      /\ \A i, j \in DOMAIN new : new[i].order_id = new[j].order_id => i = j
  BY DEF Twice
<1>3. /\ \A i \in DOMAIN old : i \in Int /\ old[i] \in O /\ old[i] \in ToSet(old)
      /\ \A k \in DOMAIN new : new[k] \in O /\ new[k] \in ToSet(new)
  BY LenProperties DEF ToSet
<1>4. \A i \in DOMAIN old : InMap(i)  BY <1>2, <1>3
<1>5. \A k \in DOMAIN new, i \in DOMAIN old : Same(new[k], i) <=> new[k] = old[i]
  BY <1>3, <1>4 DEF Told, SamePrice
<1>6. kept = {k \in DOMAIN new : new[k] \notin ToSet(old)}
  <2> HIDE DEF Same
  <2> QED  BY <1>5 DEF ToSet
<1>7. /\ added \in Seq(O) /\ ToSet(added) = {new[k] : k \in kept}
      /\ \A id : ~Twice(added, id)
  <2> HIDE DEF kept
  <2>1. kept \in SUBSET DOMAIN new  BY DEF kept
  <2>2. ASSUME NEW id PROVE ~Twice(added, id)
    <3>1. Twice(added, id)
            <=> \E i, j \in kept : i # j /\ new[i].order_id = id /\ new[j].order_id = id
      BY <2>1, KeptTwice
    <3> QED  BY <1>2, <2>1, <3>1
  <2> QED  BY <2>1, <2>2, KeptProperties
<1> HIDE DEF kept, added, Same, InMap
<1>8. ToSet(added) = {o \in ToSet(new) : o \notin ToSet(old)}
  BY <1>6, <1>7 DEF ToSet
<1>9. /\ \A id : id \in Ids(old) <=> \E o \in ToSet(old) : o.order_id = id
      /\ \A id : id \in Ids(new) <=> \E o \in ToSet(new) : o.order_id = id
      /\ \A id : id \in Ids(added) <=> \E o \in ToSet(added) : o.order_id = id
  BY DEF Ids, ToSet
<1>10. \A o, p \in ToSet(new) : o.order_id = p.order_id => o = p
  BY <1>2 DEF ToSet
<1>11. \A o, p \in ToSet(old) : o.order_id = p.order_id => o = p
  BY <1>2 DEF ToSet
<1>12. ASSUME NEW o
       PROVE  o \in ToSet(new) <=> \/ o \in ToSet(old) /\ o.order_id \notin d.removed
                                  \/ o \in ToSet(added)
  <2>1. ASSUME o \in ToSet(new), o \notin ToSet(added)
        PROVE  o \in ToSet(old) /\ o.order_id \notin d.removed
    <3>1. o \in ToSet(old) /\ o.order_id \in Ids(new)  BY <1>8, <1>9, <2>1
    <3>2. o.order_id \notin Ids(added)
      <4> SUFFICES ASSUME NEW p \in ToSet(added), p.order_id = o.order_id PROVE FALSE
        BY <1>9
      <4> QED  BY <1>8, <1>10, <2>1
    <3> QED  BY <1>1, <3>1, <3>2
  <2>2. ASSUME o \in ToSet(old), o.order_id \notin d.removed
        PROVE  o \in ToSet(new)
    <3>1. o.order_id \in Ids(old)  BY <1>9, <2>2
    <3>2. PICK p \in ToSet(new) : p.order_id = o.order_id  BY <1>1, <1>9, <2>2, <3>1
    <3>3. p \notin ToSet(added)  BY <1>1, <1>9, <2>2, <3>1, <3>2
    <3>4. p \in ToSet(old)  BY <1>8, <3>2, <3>3
    <3> QED  BY <1>11, <2>2, <3>2, <3>4
  <2> QED  BY <1>8, <2>1, <2>2
<1>13. ASSUME ToSet(old) = ToSet(new)
       PROVE  added = << >> /\ d.removed = {}
  <2>1. ToSet(added) = {}  BY <1>8, <1>13
  <2>2. added = << >>  BY <1>7, <2>1, EmptyIs
  <2> QED  BY <1>1, <1>9, <1>13, <2>1, <2>2
<1> QED  BY <1>1, <1>7, <1>12, <1>13

\* So of two books: the diff turns the one into the other, and there is one only
\* if they differ.
LEMMA DiffIsExact ==
  ASSUME NEW O, Priced(O), Told(O), NEW I, \A o \in O : o.order_id \in I,
         NEW old \in StatesOf(O), NEW new \in StatesOf(O),
         Doubled(old) = {}, Doubled(new) = {},
         \A side \in Sides : SamePrice(old.orders[side], new.orders[side])
  PROVE  /\ Entries(Apply(Diff(old, new), old)) = Entries(new)
         /\ Doubled(Apply(Diff(old, new), old)) = {}
         /\ IsEmpty(Diff(old, new)) <=> Entries(old) = Entries(new)
<1> DEFINE diff == Diff(old, new)
           d == [side \in Sides |-> DiffSide(old.orders[side], new.orders[side])]
<1>1. /\ diff = [slot |-> new.slot, added |-> [side \in Sides |-> d[side].added],
                removed |-> [side \in Sides |-> d[side].removed]]
      /\ \A side \in Sides : diff.added[side] = d[side].added /\ diff.removed[side] = d[side].removed
  BY DEF Diff
<1>2. ASSUME NEW side \in Sides
      PROVE  /\ old.orders[side] \in Seq(O) /\ new.orders[side] \in Seq(O)
             /\ \A id : ~Twice(old.orders[side], id) /\ ~Twice(new.orders[side], id)
             /\ d[side] = DiffSide(old.orders[side], new.orders[side])
  BY DoubledIs DEF StatesOf
<1> HIDE DEF d
<1>3. ASSUME NEW side \in Sides
      PROVE  /\ d[side].added \in Seq(O)
             /\ d[side].removed \subseteq Ids(old.orders[side])
             /\ ToSet(new.orders[side])
                  = {o \in ToSet(old.orders[side]) : o.order_id \notin d[side].removed}
                      \cup ToSet(d[side].added)
             /\ \A id : /\ ~Twice(d[side].added, id)
                        /\ id \in Ids(old.orders[side]) /\ id \in Ids(d[side].added)
                             => id \in d[side].removed
             /\ ToSet(old.orders[side]) = ToSet(new.orders[side])
                  => d[side].added = << >> /\ d[side].removed = {}
  <2> DEFINE x == old.orders[side]
             y == new.orders[side]
             z == d[side]
  <2>1. x \in Seq(O) /\ y \in Seq(O) /\ SamePrice(x, y) /\ z = DiffSide(x, y)
        /\ \A id : ~Twice(x, id) /\ ~Twice(y, id)
    BY <1>2
  <2> HIDE DEF x, y, z
  <2>2. /\ z.added \in Seq(O) /\ z.removed \subseteq Ids(x)
        /\ ToSet(y) = {o \in ToSet(x) : o.order_id \notin z.removed} \cup ToSet(z.added)
        /\ ToSet(x) = ToSet(y) => z.added = << >> /\ z.removed = {}
    BY <2>1, DiffSideExact
  <2>3. ASSUME NEW id
        PROVE  ~Twice(z.added, id) /\ (id \in Ids(x) /\ id \in Ids(z.added) => id \in z.removed)
    BY <2>1, DiffSideExact
  <2> QED  BY <2>2, <2>3 DEF x, y, z
<1>4. \A side \in Sides : Ids(old.orders[side]) \subseteq I
  <2> SUFFICES ASSUME NEW side \in Sides, NEW i \in DOMAIN old.orders[side]
               PROVE  old.orders[side][i].order_id \in I
    BY DEF Ids
  <2>1. old.orders[side][i] \in O  BY <1>2, LenProperties
  <2> QED  BY <2>1
<1>5. diff \in DiffsOf(O, I)
  <2>1. new.slot \in Nat  BY DEF StatesOf
  <2>2. \A side \in Sides : d[side].added \in Seq(O) /\ d[side].removed \in SUBSET I
    BY <1>3, <1>4
  <2> QED  BY <1>1, <2>1, <2>2 DEF DiffsOf
<1> HIDE DEF diff
<1>6. Entries(Apply(diff, old))
        = {e \in Entries(old) : e.order.order_id \notin diff.removed[e.side]} \cup AddedBy(diff)
  BY <1>5, ApplyProperties
<1>7. ASSUME NEW e
      PROVE  e \in Entries(Apply(diff, old)) <=> e \in Entries(new)
  <2>1. e \in Entries(old)
          <=> \E side \in Sides : \E o \in ToSet(old.orders[side]) :
                e = [side |-> side, order |-> o]
    BY EntriesAre
  <2>2. e \in Entries(new)
          <=> \E side \in Sides : \E o \in ToSet(new.orders[side]) :
                e = [side |-> side, order |-> o]
    BY EntriesAre
  <2>3. e \in AddedBy(diff)
          <=> \E side \in Sides : \E o \in ToSet(diff.added[side]) :
                e = [side |-> side, order |-> o]
    BY AddedAre
  <2>4. \A side \in Sides : \A o :
          o \in ToSet(new.orders[side])
            <=> \/ o \in ToSet(old.orders[side]) /\ o.order_id \notin diff.removed[side]
                \/ o \in ToSet(diff.added[side])
    BY <1>1, <1>3
  <2> QED  BY <1>6, <2>1, <2>2, <2>3, <2>4
<1>8. Entries(Apply(diff, old)) = Entries(new)  BY <1>7
<1>9. ASSUME IsEmpty(diff) PROVE Entries(old) = Entries(new)
  <2>1. \A side \in Sides : diff.added[side] = << >> /\ diff.removed[side] = {}
    BY <1>9 DEF IsEmpty
  <2>2. AddedBy(diff) = {}
    <3>1. \A side \in Sides : DOMAIN diff.added[side] = {}  BY <2>1
    <3> QED  BY <3>1 DEF AddedBy
  <2>3. \A e \in Entries(old) : e.side \in Sides  BY EntryIs
  <2> QED  BY <1>6, <1>8, <2>1, <2>2, <2>3
<1>10. ASSUME Entries(old) = Entries(new) PROVE IsEmpty(diff)
  <2>1. \A side \in Sides : ToSet(old.orders[side]) = ToSet(new.orders[side])
    <3> SUFFICES ASSUME NEW side \in Sides, NEW o
                 PROVE  o \in ToSet(old.orders[side]) <=> o \in ToSet(new.orders[side])
      OBVIOUS
    <3> QED  BY <1>10, EntryIn
  <2> QED  BY <1>1, <1>3, <2>1 DEF IsEmpty
<1>11. Doubled(Apply(diff, old)) = {}
  <2> SUFFICES ASSUME NEW id, NEW side \in Sides, Twice(Apply(diff, old).orders[side], id)
               PROVE  FALSE
    BY DoubledIs
  <2>1. ~Twice(diff.added[side], id)  BY <1>1, <1>3
  <2>2. /\ id \notin diff.removed[side]
        /\ \/ Twice(old.orders[side], id)
           \/ id \in Ids(old.orders[side]) /\ id \in Ids(diff.added[side])
    BY <1>5, <2>1, SideTwice
  <2> QED  BY <1>1, <1>2, <1>3, <2>2
<1> QED  BY <1>8, <1>9, <1>10, <1>11 DEF diff

-----------------------------------------------------------------------------
(* Books and diffs of one market *)

\* What the services pass around: orders, books, diffs.
Orders == [order_id : OrderIds, price : Nat, remaining_quantity : Nat]
States == StatesOf(Orders)
Diffs == DiffsOf(Orders, OrderIds)

\* An order is on the side, and has the price, that it was placed with; a diff of
\* an event adds one order a side at most.
Home(entries) ==
  \A e \in entries : LET id == e.order.order_id
                     IN e.side = Menu[id].side /\ e.order.price = Menu[id].price
HomeDiff(diff) ==
  /\ Home(AddedBy(diff))
  /\ \A side \in Sides : \A id \in diff.removed[side] : Menu[id].side = side
  /\ \A side \in Sides : Len(diff.added[side]) <= 1

LEMMA OrdersArePriced == Priced(Orders) /\ Told(Orders)
BY DEF Orders, Priced, Told

LEMMA ApplyTells ==
  ASSUME NEW book \in States, NEW diff \in Diffs, Home(Entries(book)), HomeDiff(diff)
  PROVE  /\ Apply(diff, book) \in States /\ Home(Entries(Apply(diff, book)))
         /\ Apply(diff, book).slot = diff.slot
         /\ InPriceOrder(book) => InPriceOrder(Apply(diff, book))
         /\ \A id : EntriesOf(Apply(diff, book), id)
                      = (IF Takes(diff, id) THEN {} ELSE EntriesOf(book, id)) \cup AddedOf(diff, id)
<1> DEFINE next == Apply(diff, book)
<1>1. /\ next \in States /\ next.slot = diff.slot
      /\ InPriceOrder(book) => InPriceOrder(next)
      /\ Entries(next) = {e \in Entries(book) : e.order.order_id \notin diff.removed[e.side]}
                            \cup AddedBy(diff)
  <2>1. book \in StatesOf(Orders) /\ diff \in DiffsOf(Orders, OrderIds)  BY DEF States, Diffs
  <2>2. Priced(Orders)  BY OrdersArePriced
  <2> QED  BY <2>1, <2>2, ApplyProperties DEF States
<1> HIDE DEF next
<1>2. Home(Entries(next))  BY <1>1 DEF Home, HomeDiff
<1>3. ASSUME NEW e \in Entries(book)
      PROVE  e.order.order_id \in diff.removed[e.side] <=> Takes(diff, e.order.order_id)
  <2>1. e.side \in Sides  BY EntryIs
  <2>2. e.side = Menu[e.order.order_id].side  BY DEF Home
  <2> QED  BY <2>1, <2>2 DEF HomeDiff, Takes
<1>4. ASSUME NEW id
      PROVE  EntriesOf(next, id)
               = (IF Takes(diff, id) THEN {} ELSE EntriesOf(book, id)) \cup AddedOf(diff, id)
  <2>1. \A e : e \in EntriesOf(next, id)
                 <=> \/ e \in Entries(book) /\ e.order.order_id = id /\ ~Takes(diff, id)
                     \/ e \in AddedOf(diff, id)
    BY <1>1, <1>3 DEF EntriesOf, AddedOf
  <2> QED  BY <2>1 DEF EntriesOf
<1> QED  BY <1>1, <1>2, <1>4 DEF next

\* A diff says nothing of an order that it does not touch.
LEMMA Untouching ==
  ASSUME NEW diff \in Diffs, NEW id, id \notin Touched(diff)
  PROVE  ~Takes(diff, id) /\ AddedOf(diff, id) = {}
<1>1. ~Takes(diff, id)  BY DEF Takes, Touched
<1>2. AddedOf(diff, id) = {}
  <2> SUFFICES ASSUME NEW e \in AddedBy(diff), e.order.order_id = id PROVE FALSE
    BY DEF AddedOf
  <2>1. PICK side \in Sides : \E i \in DOMAIN diff.added[side] :
          e = [side |-> side, order |-> diff.added[side][i]]
    BY DEF AddedBy
  <2>2. id \in Ids(diff.added[side])  BY <2>1 DEF Ids
  <2> QED  BY <2>2 DEF Touched
<1> QED  BY <1>1, <1>2

-----------------------------------------------------------------------------
(* Applying one diff after the other *)

AppliesOf(g, diffs, book) ==
  g = [T \in SUBSET DOMAIN diffs |->
         IF T = {} THEN book ELSE Apply(diffs[Max(T)], g[T \ {Max(T)}])]

LEMMA AppliedIs ==
  ASSUME NEW book, NEW diffs
  PROVE  Applied(diffs, book) = (CHOOSE g : AppliesOf(g, diffs, book))[DOMAIN diffs]
BY DEF Applied, FoldLeft, MapThenFoldSet, AppliesOf

AppliedBy(steps, diffs, book) ==
  /\ steps \in [0..Len(diffs) -> States]
  /\ steps[0] = book
  /\ \A i \in 1..Len(diffs) : steps[i] = Apply(diffs[i], steps[i - 1])
  /\ steps[Len(diffs)] = Applied(diffs, book)

LEMMA AppliedSteps ==
  ASSUME NEW book \in States, NEW diffs \in Seq(Diffs)
  PROVE  \E steps : AppliedBy(steps, diffs, book)
<1> DEFINE n == Len(diffs)
           D == States
           S == 1..n
           after == [p \in D \X (1..n) |-> Apply(diffs[p[2]], p[1])]
<1>1. n \in Nat /\ DOMAIN diffs = S /\ \A i \in S : diffs[i] \in Diffs  BY LenProperties
<1>2. \A b \in D, i \in S : after[<<b, i>>] = Apply(diffs[i], b)  OBVIOUS
<1>3. \A b \in D, i \in S : Apply(diffs[i], b) \in D
  BY <1>1, OrdersArePriced, ApplyProperties DEF States, Diffs
<1>4. after \in [D \X (1..n) -> D]  BY <1>3
<1> HIDE DEF after, D, n
<1>5. book \in D  BY DEF D
<1>6. HasLatest(S)  BY <1>1, IndicesHaveLatest
<1>7. \A T \in SUBSET S : T # {} => Max(T) \in T  BY <1>6 DEF HasLatest
<1>8. \E g : AppliesOf(g, diffs, book)
  <2>1. PICK g : Recurs(g, book, after, S)  BY <1>6, RecursExists
  <2>2. \A T \in SUBSET S : g[T] \in D  BY <1>1, <1>4, <1>5, <2>1, RecursIn
  <2>3. ASSUME NEW T \in SUBSET S, T # {}
        PROVE  after[<<g[T \ {Max(T)}], Max(T)>>] = Apply(diffs[Max(T)], g[T \ {Max(T)}])
    <3>1. Max(T) \in S /\ T \ {Max(T)} \in SUBSET S  BY <1>7, <2>3
    <3> QED  BY <1>2, <2>2, <3>1
  <2>4. AppliesOf(g, diffs, book)
    <3> HIDE DEF S
    <3> QED  BY <1>1, <2>1, <2>3 DEF AppliesOf, Recurs
  <2> QED  BY <2>4
<1>9. PICK g : AppliesOf(g, diffs, book) /\ Applied(diffs, book) = g[S]
  BY <1>1, <1>8, AppliedIs
<1> HIDE DEF S
<1>10. \A T \in SUBSET S :
         g[T] = IF T = {} THEN book ELSE Apply(diffs[Max(T)], g[T \ {Max(T)}])
  BY <1>1, <1>9 DEF AppliesOf
<1>11. \A T \in SUBSET S : g[T] \in D
  <2>1. g[{}] \in D  BY <1>5, <1>10
  <2>2. \A T \in SUBSET S : T # {} /\ g[T \ {Max(T)}] \in D => g[T] \in D
    BY <1>3, <1>7, <1>10
  <2> QED  BY <1>1, <2>1, <2>2, RecursTyped DEF S
<1>12. Recurs(g, book, after, S)
  <2>1. ASSUME NEW T \in SUBSET S, T # {}
        PROVE  after[<<g[T \ {Max(T)}], Max(T)>>] = Apply(diffs[Max(T)], g[T \ {Max(T)}])
    <3>1. Max(T) \in S /\ T \ {Max(T)} \in SUBSET S  BY <1>7, <2>1
    <3> QED  BY <1>2, <1>11, <3>1
  <2> QED  BY <1>1, <1>9, <2>1 DEF AppliesOf, Recurs
<1>13. PICK steps : FoldSteps(steps, D, book, after, n, g[1..n])
  <2>1. Recurs(g, book, after, 1..n)  BY <1>12 DEF S
  <2> QED  BY <1>1, <1>4, <1>5, <2>1, RecursSteps
<1>14. \A i \in 1..n : i - 1 \in 0..n /\ steps[i - 1] \in D
  <2>1. \A i \in 1..n : i - 1 \in 0..n  BY <1>1
  <2>2. \A j \in 0..n : steps[j] \in D  BY <1>13 DEF FoldSteps
  <2> QED  BY <2>1, <2>2
<1>15. \A i \in 1..n : steps[i] = Apply(diffs[i], steps[i - 1])
  BY <1>2, <1>13, <1>14 DEF FoldSteps, S
<1>16. steps[0] = book /\ steps[n] = Applied(diffs, book)
  BY <1>9, <1>13 DEF FoldSteps, S
<1> QED  BY <1>13, <1>15, <1>16 DEF n, D, AppliedBy, FoldSteps

Untold(diffs, id) == \A i \in DOMAIN diffs : id \notin Touched(diffs[i])

\* The last of the diffs that touches the order.
LastOf(diffs, id, i) ==
  /\ id \in Touched(diffs[i])
  /\ \A j \in DOMAIN diffs : i < j => id \notin Touched(diffs[j])

\* What a book says of an order after the diffs is what the last diff says that
\* touches it, or what it said before.
LEMMA AppliedTells ==
  ASSUME NEW book \in States, NEW diffs \in Seq(Diffs), Home(Entries(book)),
         \A i \in DOMAIN diffs : HomeDiff(diffs[i]), NEW id, NEW entries,
         \A i, j \in DOMAIN diffs :
           i < j /\ id \in Touched(diffs[i]) /\ id \in Touched(diffs[j]) => Takes(diffs[j], id),
         Untold(diffs, id) => EntriesOf(book, id) = entries,
         \A i \in DOMAIN diffs : LastOf(diffs, id, i) =>
           /\ AddedOf(diffs[i], id) = entries
           /\ Takes(diffs[i], id) \/ EntriesOf(book, id) \subseteq entries
  PROVE  EntriesOf(Applied(diffs, book), id) = entries
<1> DEFINE n == Len(diffs)
           touches(i) == id \in Touched(diffs[i])
           said(i) == AddedOf(diffs[i], id)
           taken(i) == Takes(diffs[i], id)
           before == EntriesOf(book, id)
<1>1. n \in Nat /\ DOMAIN diffs = 1..n /\ \A i \in 1..n : diffs[i] \in Diffs
  BY LenProperties
<1>2. PICK steps :
        /\ steps \in [0..n -> States] /\ steps[0] = book
        /\ \A i \in 1..n : steps[i] = Apply(diffs[i], steps[i - 1])
        /\ steps[n] = Applied(diffs, book)
  <2>1. PICK steps : AppliedBy(steps, diffs, book)  BY AppliedSteps
  <2> QED  BY <2>1 DEF AppliedBy
<1> DEFINE at(i) == EntriesOf(steps[i], id)
           A == {i \in 0..n :
                   /\ Home(Entries(steps[i]))
                   /\ (\A j \in 1..i : ~touches(j)) => at(i) = before
                   /\ \A j \in 1..i : touches(j) /\ (\A k \in (j + 1)..i : ~touches(k))
                        => at(i) = (IF taken(j) THEN {} ELSE before) \cup said(j)}
<1> HIDE DEF n
<1>3. 0 \in A  BY <1>1, <1>2
<1>4. ASSUME NEW i \in 0..(n - 1), i \in A
      PROVE  i + 1 \in A
  <2>1. i + 1 \in 1..n /\ i \in 0..n /\ i + 1 \in 0..n /\ (i + 1) - 1 = i /\ i \in Nat  BY <1>1
  <2>2. steps[i + 1] = Apply(diffs[i + 1], steps[i])  BY <1>2, <2>1
  <2>3. steps[i] \in States /\ diffs[i + 1] \in Diffs /\ HomeDiff(diffs[i + 1])
        /\ Home(Entries(steps[i]))
    BY <1>1, <1>2, <1>4, <2>1
  <2>4. /\ Home(Entries(steps[i + 1]))
        /\ at(i + 1) = (IF taken(i + 1) THEN {} ELSE at(i)) \cup said(i + 1)
    BY <2>2, <2>3, ApplyTells
  <2>5. ~touches(i + 1) => ~taken(i + 1) /\ said(i + 1) = {}  BY <2>3, Untouching
  <2>6. /\ (\A j \in 1..i : ~touches(j)) => at(i) = before
        /\ \A j \in 1..i : touches(j) /\ (\A k \in (j + 1)..i : ~touches(k))
              => at(i) = (IF taken(j) THEN {} ELSE before) \cup said(j)
    BY <1>4
  <2>7. \A j \in 1..(i + 1) : j \in 1..n /\ (j \in 1..i \/ j = i + 1)
    BY <1>1, <2>1
  <2>8. \A j \in 1..i : j \in 1..(i + 1) /\ j \in 1..n /\ j < i + 1
    BY <1>1, <2>1
  <2>9. i + 1 \in 1..(i + 1)  BY <2>1
  <2>10. \A j \in 1..i : touches(j) /\ touches(i + 1) => taken(i + 1)
    BY <1>1, <2>1, <2>8
  <2> HIDE DEF touches, taken, said, before, at
  <2>11. ASSUME \A j \in 1..(i + 1) : ~touches(j)
         PROVE  at(i + 1) = before
    <3>1. at(i) = before  BY <2>6, <2>8, <2>11
    <3> QED  BY <2>4, <2>5, <2>9, <2>11, <3>1
  <2>12. ASSUME NEW j \in 1..(i + 1), touches(j), \A k \in (j + 1)..(i + 1) : ~touches(k)
         PROVE  at(i + 1) = (IF taken(j) THEN {} ELSE before) \cup said(j)
    <3>1. CASE j = i + 1
      <4>1. CASE taken(i + 1)  BY <2>4, <3>1, <4>1
      <4>2. CASE ~taken(i + 1)
        <5>1. \A k \in 1..i : ~touches(k)  BY <2>10, <2>12, <3>1, <4>2
        <5>2. at(i) = before  BY <2>6, <5>1
        <5> QED  BY <2>4, <3>1, <4>2, <5>2
      <4> QED  BY <4>1, <4>2
    <3>2. CASE j \in 1..i
      <4>1. \A k \in (j + 1)..i : k \in (j + 1)..(i + 1)  BY <2>1
      <4>2. i + 1 \in (j + 1)..(i + 1)  BY <2>1, <3>2
      <4>3. at(i) = (IF taken(j) THEN {} ELSE before) \cup said(j)
        BY <2>6, <2>12, <3>2, <4>1
      <4> QED  BY <2>4, <2>5, <2>12, <4>2, <4>3
    <3> QED  BY <2>7, <3>1, <3>2
  <2> QED  BY <2>1, <2>4, <2>11, <2>12
<1>5. \A i \in 0..n : i \in A
  <2> HIDE DEF A
  <2> QED  BY <1>1, <1>3, <1>4, AllSteps
<1>6. n \in 0..n /\ n \in A  BY <1>1, <1>5
<1>7. /\ (\A j \in 1..n : ~touches(j)) => at(n) = before
      /\ \A j \in 1..n : touches(j) /\ (\A k \in (j + 1)..n : ~touches(k))
            => at(n) = (IF taken(j) THEN {} ELSE before) \cup said(j)
  BY <1>6
<1> HIDE DEF A
<1>8. CASE \A j \in 1..n : ~touches(j)  BY <1>1, <1>2, <1>7, <1>8 DEF Untold
<1>9. CASE \E j \in 1..n : touches(j)
  <2> DEFINE T == {j \in 1..n : touches(j)}
  <2>1. IsFiniteSet(T)
    <3>1. IsFiniteSet(1..n)  BY <1>1, FS_Interval
    <3> QED  BY <3>1, FS_Subset
  <2>2. T # {} /\ T \subseteq Nat  BY <1>9
  <2>3. PICK j \in T : \A y \in T : j >= y
    <3> HIDE DEF T
    <3> QED  BY <2>1, <2>2, LatestExists
  <2>4. j \in 1..n /\ touches(j)  BY <2>3
  <2>5. \A k \in 1..n : j < k => ~touches(k)  BY <1>1, <2>3
  <2>6. \A k \in (j + 1)..n : k \in 1..n /\ j < k  BY <1>1, <2>4
  <2>7. LastOf(diffs, id, j)  BY <1>1, <2>4, <2>5 DEF LastOf
  <2>8. said(j) = entries /\ (taken(j) \/ before \subseteq entries)  BY <1>1, <2>4, <2>7
  <2>9. at(n) = (IF taken(j) THEN {} ELSE before) \cup said(j)
    BY <1>7, <2>4, <2>5, <2>6
  <2> QED  BY <1>2, <2>8, <2>9
<1> QED  BY <1>8, <1>9

-----------------------------------------------------------------------------
(* The inductive invariant *)

\* The diffs that are on their way to the book, to a socket's browser, anywhere.
Unreceived == ToSet(stream) \cup ToSet(outbox)
Coming(c) == ToSet(client[c].rx) \cup ToSet(inserted)
InFlight == Unreceived \cup ToSet(inserted) \cup UNION {ToSet(client[c].rx) : c \in Clients}

\* What the table says of an order.
TableOf(id) == IF id \in Listed(live_orders)
               THEN {[side |-> live_orders[id].order.side, order |-> LiveOrder(live_orders, id)]}
               ELSE {}

Rises(diffs) == \A i, j \in DOMAIN diffs : i < j => diffs[i].slot < diffs[j].slot
NoneOf(diffs, id) == \A d \in diffs : id \notin Touched(d)
\* The latest of the diffs that touches the order.
Latest(diffs, id, d) ==
  /\ d \in diffs /\ id \in Touched(d)
  /\ \A e \in diffs : id \in Touched(e) => e.slot <= d.slot

Rows == [order : [side : Sides, price : Nat], remaining_quantity : Nat, status : OrderStatus]
SocketSteps == {"away", "opened", "create", "listening", "gone"}
SocketRecords == [step : SocketSteps, channel : Nat, rx : Seq(Diffs), lagged : BOOLEAN,
                  repeats : Nat, view : States]

\* The rows are those of the orders placed so far.
TableInv ==
  /\ market \in {"none", "active", "settled"} /\ commits \in Nat
  /\ live_orders \in [DOMAIN live_orders -> Rows]
  /\ Cardinality(DOMAIN live_orders) \in 0..Len(Menu)
  /\ DOMAIN live_orders = 1..Cardinality(DOMAIN live_orders)
  /\ \A id \in DOMAIN live_orders :
       live_orders[id].order = [side |-> Menu[id].side, price |-> Menu[id].price]

\* Books and diffs are about orders that were placed, at their side and price.
KnownBook(book) ==
  /\ book \in States /\ book.slot <= commits /\ Home(Entries(book)) /\ InPriceOrder(book)
  /\ \A e \in Entries(book) : e.order.order_id \in DOMAIN live_orders
KnownDiff(diff) ==
  /\ diff \in Diffs /\ diff.slot \in 1..commits /\ HomeDiff(diff)
  /\ Touched(diff) \subseteq DOMAIN live_orders

\* The first a diff says of an order is that it is there.
DiffInv ==
  /\ \A d \in InFlight : KnownDiff(d)
  /\ \A d, e \in InFlight :
       /\ d.slot = e.slot => d = e
       /\ \A id \in Touched(d) \cap Touched(e) : ~Takes(d, id) => d.slot <= e.slot

\* A book that has an order before the diff that says it is there has it as the
\* diff says.
Fresh(book) ==
  \A d \in Unreceived \cup ToSet(inserted) : \A id \in Touched(d) :
    ~Takes(d, id) => EntriesOf(book, id) \subseteq AddedOf(d, id)

ServerTypes ==
  /\ backend \in {"boot", "serving"} /\ receiver \in {"connecting", "listening"}
  /\ outbox \in Seq(Diffs) /\ Len(outbox) <= 1 /\ stream \in Seq(Diffs)
  /\ inserted \in Seq(Diffs) /\ Len(inserted) <= 1
  /\ ob_channel \in Nat /\ upto \in 0..commits /\ lost \subseteq OrderIds
  /\ receiver = "connecting" => stream = << >>
  /\ backend = "boot" => receiver = "connecting" /\ inserted = << >> /\ orderbook = NoBook

\* What has reached the book is older than what has not.
OrderInv ==
  /\ Rises(stream) /\ \A d \in ToSet(stream), e \in ToSet(outbox) : d.slot < e.slot
  /\ \A d \in Unreceived : orderbook.slot < d.slot
  /\ \A d \in ToSet(inserted) : d.slot = orderbook.slot

\* The diff that is not yet published tells what the table says, the one that is
\* not yet sent on what the book says.
Tells ==
  /\ \A d \in ToSet(outbox) : \A id \in Touched(d) : AddedOf(d, id) = TableOf(id)
  /\ \A d \in ToSet(inserted) : \A id \in Touched(d) : EntriesOf(orderbook, id) = AddedOf(d, id)

\* A diff that was in the snapshot is the first the book will get.  It changes
\* nothing of what the book says of an order, but can put one in a second time.
InSnapshot ==
  \A d \in Unreceived : d.slot <= upto =>
    /\ \A e \in Unreceived : d.slot <= e.slot
    /\ \A id \in Touched(d) : EntriesOf(orderbook, id) = AddedOf(d, id)

MemoryInv ==
  Serving => \A id \in OrderIds \ lost :
    /\ NoneOf(Unreceived, id) => EntriesOf(orderbook, id) = TableOf(id)
    /\ \A d \in Unreceived : Latest(Unreceived, id, d) => AddedOf(d, id) = TableOf(id)

BookInv == KnownBook(orderbook) /\ Fresh(orderbook) /\ OrderInv /\ Tells

\* A socket that has no channel has nothing of one.
SocketTypes(c) ==
  LET socket == client[c]
  IN /\ socket \in SocketRecords /\ Len(socket.rx) <= Cap /\ socket.repeats <= Cap
     /\ unseen[c] \subseteq OrderIds
     /\ socket.step # "listening" => /\ socket.channel = 0 /\ socket.rx = << >>
                                     /\ ~socket.lagged /\ socket.repeats = 0
     /\ socket.step \in {"away", "gone"} => socket.view = NoBook
     /\ backend = "boot" => socket.step \in {"away", "gone"}

\* What a socket still gets is no newer than the book.
SocketOrder(c) ==
  LET socket == client[c]
  IN /\ Rises(socket.rx) /\ \A d \in ToSet(socket.rx) : d.slot <= orderbook.slot
     /\ \A d \in ToSet(socket.rx), e \in ToSet(inserted) : d.slot < e.slot
     /\ socket.step \in {"opened", "create"} =>
          /\ socket.view.slot <= orderbook.slot
          /\ socket.view.slot = orderbook.slot => socket.view = orderbook

\* A socket that is subscribed or will be.
Joined(c) == Subscribed(c) \/ client[c].step \in {"opened", "create"}

\* The last diff it gets of an order tells what the book says.
CatchesUp(c) ==
  Joined(c) => \A id \in OrderIds : \A d \in Coming(c) :
    Latest(Coming(c), id, d) => AddedOf(d, id) = EntriesOf(orderbook, id)

\* The browser has what the book says of the orders that no diff is coming of.
Shows(c) ==
  Joined(c) /\ ~client[c].lagged => \A id \in OrderIds :
    /\ id \notin unseen[c] /\ NoneOf(Coming(c), id) =>
         EntriesOf(client[c].view, id) = EntriesOf(orderbook, id)
    /\ \A d \in Coming(c) : Latest(Coming(c), id, d) /\ ~Takes(d, id) =>
         EntriesOf(client[c].view, id) \subseteq AddedOf(d, id)

SocketInv(c) == /\ SocketTypes(c) /\ KnownBook(client[c].view) /\ Fresh(client[c].view)
                /\ SocketOrder(c) /\ CatchesUp(c) /\ Shows(c)
SocketsInv ==
  /\ client = [c \in Clients |-> client[c]] /\ unseen = [c \in Clients |-> unseen[c]]
  /\ \A c \in Clients : SocketInv(c)

FeedInv == /\ TableInv /\ DiffInv /\ ServerTypes /\ BookInv /\ InSnapshot /\ MemoryInv
           /\ SocketsInv

-----------------------------------------------------------------------------
(* Queues of diffs *)

LEMMA QueueOf ==
  ASSUME NEW D, NEW s \in Seq(D)
  PROVE  /\ ToSet(s) \subseteq D
         /\ s = << >> <=> ToSet(s) = {}
<1>1. DOMAIN s = 1..Len(s) /\ \A i \in 1..Len(s) : s[i] \in D  BY LenProperties
<1> QED  BY <1>1, EmptyIs DEF ToSet

LEMMA QueueTail ==
  ASSUME NEW D, NEW s \in Seq(D), s # << >>
  PROVE  /\ Head(s) \in D /\ Tail(s) \in Seq(D) /\ Len(Tail(s)) = Len(s) - 1
         /\ Head(s) \in ToSet(s) /\ ToSet(s) = {Head(s)} \cup ToSet(Tail(s))
         /\ Rises(s) => /\ Rises(Tail(s))
                        /\ \A d \in ToSet(Tail(s)) : Head(s).slot < d.slot
<1> DEFINE n == Len(s)
           t == Tail(s)
<1>1. n \in Nat /\ DOMAIN s = 1..n /\ \A i \in 1..n : s[i] \in D  BY LenProperties
<1>2. n # 0  BY EmptySeq
<1>3. /\ Head(s) = s[1] /\ t \in Seq(D) /\ Len(t) = n - 1
      /\ \A i \in 1..(n - 1) : t[i] = s[i + 1]
  BY HeadTailProperties
<1>4. DOMAIN t = 1..(n - 1)  BY <1>3, LenProperties
<1> HIDE DEF n, t
<1>5. 1 \in 1..n  BY <1>1, <1>2
<1>6. \A i \in 1..(n - 1) : i + 1 \in 1..n /\ 1 < i + 1  BY <1>1
<1>7. \A i \in 1..n : i = 1 \/ (i - 1 \in 1..(n - 1) /\ (i - 1) + 1 = i)  BY <1>1
<1>8. \A d : d \in ToSet(t) <=> \E i \in 1..(n - 1) : d = s[i + 1]
  BY <1>3, <1>4 DEF ToSet
<1>9. \A d : d \in ToSet(s) <=> \E i \in 1..n : d = s[i]
  BY <1>1 DEF ToSet
<1>10. \A d : d \in ToSet(s) <=> d = s[1] \/ d \in ToSet(t)
  BY <1>5, <1>6, <1>7, <1>8, <1>9
<1>11. ASSUME Rises(s)
       PROVE  Rises(t) /\ \A d \in ToSet(t) : s[1].slot < d.slot
  <2>1. \A i, j \in 1..n : i < j => s[i].slot < s[j].slot  BY <1>1, <1>11 DEF Rises
  <2>2. \A i, j \in 1..(n - 1) : i < j => i + 1 < j + 1  BY <1>1
  <2>3. \A i, j \in 1..(n - 1) : i < j => t[i].slot < t[j].slot
    BY <1>3, <1>6, <2>1, <2>2
  <2> QED  BY <1>4, <1>5, <1>6, <1>8, <2>1, <2>3 DEF Rises
<1> QED  BY <1>1, <1>3, <1>5, <1>10, <1>11 DEF n, t

LEMMA QueueAppend ==
  ASSUME NEW D, NEW s \in Seq(D), NEW d \in D
  PROVE  /\ Append(s, d) \in Seq(D) /\ Len(Append(s, d)) = Len(s) + 1
         /\ Append(s, d) # << >> /\ ToSet(Append(s, d)) = ToSet(s) \cup {d}
         /\ Rises(s) /\ (\A e \in ToSet(s) : e.slot < d.slot) => Rises(Append(s, d))
<1> DEFINE n == Len(s)
           t == Append(s, d)
<1>1. n \in Nat /\ DOMAIN s = 1..n  BY LenProperties
<1>2. /\ t \in Seq(D) /\ Len(t) = n + 1 /\ DOMAIN t = 1..(n + 1)
      /\ \A i \in 1..n : t[i] = s[i]
      /\ t[n + 1] = d
  BY AppendProperties, LenProperties
<1> HIDE DEF n, t
<1>3. \A i \in 1..(n + 1) : i \in 1..n \/ i = n + 1  BY <1>1
<1>4. n + 1 \in 1..(n + 1) /\ \A i \in 1..n : i \in 1..(n + 1) /\ i < n + 1  BY <1>1
<1>5. \A e : e \in ToSet(t) <=> \E i \in 1..(n + 1) : e = t[i]  BY <1>2 DEF ToSet
<1>6. \A e : e \in ToSet(s) <=> \E i \in 1..n : e = s[i]  BY <1>1 DEF ToSet
<1>7. \A e : e \in ToSet(t) <=> e \in ToSet(s) \/ e = d  BY <1>2, <1>3, <1>4, <1>5, <1>6
<1>8. ASSUME Rises(s), \A e \in ToSet(s) : e.slot < d.slot
      PROVE  Rises(t)
  <2>1. \A i, j \in 1..n : i < j => s[i].slot < s[j].slot  BY <1>1, <1>8 DEF Rises
  <2>2. \A i \in 1..n : s[i].slot < d.slot  BY <1>6, <1>8
  <2>3. \A i \in 1..(n + 1) : n + 1 < i => FALSE  BY <1>1
  <2>4. \A i \in 1..n : ~(n + 1 < i)  BY <1>1
  <2>5. \A i, j \in 1..(n + 1) : i < j => t[i].slot < t[j].slot
    BY <1>2, <1>3, <2>1, <2>2, <2>3, <2>4
  <2> QED  BY <1>2, <2>5 DEF Rises
<1>9. t # << >>  BY <1>2, <1>1, EmptySeq
<1> QED  BY <1>2, <1>7, <1>8, <1>9 DEF n, t

\* The queues that hold one diff at most.
LEMMA QueueOne ==
  ASSUME NEW D, NEW s \in Seq(D), Len(s) <= 1, s # << >>
  PROVE  Head(s) \in D /\ ToSet(s) = {Head(s)} /\ Tail(s) = << >>
<1>1. /\ Head(s) \in D /\ Tail(s) \in Seq(D) /\ Len(Tail(s)) = Len(s) - 1
      /\ ToSet(s) = {Head(s)} \cup ToSet(Tail(s))
  BY QueueTail
<1>2. Len(s) \in Nat /\ Len(Tail(s)) \in Nat  BY <1>1, LenProperties
<1>3. Len(Tail(s)) = 0  BY <1>1, <1>2
<1>4. Tail(s) = << >>  BY <1>1, <1>3, EmptySeq
<1>5. ToSet(Tail(s)) = {}  BY <1>1, <1>4, QueueOf
<1> QED  BY <1>1, <1>4, <1>5

LEMMA QueueSingle ==
  ASSUME NEW D, NEW d \in D
  PROVE  /\ <<d>> \in Seq(D) /\ Len(<<d>>) = 1 /\ ToSet(<<d>>) = {d} /\ Head(<<d>>) = d
         /\ <<d>> # << >>
<1>1. <<d>> \in Seq(D) /\ Len(<<d>>) = 1 /\ DOMAIN <<d>> = 1..1 /\ <<d>>[1] = d  OBVIOUS
<1>2. 1..1 = {1}  OBVIOUS
<1> QED  BY <1>1, <1>2 DEF ToSet

LEMMA QueueNone == ToSet(<< >>) = {} /\ Rises(<< >>) /\ Len(<< >>) = 0
<1>1. DOMAIN << >> = {} /\ Len(<< >>) = 0  OBVIOUS
<1> QED  BY <1>1 DEF ToSet, Rises

-----------------------------------------------------------------------------
(* Initially *)

LEMMA FeedInit ==
  Init => FeedInv
<1> SUFFICES ASSUME Init PROVE FeedInv
  OBVIOUS
<1> USE FeedAssumption
<1>1. /\ NoBook \in States /\ NoBook.slot = 0 /\ InPriceOrder(NoBook) /\ Entries(NoBook) = {}
  BY NewStateProperties DEF NoBook, States
<1>2. /\ outbox = << >> /\ stream = << >> /\ inserted = << >> /\ lost = {} /\ orderbook = NoBook
      /\ \A c \in Clients : client[c] = NewSocket /\ unseen[c] = {}
      /\ commits = 0 /\ live_orders = << >>
  BY DEF Init, EmptyTable
<1>3. ToSet(outbox) = {} /\ ToSet(stream) = {} /\ ToSet(inserted) = {}
      /\ \A c \in Clients : ToSet(client[c].rx) = {}
  BY <1>2, QueueNone DEF NewSocket
<1>4. Unreceived = {} /\ InFlight = {}  BY <1>3 DEF Unreceived, InFlight
<1>5. DOMAIN live_orders = {} /\ Listed(live_orders) = {}
  BY <1>2 DEF Listed
<1>6. TableInv
  <2>1. Cardinality({}) = 0  BY FS_EmptySet
  <2>2. 1..0 = {}  OBVIOUS
  <2>3. live_orders \in [DOMAIN live_orders -> Rows]  BY <1>2
  <2>4. Len(Menu) \in Nat  BY LenProperties DEF FeedAssumption
  <2> QED  BY <1>2, <1>5, <2>1, <2>2, <2>3, <2>4 DEF TableInv, Init
<1>7. DiffInv  BY <1>4 DEF DiffInv
<1>8. ServerTypes
  <2>1. << >> \in Seq(Diffs) /\ Len(<< >>) = 0  OBVIOUS
  <2> QED  BY <1>2, <2>1 DEF ServerTypes, Init
<1>9. KnownBook(NoBook) /\ Fresh(NoBook)
  BY <1>1, <1>2, <1>3, <1>4 DEF KnownBook, Fresh, Home
<1>10. BookInv
  BY <1>2, <1>3, <1>4, <1>9, QueueNone DEF BookInv, OrderInv, Tells
<1>11. InSnapshot  BY <1>4 DEF InSnapshot
<1>12. MemoryInv  BY DEF Init, MemoryInv, Serving
<1>13. ASSUME NEW c \in Clients PROVE SocketInv(c)
  <2>1. /\ client[c].step = "away" /\ client[c].channel = 0 /\ client[c].rx = << >>
        /\ client[c].lagged = FALSE /\ client[c].repeats = 0 /\ client[c].view = NoBook
        /\ unseen[c] = {}
    BY <1>2 DEF NewSocket
  <2>2. client[c] \in SocketRecords
    <3>1. << >> \in Seq(Diffs)  OBVIOUS
    <3>2. client[c] = [step |-> "away", channel |-> 0, rx |-> << >>, lagged |-> FALSE,
                       repeats |-> 0, view |-> NoBook]
      BY <1>2 DEF NewSocket
    <3> QED  BY <1>1, <3>1, <3>2 DEF SocketRecords, SocketSteps
  <2>3. SocketTypes(c)
    BY <2>1, <2>2, QueueNone DEF SocketTypes
  <2>4. SocketOrder(c)  BY <1>3, <2>1, QueueNone DEF SocketOrder
  <2>5. ~Joined(c)  BY <2>1 DEF Joined, Subscribed
  <2> QED  BY <1>9, <2>1, <2>3, <2>4, <2>5 DEF SocketInv, CatchesUp, Shows
<1>14. SocketsInv  BY <1>13 DEF SocketsInv, Init
<1> QED  BY <1>6, <1>7, <1>8, <1>10, <1>11, <1>12, <1>14 DEF FeedInv

-----------------------------------------------------------------------------
(* The indexer *)

\* An event is stored and its diff is to be published: what the other orders'
\* rows say stays, unless their last diff is counted as missed.
Stored(diff) ==
  /\ outbox = << >> /\ outbox' = <<diff>> /\ commits' = commits + 1
  /\ DOMAIN live_orders \subseteq DOMAIN live_orders'
  /\ UNCHANGED <<backend, receiver, stream, inserted, orderbook, ob_channel, upto, twice, sockets>>
  /\ lost \subseteq lost' /\ lost' \subseteq OrderIds
  /\ KnownDiff(diff)' /\ diff.slot = commits + 1
  /\ \A id \in Touched(diff) : AddedOf(diff, id) = TableOf(id)'
  /\ \A id \in Touched(diff) : ~Takes(diff, id) => id \notin DOMAIN live_orders
  /\ Serving => \A id \in OrderIds \ lost' : id \notin Touched(diff) => TableOf(id)' = TableOf(id)

LEMMA StoreKeeps ==
  ASSUME FeedInv, TableInv', NEW diff, Stored(diff)
  PROVE  FeedInv'
<1> USE DEF Stored
<1>1. TableInv /\ DiffInv /\ ServerTypes /\ BookInv /\ InSnapshot /\ MemoryInv /\ SocketsInv
  BY DEF FeedInv
<1>2. diff \in Diffs  BY DEF KnownDiff
<1>3. ToSet(outbox) = {} /\ ToSet(outbox') = {diff}  BY <1>2, QueueSingle, QueueNone
<1>4. /\ Unreceived' = Unreceived \cup {diff} /\ InFlight' = InFlight \cup {diff}
      /\ Unreceived = ToSet(stream)
      /\ Unreceived \subseteq InFlight /\ ToSet(inserted) \subseteq InFlight
  BY <1>3 DEF Unreceived, InFlight, sockets
<1>5. commits \in Nat  BY <1>1 DEF TableInv
<1>6. \A d \in InFlight : /\ KnownDiff(d) /\ d.slot \in Int /\ d.slot < diff.slot
                         /\ Touched(d) \subseteq DOMAIN live_orders
  BY <1>1, <1>5 DEF DiffInv, KnownDiff
<1>7. \A d \in InFlight : KnownDiff(d)'  BY <1>5, <1>6 DEF KnownDiff
<1>8. ASSUME NEW book, KnownBook(book)
      PROVE  KnownBook(book)' /\ (Fresh(book) => Fresh(book)')
  <2>1. KnownBook(book)'  BY <1>5, <1>8 DEF KnownBook, States, StatesOf
  <2>2. \A id : id \notin DOMAIN live_orders => EntriesOf(book, id) = {}
    BY <1>8 DEF KnownBook, EntriesOf
  <2>3. ASSUME Fresh(book) PROVE Fresh(book)'
    <3> SUFFICES ASSUME NEW d \in (Unreceived \cup ToSet(inserted))', NEW id \in Touched(d),
                        ~Takes(d, id)
                 PROVE  EntriesOf(book, id) \subseteq AddedOf(d, id)
      BY DEF Fresh
    <3>1. CASE d = diff  BY <2>2, <3>1
    <3>2. CASE d \in Unreceived \cup ToSet(inserted)  BY <2>3, <3>2 DEF Fresh
    <3> QED  BY <1>4, <3>1, <3>2
  <2> QED  BY <2>1, <2>3
<1>9. DiffInv'
  <2>1. \A d \in InFlight' : KnownDiff(d)'  BY <1>4, <1>7
  <2>2. ASSUME NEW d \in InFlight', NEW e \in InFlight'
        PROVE  /\ d.slot = e.slot => d = e
               /\ \A id \in Touched(d) \cap Touched(e) : ~Takes(d, id) => d.slot <= e.slot
    <3>1. CASE d \in InFlight /\ e \in InFlight  BY <1>1, <3>1 DEF DiffInv
    <3>2. CASE d = diff /\ e \in InFlight  BY <1>5, <1>6, <3>2
    <3>3. CASE d \in InFlight /\ e = diff  BY <1>5, <1>6, <3>3
    <3>4. CASE d = diff /\ e = diff  BY <1>5, <3>4
    <3> QED  BY <1>4, <3>1, <3>2, <3>3, <3>4
  <2> QED  BY <2>1, <2>2 DEF DiffInv
<1>10. ServerTypes'
  <2>1. outbox' \in Seq(Diffs) /\ Len(outbox') <= 1  BY <1>2, QueueSingle
  <2> QED  BY <1>1, <1>5, <2>1 DEF ServerTypes
<1>11. BookInv'
  <2>1. KnownBook(orderbook)' /\ Fresh(orderbook)'  BY <1>1, <1>8 DEF BookInv
  <2>2. orderbook.slot < diff.slot
    BY <1>1, <1>5 DEF BookInv, KnownBook, States, StatesOf
  <2>3. OrderInv'
    BY <1>1, <1>3, <1>4, <1>6, <2>2 DEF BookInv, OrderInv
  <2>4. Tells'  BY <1>1, <1>3 DEF BookInv, Tells
  <2> QED  BY <2>1, <2>3, <2>4 DEF BookInv
<1>12. InSnapshot'
  <2>1. upto \in 0..commits  BY <1>1 DEF ServerTypes
  <2> SUFFICES ASSUME NEW d \in Unreceived', d.slot <= upto
               PROVE  /\ \A e \in Unreceived' : d.slot <= e.slot
                      /\ \A id \in Touched(d) : EntriesOf(orderbook, id) = AddedOf(d, id)
    BY DEF InSnapshot
  <2>2. d \in Unreceived  BY <1>4, <1>5, <2>1
  <2>3. \A e \in Unreceived : d.slot <= e.slot  BY <1>1, <2>2 DEF InSnapshot
  <2>4. d.slot <= diff.slot  BY <1>4, <1>5, <1>6, <2>2
  <2> QED  BY <1>1, <1>4, <2>2, <2>3, <2>4 DEF InSnapshot
<1>13. MemoryInv'
  <2> SUFFICES ASSUME Serving, NEW id \in OrderIds \ lost'
               PROVE  /\ NoneOf(Unreceived', id) => EntriesOf(orderbook, id) = TableOf(id)'
                      /\ \A d \in Unreceived' : Latest(Unreceived', id, d)
                           => AddedOf(d, id) = TableOf(id)'
    BY DEF MemoryInv, Serving
  <2>1. CASE id \in Touched(diff)
    <3>1. ~NoneOf(Unreceived', id)  BY <1>4, <2>1 DEF NoneOf
    <3>2. \A d \in Unreceived' : Latest(Unreceived', id, d) => d = diff
      BY <1>4, <1>5, <1>6, <2>1 DEF Latest
    <3> QED  BY <2>1, <3>1, <3>2
  <2>2. CASE id \notin Touched(diff)
    <3>1. TableOf(id)' = TableOf(id)  BY <2>2
    <3>2. NoneOf(Unreceived', id) => NoneOf(Unreceived, id)  BY <1>4 DEF NoneOf
    <3>3. \A d \in Unreceived' : Latest(Unreceived', id, d) => Latest(Unreceived, id, d)
      BY <1>4, <2>2 DEF Latest
    <3>4. \A d : Latest(Unreceived, id, d) => d \in Unreceived  BY DEF Latest
    <3> QED  BY <1>1, <3>1, <3>2, <3>3, <3>4 DEF MemoryInv
  <2> QED  BY <2>1, <2>2
<1>14. SocketsInv'
  <2> SUFFICES ASSUME NEW c \in Clients PROVE SocketInv(c)'
    BY <1>1 DEF SocketsInv, sockets
  <2>1. SocketInv(c)  BY <1>1 DEF SocketsInv
  <2>2. KnownBook(client[c].view)' /\ Fresh(client[c].view)'
    <3>1. KnownBook(client[c].view) /\ Fresh(client[c].view)  BY <2>1 DEF SocketInv
    <3> DEFINE b == client[c].view
    <3>3. b' = b  BY DEF sockets
    <3>4. KnownBook(b) /\ Fresh(b)  BY <3>1
    <3> QED  BY <1>8, <3>3, <3>4 DEF sockets
  <2>3. SocketTypes(c)' /\ SocketOrder(c)' /\ CatchesUp(c)' /\ Shows(c)'
    BY <2>1 DEF SocketInv, SocketTypes, SocketOrder, CatchesUp, Shows, Joined, Subscribed, Coming,
                sockets
  <2> QED  BY <2>2, <2>3 DEF SocketInv
<1> QED  BY <1>9, <1>10, <1>11, <1>12, <1>13, <1>14 DEF FeedInv

\* A diff that has more than another on one side.
Extends(next, diff, side, S, R) ==
  \A t \in Sides :
    /\ \A o : o \in ToSet(next.added[t]) <=> o \in ToSet(diff.added[t]) \/ (t = side /\ o \in S)
    /\ \A id : id \in next.removed[t] <=> id \in diff.removed[t] \/ (t = side /\ id \in R)

LEMMA DiffWith ==
  ASSUME NEW diff, NEW next, NEW side \in Sides, NEW S, NEW R, Extends(next, diff, side, S, R)
  PROVE  /\ \A e : e \in AddedBy(next) <=> \/ e \in AddedBy(diff)
                                             \/ \E o \in S : e = [side |-> side, order |-> o]
         /\ \A id : Takes(next, id) <=> Takes(diff, id) \/ id \in R
         /\ \A id : id \in Touched(next)
                      <=> id \in Touched(diff) \/ id \in R \/ \E o \in S : o.order_id = id
<1>1. ASSUME NEW e
      PROVE  e \in AddedBy(next) <=> \/ e \in AddedBy(diff)
                                     \/ \E o \in S : e = [side |-> side, order |-> o]
  <2>1. e \in AddedBy(next)
          <=> \E t \in Sides : \E o \in ToSet(next.added[t]) : e = [side |-> t, order |-> o]
      BY AddedAre
  <2>2. e \in AddedBy(diff)
            <=> \E t \in Sides : \E o \in ToSet(diff.added[t]) : e = [side |-> t, order |-> o]
      BY AddedAre
  <2> QED  BY <2>1, <2>2 DEF Extends
<1>2. \A id : Takes(next, id) <=> Takes(diff, id) \/ id \in R  BY DEF Takes, Extends
<1>3. ASSUME NEW id
      PROVE  id \in Touched(next)
               <=> id \in Touched(diff) \/ id \in R \/ \E o \in S : o.order_id = id
  <2>1. id \in Touched(next) <=> \E t \in Sides : \/ \E o \in ToSet(next.added[t]) : o.order_id = id
                                                \/ id \in next.removed[t]
    BY DEF Touched, Ids, ToSet
  <2>2. id \in Touched(diff) <=> \E t \in Sides : \/ \E o \in ToSet(diff.added[t]) : o.order_id = id
                                                \/ id \in diff.removed[t]
    BY DEF Touched, Ids, ToSet
  <2> QED  BY <2>1, <2>2 DEF Extends
<1> QED  BY <1>1, <1>2, <1>3

LEMMA EmptyDiff ==
  ASSUME NEW slot \in Nat
  PROVE  /\ NewDiff(slot) \in Diffs /\ NewDiff(slot).slot = slot /\ HomeDiff(NewDiff(slot))
         /\ AddedBy(NewDiff(slot)) = {} /\ Touched(NewDiff(slot)) = {}
         /\ \A id : ~Takes(NewDiff(slot), id)
         /\ \A side \in Sides : /\ NewDiff(slot).added[side] = << >>
                                /\ NewDiff(slot).removed[side] = {}
<1>1. << >> \in Seq(Orders) /\ DOMAIN << >> = {} /\ Len(<< >>) = 0  OBVIOUS
<1>2. /\ NewDiff(slot).slot = slot
      /\ NewDiff(slot).added = [side \in Sides |-> << >>]
      /\ NewDiff(slot).removed = [side \in Sides |-> {}]
  BY DEF NewDiff
<1>3. NewDiff(slot) \in Diffs  BY <1>1 DEF NewDiff, Diffs, DiffsOf
<1>4. AddedBy(NewDiff(slot)) = {}  BY <1>1, <1>2 DEF AddedBy
<1>5. Touched(NewDiff(slot)) = {}  BY <1>1, <1>2 DEF Touched, Ids
<1>6. HomeDiff(NewDiff(slot))  BY <1>1, <1>2, <1>4 DEF HomeDiff, Home
<1> QED  BY <1>2, <1>3, <1>4, <1>5, <1>6 DEF Takes

\* A diff that gets an order which its side does not have yet, and one that gets
\* an order to take out.
With(diff, side, o) == [slot |-> diff.slot, added |-> [diff.added EXCEPT ![side] = <<o>>],
                        removed |-> diff.removed]
Taking(diff, side, id) == [slot |-> diff.slot, added |-> diff.added,
                           removed |-> [diff.removed EXCEPT ![side] = @ \cup {id}]]

LEMMA DiffAdding ==
  ASSUME NEW diff \in Diffs, NEW side \in Sides, NEW o \in Orders, diff.added[side] = << >>,
         NEW next, next = With(diff, side, o)
  PROVE  /\ next \in Diffs /\ next.slot = diff.slot
         /\ AddedBy(next) = AddedBy(diff) \cup {[side |-> side, order |-> o]}
         /\ \A id : Takes(next, id) <=> Takes(diff, id)
         /\ Touched(next) = Touched(diff) \cup {o.order_id}
         /\ \A t \in Sides : Len(next.added[t]) = IF t = side THEN 1 ELSE Len(diff.added[t])
<1>1. <<o>> \in Seq(Orders) /\ ToSet(<<o>>) = {o} /\ Len(<<o>>) = 1  BY QueueSingle
<1>2. /\ next.slot = diff.slot /\ next.removed = diff.removed
      /\ next.added = [diff.added EXCEPT ![side] = <<o>>]
      /\ next = [slot |-> next.slot, added |-> next.added, removed |-> next.removed]
  BY DEF With
<1>3. diff.slot \in Nat /\ diff.added \in [Sides -> Seq(Orders)]
      /\ diff.removed \in [Sides -> SUBSET OrderIds]
  BY DEF Diffs, DiffsOf
<1>4. next.added \in [Sides -> Seq(Orders)]  BY <1>1, <1>2, <1>3
<1>5. next \in Diffs  BY <1>2, <1>3, <1>4 DEF Diffs, DiffsOf
<1>6. \A t \in Sides : next.added[t] = IF t = side THEN <<o>> ELSE diff.added[t]
  BY <1>2, <1>3
<1>7. ToSet(diff.added[side]) = {}  BY QueueNone
<1>8. \A t \in Sides : /\ ToSet(next.added[t])
                             = ToSet(diff.added[t]) \cup (IF t = side THEN {o} ELSE {})
                       /\ next.removed[t] = diff.removed[t] \cup (IF t = side THEN {} ELSE {})
  BY <1>1, <1>2, <1>6, <1>7
<1>9. /\ \A e : e \in AddedBy(next) <=> e \in AddedBy(diff) \/ e = [side |-> side, order |-> o]
      /\ \A i : Takes(next, i) <=> Takes(diff, i)
      /\ \A i : i \in Touched(next) <=> i \in Touched(diff) \/ i = o.order_id
  <2> DEFINE S == {o}
             R == {}
  <2>1. Extends(next, diff, side, S, R)  BY <1>8 DEF Extends
  <2> HIDE DEF S, R
  <2>2. /\ \A e : e \in AddedBy(next) <=> \/ e \in AddedBy(diff)
                                            \/ \E p \in S : e = [side |-> side, order |-> p]
        /\ \A i : Takes(next, i) <=> Takes(diff, i) \/ i \in R
        /\ \A i : i \in Touched(next)
                     <=> i \in Touched(diff) \/ i \in R \/ \E p \in S : p.order_id = i
    BY <2>1, DiffWith
  <2> QED  BY <2>2 DEF S, R
<1>10. \A t \in Sides : Len(next.added[t]) = IF t = side THEN 1 ELSE Len(diff.added[t])
  BY <1>1, <1>6
<1> QED  BY <1>2, <1>5, <1>9, <1>10

LEMMA DiffRemoving ==
  ASSUME NEW diff \in Diffs, NEW side \in Sides, NEW id \in OrderIds,
         NEW next, next = Taking(diff, side, id)
  PROVE  /\ next \in Diffs /\ next.slot = diff.slot /\ next.added = diff.added
         /\ AddedBy(next) = AddedBy(diff)
         /\ \A i : Takes(next, i) <=> Takes(diff, i) \/ i = id
         /\ Touched(next) = Touched(diff) \cup {id}
         /\ \A t \in Sides : next.removed[t]
                               = diff.removed[t] \cup (IF t = side THEN {id} ELSE {})
<1>1. diff.slot \in Nat /\ diff.added \in [Sides -> Seq(Orders)]
      /\ diff.removed \in [Sides -> SUBSET OrderIds]
  BY DEF Diffs, DiffsOf
<1>2. /\ next.slot = diff.slot /\ next.added = diff.added
      /\ next.removed = [diff.removed EXCEPT ![side] = @ \cup {id}]
      /\ next = [slot |-> next.slot, added |-> next.added, removed |-> next.removed]
  BY DEF Taking
<1>3. next.removed \in [Sides -> SUBSET OrderIds]  BY <1>1, <1>2
<1>4. next \in Diffs  BY <1>1, <1>2, <1>3 DEF Diffs, DiffsOf
<1>5. \A t \in Sides : next.removed[t] = diff.removed[t] \cup (IF t = side THEN {id} ELSE {})
  BY <1>1, <1>2
<1>6. \A t \in Sides : ToSet(next.added[t]) = ToSet(diff.added[t]) \cup (IF t = side THEN {} ELSE {})
  BY <1>2
<1>7. /\ \A e : e \in AddedBy(next) <=> e \in AddedBy(diff)
      /\ \A i : Takes(next, i) <=> Takes(diff, i) \/ i = id
      /\ \A i : i \in Touched(next) <=> i \in Touched(diff) \/ i = id
  <2> DEFINE S == {}
             R == {id}
  <2>1. Extends(next, diff, side, S, R)  BY <1>5, <1>6 DEF Extends
  <2> HIDE DEF S, R
  <2>2. /\ \A e : e \in AddedBy(next) <=> \/ e \in AddedBy(diff)
                                            \/ \E p \in S : e = [side |-> side, order |-> p]
        /\ \A i : Takes(next, i) <=> Takes(diff, i) \/ i \in R
        /\ \A i : i \in Touched(next)
                     <=> i \in Touched(diff) \/ i \in R \/ \E p \in S : p.order_id = i
    BY <2>1, DiffWith
  <2> QED  BY <2>2 DEF S, R
<1>8. /\ AddedBy(next) = AddedBy(diff) /\ \A i : Takes(next, i) <=> Takes(diff, i) \/ i = id
      /\ Touched(next) = Touched(diff) \cup {id}
  BY <1>7
<1> HIDE DEF Takes
<1> QED  BY <1>2, <1>4, <1>5, <1>8

LEMMA MenuOf ==
  ASSUME NEW id \in OrderIds
  PROVE  /\ Menu[id].side \in Sides /\ Menu[id].price \in Nat
         /\ Menu[id].quantity \in Nat \ {0}
<1> DEFINE M == [side : Sides, price : Nat \ {0}, quantity : Nat \ {0}]
<1>1. Menu \in Seq(M)  BY FeedAssumption DEF FeedAssumption
<1> HIDE DEF M
<1>2. Menu[id] \in M  BY <1>1, LenProperties DEF OrderIds
<1> QED  BY <1>2 DEF M

\* The rows of orders.
LEMMA RowsAre ==
  ASSUME TableInv
  PROVE  /\ DOMAIN live_orders \subseteq OrderIds
         /\ \A id \in DOMAIN live_orders :
              /\ live_orders[id] \in Rows
              /\ live_orders[id].order.side = Menu[id].side
              /\ live_orders[id].order.price = Menu[id].price
              /\ Menu[id].side \in Sides /\ Menu[id].price \in Nat
<1>1. Cardinality(DOMAIN live_orders) \in 0..Len(Menu)
      /\ DOMAIN live_orders = 1..Cardinality(DOMAIN live_orders) /\ Len(Menu) \in Nat
  BY FeedAssumption, LenProperties DEF TableInv, FeedAssumption
<1>2. DOMAIN live_orders \subseteq OrderIds  BY <1>1 DEF OrderIds
<1>3. ASSUME NEW id \in DOMAIN live_orders
      PROVE  /\ live_orders[id] \in Rows
             /\ live_orders[id].order.side = Menu[id].side
             /\ live_orders[id].order.price = Menu[id].price
             /\ Menu[id].side \in Sides /\ Menu[id].price \in Nat
  <2>1. live_orders[id] \in Rows
        /\ live_orders[id].order = [side |-> Menu[id].side, price |-> Menu[id].price]
    BY DEF TableInv
  <2>2. id \in OrderIds  BY <1>2
  <2>3. Menu[id].side \in Sides /\ Menu[id].price \in Nat  BY <2>2, MenuOf
  <2> QED  BY <2>3, <2>1
<1> QED  BY <1>2, <1>3

LEMMA TableOrders ==
  ASSUME NEW table, NEW id \in OrderIds, table[id] \in Rows
  PROVE  LiveOrder(table, id) \in Orders /\ LiveOrder(table, id).order_id = id
         /\ LiveOrder(table, id).price = table[id].order.price
BY DEF LiveOrder, Orders, Rows

\* What a row says of its order depends on the row alone.
LEMMA SameRow ==
  ASSUME NEW id, id \in DOMAIN live_orders <=> id \in DOMAIN live_orders',
         live_orders'[id] = live_orders[id]
  PROVE  TableOf(id)' = TableOf(id)
<1>1. LiveOrder(live_orders', id) = LiveOrder(live_orders, id)  BY DEF LiveOrder
<1>2. id \in Listed(live_orders') <=> id \in Listed(live_orders)  BY DEF Listed
<1> QED  BY <1>1, <1>2 DEF TableOf

\* What a diff adds of one order, when nothing else of it was there.
LEMMA AddedOne ==
  ASSUME NEW diff, NEW next, NEW e, AddedBy(next) = AddedBy(diff) \cup {e}
  PROVE  /\ AddedOf(diff, e.order.order_id) = {} => AddedOf(next, e.order.order_id) = {e}
         /\ \A id : id # e.order.order_id => AddedOf(next, id) = AddedOf(diff, id)
<1>1. \A id : AddedOf(next, id)
                = AddedOf(diff, id) \cup {f \in {e} : f.order.order_id = id}
  BY DEF AddedOf
<1> QED  BY <1>1

LEMMA ExceptAdded ==
  ASSUME NEW diff \in Diffs, NEW side \in Sides, NEW o
  PROVE  [diff EXCEPT !.added[side] = <<o>>] = With(diff, side, o)
<1>1. PICK slot, added, removed : diff = [slot |-> slot, added |-> added, removed |-> removed]
  BY DEF Diffs, DiffsOf
<1>2. diff.slot = slot /\ diff.added = added /\ diff.removed = removed  BY <1>1
<1>3. With(diff, side, o)
        = [slot |-> slot, added |-> [added EXCEPT ![side] = <<o>>], removed |-> removed]
  BY <1>2 DEF With
<1>4. [diff EXCEPT !.added[side] = <<o>>]
        = [slot |-> slot, added |-> [added EXCEPT ![side] = <<o>>], removed |-> removed]
  BY <1>1
<1> QED  BY <1>3, <1>4

LEMMA ExceptRemoved ==
  ASSUME NEW diff \in Diffs, NEW side \in Sides, NEW id
  PROVE  [diff EXCEPT !.removed[side] = @ \cup {id}] = Taking(diff, side, id)
<1>1. PICK slot, added, removed : diff = [slot |-> slot, added |-> added, removed |-> removed]
  BY DEF Diffs, DiffsOf
<1>2. diff.slot = slot /\ diff.added = added /\ diff.removed = removed  BY <1>1
<1>3. Taking(diff, side, id)
        = [slot |-> slot, added |-> added, removed |-> [removed EXCEPT ![side] = @ \cup {id}]]
  BY <1>2 DEF Taking
<1>4. [diff EXCEPT !.removed[side] = @ \cup {id}]
        = [slot |-> slot, added |-> added, removed |-> [removed EXCEPT ![side] = @ \cup {id}]]
  BY <1>1
<1> QED  BY <1>3, <1>4

LEMMA ExceptFirst ==
  ASSUME NEW diff \in Diffs, NEW side \in Sides, NEW id, diff.removed[side] = {}
  PROVE  [diff EXCEPT !.removed[side] = {id}] = Taking(diff, side, id)
<1>1. PICK slot, added, removed : diff = [slot |-> slot, added |-> added, removed |-> removed]
  BY DEF Diffs, DiffsOf
<1>2. diff.slot = slot /\ diff.added = added /\ diff.removed = removed  BY <1>1
<1>3. removed \in [Sides -> SUBSET OrderIds]  BY <1>2 DEF Diffs, DiffsOf
<1>4. Taking(diff, side, id)
        = [slot |-> slot, added |-> added, removed |-> [removed EXCEPT ![side] = @ \cup {id}]]
  BY <1>2 DEF Taking
<1>5. [diff EXCEPT !.removed[side] = {id}]
        = [slot |-> slot, added |-> added, removed |-> [removed EXCEPT ![side] = {id}]]
  <2>1. PICK S : S = {id}  OBVIOUS
  <2>2. [diff EXCEPT !.removed[side] = S]
          = [slot |-> slot, added |-> added, removed |-> [removed EXCEPT ![side] = S]]
    BY <1>1
  <2> QED  BY <2>1, <2>2
<1>6. [removed EXCEPT ![side] = {id}] = [removed EXCEPT ![side] = @ \cup {id}]
  <2>1. removed[side] \cup {id} = {id}  BY <1>2
  <2> QED  BY <1>3, <2>1
<1> QED  BY <1>4, <1>5, <1>6

\* What a diff is with a row that was read back.
Amended(diff, side, id, orders) ==
  [diff EXCEPT !.removed[side] = @ \cup {id}, !.added[side] = orders]

LEMMA ExceptBoth ==
  ASSUME NEW diff \in Diffs, NEW side, NEW id, NEW orders
  PROVE  Amended(diff, side, id, orders)
           = [slot |-> diff.slot, added |-> [diff.added EXCEPT ![side] = orders],
              removed |-> [diff.removed EXCEPT ![side] = @ \cup {id}]]
<1>1. PICK slot, added, removed : diff = [slot |-> slot, added |-> added, removed |-> removed]
  BY DEF Diffs, DiffsOf
<1>2. diff.slot = slot /\ diff.added = added /\ diff.removed = removed  BY <1>1
<1>3. PICK S, taken, both :
        /\ S = removed[side] \cup {id}
        /\ taken = [removed EXCEPT ![side] = S] /\ both = [added EXCEPT ![side] = orders]
  OBVIOUS
<1>4. [diff EXCEPT !.removed[side] = S, !.added[side] = orders]
        = [[diff EXCEPT !.removed[side] = S] EXCEPT !.added[side] = orders]
  BY <1>1
<1>5. PICK first : first = [slot |-> slot, added |-> added, removed |-> taken]
  OBVIOUS
<1>6. [diff EXCEPT !.removed[side] = S] = first
  <2>1. [diff EXCEPT !.removed[side] = S]
          = [slot |-> slot, added |-> added, removed |-> [removed EXCEPT ![side] = S]]
    BY <1>1
  <2> QED  BY <1>3, <1>5, <2>1
<1>7. [first EXCEPT !.added[side] = orders] = [slot |-> slot, added |-> both, removed |-> taken]
  <2>1. [first EXCEPT !.added[side] = orders]
          = [slot |-> slot, added |-> [added EXCEPT ![side] = orders], removed |-> taken]
    BY <1>5
  <2> QED  BY <1>3, <2>1
<1>8. [diff EXCEPT !.removed[side] = S, !.added[side] = orders]
        = [slot |-> slot, added |-> both, removed |-> taken]
  BY <1>4, <1>6, <1>7
<1> QED  BY <1>2, <1>3, <1>8 DEF Amended

LEMMA PlaceStores ==
  ASSUME FeedInv, PlaceOrder
  PROVE  TableInv' /\ \E diff : Stored(diff)
<1> DEFINE n == Cardinality(DOMAIN live_orders)
<1>1. TableInv /\ commits \in Nat  BY DEF FeedInv, TableInv
<1>2. n \in 0..Len(Menu) /\ DOMAIN live_orders = 1..n /\ Len(Menu) \in Nat
  BY <1>1, FeedAssumption, LenProperties DEF TableInv, FeedAssumption
<1>3. PICK id, side, price, quantity, o, base, diff :
        /\ id = n + 1 /\ side = Menu[id].side /\ price = Menu[id].price
        /\ quantity = Menu[id].quantity /\ o = LiveOrder(live_orders', id)
        /\ base = NewDiff(commits + 1) /\ diff = With(base, side, o)
  OBVIOUS
<1>4. /\ outbox = << >> /\ commits' = commits + 1 /\ id \in OrderIds /\ market' = market
      /\ live_orders' = Placed(live_orders, id, [side |-> side, price |-> price], quantity)
      /\ outbox' = <<[base EXCEPT !.added[side] = <<o>>]>>
      /\ UNCHANGED <<server, sockets>>
  BY <1>3 DEF PlaceOrder, Store, Commit, Idle
<1>5. side \in Sides /\ price \in Nat /\ quantity \in Nat
  BY <1>3, <1>4, MenuOf
<1>6. base \in Diffs /\ base.slot = commits + 1 /\ AddedBy(base) = {} /\ Touched(base) = {}
      /\ (\A i : ~Takes(base, i)) /\ base.added[side] = << >> /\ HomeDiff(base)
      /\ \A t \in Sides : base.removed[t] = {}
  BY <1>1, <1>3, <1>5, EmptyDiff
<1>7. outbox' = <<diff>>
  <2>1. [base EXCEPT !.added[side] = <<o>>] = With(base, side, o)
    BY <1>5, <1>6, ExceptAdded
  <2> QED  BY <1>3, <1>4, <2>1
<1> HIDE DEF n
<1>8. id \notin DOMAIN live_orders /\ id \in Nat /\ id \in 0..Len(Menu)
      /\ DOMAIN live_orders \cup {id} = 1..id
  BY <1>2, <1>3, <1>4 DEF OrderIds
<1>9. PICK row : row = [order |-> [side |-> side, price |-> price],
                        remaining_quantity |-> quantity, status |-> "open"]
  OBVIOUS
<1>10. live_orders' = [k \in DOMAIN live_orders \cup {id} |->
                         IF k \in DOMAIN live_orders THEN live_orders[k] ELSE row]
  BY <1>4, <1>9 DEF Placed, Inserted
<1>11. /\ DOMAIN live_orders' = DOMAIN live_orders \cup {id} /\ live_orders'[id] = row
       /\ \A k \in DOMAIN live_orders : live_orders'[k] = live_orders[k]
       /\ live_orders' = [k \in DOMAIN live_orders' |-> live_orders'[k]]
  BY <1>8, <1>10
<1>12. row \in Rows /\ row.order = [side |-> side, price |-> price] /\ row.status = "open"
       /\ row.order.side = side /\ row.order.price = price
  BY <1>5, <1>9 DEF Rows, OrderStatus
<1>13. o \in Orders /\ o.order_id = id /\ o.price = price
  BY <1>3, <1>4, <1>11, <1>12, TableOrders
<1>14. TableOf(id)' = {[side |-> side, order |-> o]}
  <2>1. id \in Listed(live_orders')  BY <1>11, <1>12 DEF Listed
  <2>2. live_orders'[id].order.side = side  BY <1>11, <1>12
  <2> QED  BY <1>3, <2>1, <2>2 DEF TableOf
<1>15. TableInv'
  <2>1. Cardinality(1..id) = id  BY <1>8, FS_Interval
  <2>2. DOMAIN live_orders' = 1..id  BY <1>8, <1>11
  <2>3. live_orders' \in [DOMAIN live_orders' -> Rows]
    <3>1. \A k \in DOMAIN live_orders : live_orders[k] \in Rows  BY <1>1 DEF TableInv
    <3>2. \A k \in DOMAIN live_orders' : live_orders'[k] \in Rows
      BY <1>11, <1>12, <3>1
    <3> QED  BY <1>11, <3>2
  <2>4. \A k \in DOMAIN live_orders' :
          live_orders'[k].order = [side |-> Menu[k].side, price |-> Menu[k].price]
    BY <1>1, <1>3, <1>11, <1>12 DEF TableInv
  <2> QED  BY <1>1, <1>4, <1>8, <2>1, <2>2, <2>3, <2>4 DEF TableInv
<1>16. /\ diff \in Diffs /\ diff.slot = commits + 1
       /\ AddedBy(diff) = AddedBy(base) \cup {[side |-> side, order |-> o]}
       /\ \A i : ~Takes(diff, i)
       /\ Touched(diff) = {id}
       /\ \A t \in Sides : Len(diff.added[t]) = IF t = side THEN 1 ELSE Len(base.added[t])
  <2>1. /\ diff \in Diffs /\ diff.slot = base.slot
        /\ AddedBy(diff) = AddedBy(base) \cup {[side |-> side, order |-> o]}
        /\ \A i : Takes(diff, i) <=> Takes(base, i)
        /\ Touched(diff) = Touched(base) \cup {o.order_id}
        /\ \A t \in Sides : Len(diff.added[t]) = IF t = side THEN 1 ELSE Len(base.added[t])
    BY <1>3, <1>5, <1>6, <1>13, DiffAdding
  <2> QED  BY <1>6, <1>13, <2>1
<1>17. AddedOf(diff, id) = TableOf(id)'
  <2>1. AddedOf(base, id) = {}  BY <1>6 DEF AddedOf
  <2>2. PICK e : e = [side |-> side, order |-> o]  OBVIOUS
  <2>3. AddedBy(diff) = AddedBy(base) \cup {e} /\ e.order.order_id = id
    BY <1>13, <1>16, <2>2
  <2>4. AddedOf(diff, id) = {e}  BY <2>1, <2>3, AddedOne
  <2> QED  BY <1>14, <2>2, <2>4
<1>18. HomeDiff(diff)
  <2>1. \A e \in AddedBy(diff) : e = [side |-> side, order |-> o]  BY <1>6, <1>16
  <2>2. Home(AddedBy(diff))  BY <1>3, <1>13, <2>1 DEF Home
  <2>3. \A t \in Sides : Len(diff.added[t]) <= 1  BY <1>6, <1>16 DEF HomeDiff
  <2> QED  BY <1>16, <2>2, <2>3 DEF HomeDiff, Takes
<1>19. KnownDiff(diff)'
  <2>1. diff.slot \in 1..(commits + 1)  BY <1>1, <1>16
  <2> QED  BY <1>4, <1>11, <1>16, <1>18, <2>1 DEF KnownDiff
<1>20. ASSUME NEW i \in OrderIds, i \notin Touched(diff)
       PROVE  TableOf(i)' = TableOf(i)
  <2>1. i # id  BY <1>16, <1>20
  <2>2. i \in DOMAIN live_orders <=> i \in DOMAIN live_orders'  BY <1>11, <2>1
  <2>3. CASE i \in DOMAIN live_orders  BY <1>11, <2>2, <2>3, SameRow
  <2>4. CASE i \notin DOMAIN live_orders
    <3>1. i \notin Listed(live_orders) /\ i \notin Listed(live_orders')
      BY <2>2, <2>4 DEF Listed
    <3> QED  BY <3>1 DEF TableOf
  <2> QED  BY <2>3, <2>4
<1>21. lost \subseteq OrderIds  BY DEF FeedInv, ServerTypes
<1>22. /\ DOMAIN live_orders \subseteq DOMAIN live_orders'
       /\ UNCHANGED <<backend, receiver, stream, inserted, orderbook, ob_channel, upto, twice,
                     sockets>>
       /\ lost \subseteq lost' /\ lost' \subseteq OrderIds
  BY <1>4, <1>11, <1>21 DEF server
<1>23. \A i \in Touched(diff) : /\ AddedOf(diff, i) = TableOf(i)'
                                /\ i \notin DOMAIN live_orders
  <2>1. \A i \in Touched(diff) : i = id  BY <1>16
  <2> QED  BY <1>8, <1>17, <2>1
<1> QED  BY <1>4, <1>7, <1>15, <1>16, <1>19, <1>20, <1>22, <1>23 DEF Stored

LEMMA CancelStores ==
  ASSUME FeedInv, NEW id \in Listed(live_orders), Cancel(id)
  PROVE  TableInv' /\ \E diff : Stored(diff)
<1>1. TableInv /\ commits \in Nat  BY DEF FeedInv, TableInv
<1>2. id \in DOMAIN live_orders  BY DEF Listed
<1>3. PICK side, base, diff :
        /\ side = live_orders[id].order.side /\ base = NewDiff(commits + 1)
        /\ diff = Taking(base, side, id)
  OBVIOUS
<1>4. /\ outbox = << >> /\ commits' = commits + 1 /\ market' = market
      /\ live_orders' = [live_orders EXCEPT ![id].status = "cancelled"]
      /\ outbox' = <<[base EXCEPT !.removed[side] = {id}]>>
      /\ UNCHANGED <<server, sockets>>
  BY <1>2, <1>3 DEF Cancel, Store, Commit, Idle, Cancelled
<1>5. /\ side \in Sides /\ side = Menu[id].side /\ id \in OrderIds
  BY <1>1, <1>2, <1>3, RowsAre
<1>6. base \in Diffs /\ base.slot = commits + 1 /\ AddedBy(base) = {} /\ Touched(base) = {}
      /\ (\A i : ~Takes(base, i)) /\ (\A t \in Sides : base.removed[t] = {}) /\ HomeDiff(base)
  BY <1>1, <1>3, EmptyDiff
<1>7. outbox' = <<diff>>
  <2>1. [base EXCEPT !.removed[side] = {id}] = Taking(base, side, id)
    BY <1>5, <1>6, ExceptFirst
  <2> QED  BY <1>3, <1>4, <2>1
<1>8. /\ DOMAIN live_orders' = DOMAIN live_orders
      /\ \A k \in DOMAIN live_orders : k # id => live_orders'[k] = live_orders[k]
      /\ live_orders'[id] = [live_orders[id] EXCEPT !.status = "cancelled"]
      /\ live_orders' = [k \in DOMAIN live_orders |-> live_orders'[k]]
  BY <1>1, <1>2, <1>4 DEF TableInv
<1>9. live_orders'[id] \in Rows /\ live_orders'[id].order = live_orders[id].order
      /\ live_orders'[id].status = "cancelled"
  <2>1. live_orders[id] \in Rows  BY <1>1, <1>2 DEF TableInv
  <2> QED  BY <1>8, <2>1 DEF Rows, OrderStatus
<1>10. TableOf(id)' = {}
  <2>1. id \notin Listed(live_orders')  BY <1>9 DEF Listed
  <2> QED  BY <2>1 DEF TableOf
<1>11. \A k \in DOMAIN live_orders : k # id => live_orders'[k] = live_orders[k]
  BY <1>8
<1>12. DOMAIN live_orders' = DOMAIN live_orders
       /\ live_orders' = [k \in DOMAIN live_orders |-> live_orders'[k]]
  BY <1>8
<1>13. TableInv'
  <2>1. \A k \in DOMAIN live_orders : live_orders'[k] \in Rows
    BY <1>1, <1>9, <1>11 DEF TableInv
  <2>2. live_orders' \in [DOMAIN live_orders' -> Rows]  BY <1>12, <2>1
  <2>3. \A k \in DOMAIN live_orders' :
          live_orders'[k].order = [side |-> Menu[k].side, price |-> Menu[k].price]
    BY <1>1, <1>9, <1>11, <1>12 DEF TableInv
  <2>4. commits' \in Nat /\ market' \in {"none", "active", "settled"}
    BY <1>1, <1>4 DEF TableInv
  <2> QED  BY <1>1, <1>12, <2>2, <2>3, <2>4 DEF TableInv
<1>14. /\ diff \in Diffs /\ diff.slot = commits + 1 /\ AddedBy(diff) = {}
       /\ Touched(diff) = {id}
       /\ \A i : Takes(diff, i) <=> i = id
       /\ \A t \in Sides : \A i \in diff.removed[t] : i = id /\ t = side
       /\ diff.added = base.added
  <2>1. /\ diff \in Diffs /\ diff.slot = base.slot
        /\ AddedBy(diff) = AddedBy(base) /\ diff.added = base.added
        /\ \A i : Takes(diff, i) <=> Takes(base, i) \/ i = id
        /\ Touched(diff) = Touched(base) \cup {id}
        /\ \A t \in Sides : diff.removed[t]
                              = base.removed[t] \cup (IF t = side THEN {id} ELSE {})
    BY <1>3, <1>5, <1>6, DiffRemoving
  <2>2. \A t \in Sides : \A i \in diff.removed[t] : i = id /\ t = side
    <3> SUFFICES ASSUME NEW t \in Sides, NEW i \in diff.removed[t] PROVE i = id /\ t = side
      OBVIOUS
    <3>1. i \in base.removed[t] \cup (IF t = side THEN {id} ELSE {})  BY <2>1
    <3>2. base.removed[t] = {}  BY <1>6
    <3> QED  BY <3>1, <3>2
  <2> QED  BY <1>6, <2>1, <2>2
<1>15. HomeDiff(diff)  BY <1>5, <1>6, <1>14 DEF HomeDiff, Home
<1>16. KnownDiff(diff)'
  <2>1. diff.slot \in 1..(commits + 1)  BY <1>1, <1>14
  <2>2. Touched(diff) \subseteq DOMAIN live_orders'  BY <1>2, <1>12, <1>14
  <2> QED  BY <1>4, <1>14, <1>15, <2>1, <2>2 DEF KnownDiff
<1>17. ASSUME NEW i \in OrderIds, i \notin Touched(diff)
       PROVE  TableOf(i)' = TableOf(i)
  <2>1. i # id  BY <1>14, <1>17
  <2>2. CASE i \in DOMAIN live_orders  BY <1>11, <1>12, <2>1, <2>2, SameRow
  <2>3. CASE i \notin DOMAIN live_orders
    <3>1. i \notin Listed(live_orders) /\ i \notin Listed(live_orders')
      BY <1>12, <2>3 DEF Listed
    <3> QED  BY <3>1 DEF TableOf
  <2> QED  BY <2>2, <2>3
<1>18. AddedOf(diff, id) = {}  BY <1>14 DEF AddedOf
<1>19. lost \subseteq OrderIds  BY DEF FeedInv, ServerTypes
<1>20. /\ DOMAIN live_orders \subseteq DOMAIN live_orders'
       /\ UNCHANGED <<backend, receiver, stream, inserted, orderbook, ob_channel, upto, twice,
                     sockets>>
       /\ lost \subseteq lost' /\ lost' \subseteq OrderIds
  BY <1>4, <1>12, <1>19 DEF server
<1>21. \A i \in Touched(diff) : AddedOf(diff, i) = TableOf(i)' /\ Takes(diff, i)
  <2>1. \A i \in Touched(diff) : i = id  BY <1>14
  <2> QED  BY <1>10, <1>14, <1>18, <2>1
<1>22. /\ \A i \in Touched(diff) : AddedOf(diff, i) = TableOf(i)'
       /\ \A i \in Touched(diff) : ~Takes(diff, i) => i \notin DOMAIN live_orders
  BY <1>21
<1>23. outbox = << >> /\ commits' = commits + 1  BY <1>4
<1> QED  BY <1>7, <1>13, <1>14, <1>16, <1>17, <1>20, <1>22, <1>23 DEF Stored

\* A market is put in the table or settled, or nothing happens: no order changes.
LEMMA MarketKeeps ==
  ASSUME FeedInv, market' \in {"none", "active", "settled"},
         commits' \in Nat, commits <= commits',
         UNCHANGED <<live_orders, outbox, server, sockets>>
  PROVE  FeedInv'
<1>1. TableInv /\ DiffInv /\ ServerTypes /\ BookInv /\ InSnapshot /\ MemoryInv /\ SocketsInv
  BY DEF FeedInv
<1> USE DEF server, sockets
<1>2. commits \in Nat  BY <1>1 DEF TableInv
<1>3. Unreceived' = Unreceived /\ InFlight' = InFlight
  BY DEF Unreceived, InFlight
<1>4. \A d : KnownDiff(d) => KnownDiff(d)'
  BY <1>2 DEF KnownDiff
<1>5. \A book : KnownBook(book) => KnownBook(book)'
  <2> SUFFICES ASSUME NEW book, KnownBook(book) PROVE KnownBook(book)'
    OBVIOUS
  <2>1. book.slot \in Nat  BY DEF KnownBook, States, StatesOf
  <2> QED  BY <1>2, <2>1 DEF KnownBook
<1>6. \A book : Fresh(book) => Fresh(book)'  BY <1>3 DEF Fresh
<1>7. \A id : TableOf(id)' = TableOf(id)  BY DEF TableOf
<1>8. TableInv'  BY <1>1 DEF TableInv
<1>9. DiffInv'  BY <1>1, <1>3, <1>4 DEF DiffInv
<1>10. ServerTypes'  BY <1>1, <1>2 DEF ServerTypes
<1>11. BookInv'
  <2>1. KnownBook(orderbook)' /\ Fresh(orderbook)'  BY <1>1, <1>5, <1>6 DEF BookInv
  <2> QED  BY <1>1, <1>3, <1>7, <2>1 DEF BookInv, OrderInv, Tells
<1>12. InSnapshot'  BY <1>1, <1>3 DEF InSnapshot
<1>13. MemoryInv'  BY <1>1, <1>3, <1>7 DEF MemoryInv, Serving
<1>14. SocketsInv'
  <2> SUFFICES ASSUME NEW c \in Clients PROVE SocketInv(c)'
    BY <1>1 DEF SocketsInv
  <2>1. SocketInv(c)  BY <1>1 DEF SocketsInv
  <2>2. PICK b : b = client[c].view  OBVIOUS
  <2>3. KnownBook(b) /\ Fresh(b)  BY <2>1, <2>2 DEF SocketInv
  <2>4. KnownBook(b)' /\ Fresh(b)'  BY <1>5, <1>6, <2>3
  <2>5. KnownBook(client[c].view)' /\ Fresh(client[c].view)'  BY <2>2, <2>4
  <2>6. SocketTypes(c)' /\ SocketOrder(c)' /\ CatchesUp(c)' /\ Shows(c)'
    BY <2>1 DEF SocketInv, SocketTypes, SocketOrder, CatchesUp, Shows, Joined, Subscribed, Coming
  <2> QED  BY <2>5, <2>6 DEF SocketInv
<1> QED  BY <1>8, <1>9, <1>10, <1>11, <1>12, <1>13, <1>14 DEF FeedInv

\* The update of a row that takes part in a match.
LEMMA ReducedRow ==
  ASSUME NEW D, NEW table \in [D -> Rows], NEW key \in D, NEW quantity \in Nat,
         quantity <= table[key].remaining_quantity, NEW next, next = Reduced(table, key, quantity)
  PROVE  /\ next \in [D -> Rows] /\ next[key].order = table[key].order
         /\ next[key].status \in {"partially_filled", "filled"}
         /\ next[key].remaining_quantity <= table[key].remaining_quantity
         /\ \A k \in D : k # key => next[k] = table[k]
<1>1. PICK left, status :
        /\ left = table[key].remaining_quantity - quantity
        /\ status = IF left <= 0 THEN "filled" ELSE "partially_filled"
  OBVIOUS
<1>2. table[key] \in Rows  OBVIOUS
<1>3. left \in Nat /\ left <= table[key].remaining_quantity
      /\ status \in {"partially_filled", "filled"}
  BY <1>1, <1>2 DEF Rows
<1>4. PICK order, quantity_, status_ :
        table[key] = [order |-> order, remaining_quantity |-> quantity_, status |-> status_]
  BY <1>2 DEF Rows
<1>5. next = [table EXCEPT ![key].remaining_quantity = left, ![key].status = status]
  BY <1>1 DEF Reduced
<1>6. next = [[table EXCEPT ![key].remaining_quantity = left] EXCEPT ![key].status = status]
  BY <1>5
<1>7. PICK first : first = [table EXCEPT ![key].remaining_quantity = left]
  OBVIOUS
<1>8. first \in [D -> Rows] /\ (\A k \in D : k # key => first[k] = table[k])
      /\ first[key] = [order |-> order, remaining_quantity |-> left, status |-> status_]
  <2>1. first = [k \in D |-> IF k = key THEN [table[key] EXCEPT !.remaining_quantity = left]
                             ELSE table[k]]
    BY <1>7
  <2>2. [table[key] EXCEPT !.remaining_quantity = left]
          = [order |-> order, remaining_quantity |-> left, status |-> status_]
    BY <1>4
  <2>3. [order |-> order, remaining_quantity |-> left, status |-> status_] \in Rows
    BY <1>2, <1>3, <1>4 DEF Rows
  <2> QED  BY <2>1, <2>2, <2>3
<1>9. next = [first EXCEPT ![key].status = status]  BY <1>6, <1>7
<1>10. next \in [D -> Rows] /\ (\A k \in D : k # key => next[k] = first[k])
       /\ next[key] = [order |-> order, remaining_quantity |-> left, status |-> status]
  <2>1. next = [k \in D |-> IF k = key THEN [first[key] EXCEPT !.status = status]
                            ELSE first[k]]
    BY <1>8, <1>9
  <2>2. [first[key] EXCEPT !.status = status]
          = [order |-> order, remaining_quantity |-> left, status |-> status]
    BY <1>8
  <2>3. [order |-> order, remaining_quantity |-> left, status |-> status] \in Rows
    BY <1>2, <1>3, <1>4 DEF Rows, OrderStatus
  <2> QED  BY <1>8, <2>1, <2>2, <2>3
<1> QED  BY <1>3, <1>4, <1>8, <1>10

\* A row that took part in a match, and a diff that does not have it yet.
MatchedRow(table, id, side) ==
  /\ table[id] \in Rows /\ table[id].status \in {"partially_filled", "filled"}
  /\ table[id].order.price = Menu[id].price /\ side = Menu[id].side
NotIn(diff, id, side) ==
  /\ diff \in Diffs /\ HomeDiff(diff) /\ id \notin Touched(diff) /\ diff.added[side] = << >>

\* What the row of a matched order says.
RowTells(table, id, side) ==
  IF table[id].status = "filled" THEN {} ELSE {[side |-> side, order |-> LiveOrder(table, id)]}

\* A diff has what another has and tells, once it has taken the order, of it.
Amends(next, diff, id, side, entries) ==
  /\ next \in Diffs /\ next.slot = diff.slot /\ HomeDiff(next)
  /\ Touched(next) = Touched(diff) \cup {id}
  /\ \A i : Takes(next, i) <=> Takes(diff, i) \/ i = id
  /\ AddedOf(next, id) = entries
  /\ \A i : i # id => AddedOf(next, i) = AddedOf(diff, i)
  /\ \A t \in Sides : t # side => next.added[t] = diff.added[t]

\* What a row that was read back puts in the diff.
LEMMA ReadTells ==
  ASSUME NEW diff, NEW table, NEW id \in OrderIds, NEW side, NotIn(diff, id, side),
         MatchedRow(table, id, side), NEW next, next = ReadBack(diff, table, id, side)
  PROVE  Amends(next, diff, id, side, RowTells(table, id, side))
<1>1. side \in Sides  BY MenuOf DEF MatchedRow
<1>2. PICK o : o = LiveOrder(table, id)  OBVIOUS
<1>3. o \in Orders /\ o.order_id = id /\ o.price = Menu[id].price
  BY <1>2, TableOrders DEF MatchedRow
<1>4. side = Menu[id].side  BY DEF MatchedRow
<1>5. diff \in Diffs /\ HomeDiff(diff) /\ id \notin Touched(diff)  BY DEF NotIn
<1>6. PICK taken : taken = Taking(diff, side, id)  OBVIOUS
<1>7. /\ taken \in Diffs /\ taken.slot = diff.slot /\ taken.added = diff.added
      /\ AddedBy(taken) = AddedBy(diff)
      /\ \A i : Takes(taken, i) <=> Takes(diff, i) \/ i = id
      /\ Touched(taken) = Touched(diff) \cup {id}
      /\ \A t \in Sides : taken.removed[t]
                            = diff.removed[t] \cup (IF t = side THEN {id} ELSE {})
  BY <1>1, <1>6, <1>5, DiffRemoving
<1>8. \A i : AddedOf(taken, i) = AddedOf(diff, i)  BY <1>7 DEF AddedOf
<1>9. AddedOf(diff, id) = {}  BY <1>5, Untouching
<1>10. HomeDiff(taken)
  <2>1. ASSUME NEW t \in Sides, NEW i \in taken.removed[t] PROVE Menu[i].side = t
    <3>1. i \in diff.removed[t] \/ (t = side /\ i = id)  BY <1>7, <2>1
    <3> QED  BY <1>5, <1>4, <3>1 DEF HomeDiff
  <2> QED  BY <1>7, <1>5, <2>1 DEF HomeDiff
<1>11. PICK orders : orders = IF table[id].status = "filled" THEN diff.added[side]
                             ELSE Append(diff.added[side], o)
  OBVIOUS
<1>12. next = Amended(diff, side, id, orders)
  BY <1>2, <1>11 DEF ReadBack, Amended, MatchedRow
<1>13. next = [slot |-> diff.slot, added |-> [diff.added EXCEPT ![side] = orders],
               removed |-> [diff.removed EXCEPT ![side] = @ \cup {id}]]
  BY <1>12, <1>5, ExceptBoth
<1>14. diff.added \in [Sides -> Seq(Orders)]  BY <1>5 DEF Diffs, DiffsOf
<1>15. CASE table[id].status = "filled"
  <2>1. orders = diff.added[side]  BY <1>11, <1>15
  <2>2. [diff.added EXCEPT ![side] = orders] = diff.added  BY <1>1, <1>14, <2>1
  <2>3. next = taken  BY <1>6, <1>13, <2>2 DEF Taking
  <2> QED  BY <1>7, <1>8, <1>9, <1>10, <1>15, <2>3 DEF RowTells, Amends
<1>16. CASE table[id].status # "filled"
  <2>1. orders = <<o>>
    <3>1. orders = Append(<< >>, o)  BY <1>11, <1>16 DEF NotIn
    <3>2. Append(<< >>, o) = <<o>>  OBVIOUS
    <3> QED  BY <3>1, <3>2
  <2>2. next = With(taken, side, o)
    <3>1. /\ taken.slot = diff.slot /\ taken.added = diff.added
          /\ taken.removed = [diff.removed EXCEPT ![side] = @ \cup {id}]
      BY <1>6 DEF Taking
    <3> QED  BY <1>13, <2>1, <3>1 DEF With
  <2>3. taken.added[side] = << >>  BY <1>7 DEF NotIn
  <2>4. /\ next \in Diffs /\ next.slot = taken.slot
        /\ AddedBy(next) = AddedBy(taken) \cup {[side |-> side, order |-> o]}
        /\ \A i : Takes(next, i) <=> Takes(taken, i)
        /\ Touched(next) = Touched(taken) \cup {o.order_id}
        /\ \A t \in Sides : Len(next.added[t]) = IF t = side THEN 1 ELSE Len(taken.added[t])
    BY <1>1, <1>3, <1>7, <2>2, <2>3, DiffAdding
  <2>5. /\ AddedOf(taken, o.order_id) = {} =>
              AddedOf(next, o.order_id) = {[side |-> side, order |-> o]}
        /\ \A i : i # o.order_id => AddedOf(next, i) = AddedOf(taken, i)
    <3>1. AddedBy(next) = AddedBy(taken) \cup {[side |-> side, order |-> o]}  BY <2>4
    <3>2. PICK e : e = [side |-> side, order |-> o]  OBVIOUS
    <3>3. AddedBy(next) = AddedBy(taken) \cup {e}  BY <3>1, <3>2
    <3>4. e.order.order_id = o.order_id  BY <3>2
    <3>5. AddedOf(taken, o.order_id) = {} => AddedOf(next, o.order_id) = {e}
      BY <3>3, <3>4, AddedOne
    <3>6. \A i : i # o.order_id => AddedOf(next, i) = AddedOf(taken, i)
      BY <3>3, <3>4, AddedOne
    <3> QED  BY <3>2, <3>5, <3>6
  <2>6. AddedOf(next, id) = {[side |-> side, order |-> o]}  BY <1>3, <1>8, <1>9, <2>5
  <2>7. \A i : i # id => AddedOf(next, i) = AddedOf(diff, i)  BY <1>3, <1>8, <2>5
  <2>8. HomeDiff(next)
    <3>1. \A e \in AddedBy(next) : e \in AddedBy(taken) \/ e = [side |-> side, order |-> o]
      BY <2>4
    <3>2. Home(AddedBy(next))  BY <1>3, <1>10, <1>4, <3>1 DEF Home, HomeDiff
    <3>3. next.removed = taken.removed  BY <2>2 DEF With
    <3>4. \A t \in Sides : Len(next.added[t]) <= 1  BY <1>10, <2>4 DEF HomeDiff
    <3> QED  BY <1>10, <3>2, <3>3, <3>4 DEF HomeDiff
  <2>9. \A t \in Sides : t # side => next.added[t] = diff.added[t]
    BY <1>13, <1>14
  <2> QED  BY <1>2, <1>3, <1>7, <1>16, <2>4, <2>6, <2>7, <2>8, <2>9 DEF RowTells, Amends
<1> QED  BY <1>15, <1>16

\* A row that may have been read back.
Seen(diff, table, id, side, read) ==
  IF id \in read THEN ReadBack(diff, table, id, side) ELSE diff

LEMMA SeenTells ==
  ASSUME NEW diff, NEW table, NEW id, NEW side, NEW read, NotIn(diff, id, side),
         id \in read => id \in OrderIds /\ MatchedRow(table, id, side),
         NEW next, next = Seen(diff, table, id, side, read)
  PROVE  /\ next \in Diffs /\ next.slot = diff.slot /\ HomeDiff(next)
         /\ Touched(next) = Touched(diff) \cup ({id} \cap read)
         /\ id \in read => Takes(next, id) /\ AddedOf(next, id) = RowTells(table, id, side)
         /\ \A i : i # id => AddedOf(next, i) = AddedOf(diff, i)
         /\ \A i : i # id => (Takes(next, i) <=> Takes(diff, i))
         /\ \A t \in Sides : t # side => next.added[t] = diff.added[t]
<1>1. CASE id \in read
  <2>1. next = ReadBack(diff, table, id, side)  BY <1>1 DEF Seen
  <2>2. id \in OrderIds /\ MatchedRow(table, id, side)  BY <1>1
  <2>3. Amends(next, diff, id, side, RowTells(table, id, side))  BY <2>1, <2>2, ReadTells
  <2>4. {id} \cap read = {id}  BY <1>1
  <2> QED  BY <2>3, <2>4 DEF Amends
<1>2. CASE id \notin read
  <2>1. next = diff  BY <1>2 DEF Seen
  <2>2. {id} \cap read = {}  BY <1>2
  <2> QED  BY <1>2, <2>1, <2>2 DEF NotIn
<1> QED  BY <1>1, <1>2

\* The two rows of a match.
LEMMA MatchedRows ==
  ASSUME TableInv, NEW maker \in Listed(live_orders), NEW taker, NEW quantity \in Nat,
         quantity <= live_orders[maker].remaining_quantity,
         taker # 0 => /\ taker \in Listed(live_orders) /\ taker # maker
                      /\ quantity <= live_orders[taker].remaining_quantity,
         NEW table, table = Matched(live_orders, maker, taker, quantity, taker # 0),
         NEW rows, rows = {maker, taker} \ {0}
  PROVE  /\ table \in [DOMAIN live_orders -> Rows]
         /\ rows \subseteq DOMAIN live_orders
         /\ \A k \in DOMAIN live_orders : /\ table[k].order = live_orders[k].order
                                          /\ k \notin rows => table[k] = live_orders[k]
         /\ \A k \in rows : MatchedRow(table, k, Menu[k].side)
         /\ maker \in rows
<1>1. PICK D : D = DOMAIN live_orders  OBVIOUS
<1>2. maker \in D /\ (taker # 0 => taker \in D)  BY <1>1 DEF Listed
<1>3. live_orders \in [D -> Rows] /\ D \subseteq Nat \ {0}
  BY <1>1 DEF TableInv
<1>4. PICK reduced : reduced = Reduced(live_orders, maker, quantity)  OBVIOUS
<1>5. /\ reduced \in [D -> Rows] /\ reduced[maker].order = live_orders[maker].order
      /\ reduced[maker].status \in {"partially_filled", "filled"}
      /\ \A k \in D : k # maker => reduced[k] = live_orders[k]
  BY <1>2, <1>3, <1>4, ReducedRow
<1>6. /\ table \in [D -> Rows]
      /\ \A k \in D : table[k].order = live_orders[k].order
      /\ \A k \in rows : table[k].status \in {"partially_filled", "filled"}
      /\ \A k \in D \ rows : table[k] = live_orders[k]
  <2>1. CASE taker = 0
    <3>1. table = reduced  BY <1>4, <2>1 DEF Matched
    <3>2. rows = {maker}  BY <1>2, <1>3, <2>1
    <3> QED  BY <1>5, <3>1, <3>2
  <2>2. CASE taker # 0
    <3>1. table = Reduced(reduced, taker, quantity)  BY <1>4, <2>2 DEF Matched
    <3>2. reduced[taker] = live_orders[taker] /\ taker \in D  BY <1>2, <1>5, <2>2
    <3>3. /\ table \in [D -> Rows] /\ table[taker].order = reduced[taker].order
          /\ table[taker].status \in {"partially_filled", "filled"}
          /\ \A k \in D : k # taker => table[k] = reduced[k]
      BY <1>5, <2>2, <3>1, <3>2, ReducedRow
    <3>4. rows = {maker, taker}  BY <1>2, <1>3, <2>2
    <3>5. \A k \in D : table[k].order = live_orders[k].order
      <4> TAKE k \in D
      <4>1. reduced[k].order = live_orders[k].order  BY <1>5
      <4>2. table[k].order = reduced[k].order  BY <3>3
      <4> QED  BY <4>1, <4>2
    <3>6. \A k \in rows : table[k].status \in {"partially_filled", "filled"}
      BY <1>2, <1>5, <2>2, <3>3, <3>4
    <3>7. \A k \in D \ rows : table[k] = live_orders[k]
      BY <1>5, <3>3, <3>4
    <3> QED  BY <3>3, <3>5, <3>6, <3>7
  <2> QED  BY <2>1, <2>2
<1>7. rows \subseteq D /\ maker \in rows  BY <1>2, <1>3
<1>8. ASSUME NEW k \in rows PROVE MatchedRow(table, k, Menu[k].side)
  <2>1. live_orders[k].order.price = Menu[k].price  BY <1>1, <1>7, RowsAre
  <2> QED  BY <1>6, <1>7, <2>1 DEF MatchedRow
<1> QED  BY <1>1, <1>6, <1>7, <1>8

\* The rows that are read back after a match, and what the diff of them is.
MatchOf(table, maker, maker_side, taker, taker_side, read) ==
  /\ read \subseteq OrderIds /\ read \subseteq {maker, taker} /\ maker # taker
  /\ maker_side # taker_side /\ maker_side \in Sides /\ taker_side \in Sides
  /\ \A id \in read : MatchedRow(table, id, Menu[id].side)
  /\ maker \in read => maker_side = Menu[maker].side
  /\ taker \in read => taker_side = Menu[taker].side

TellsRead(diff, slot, table, read) ==
  /\ diff \in Diffs /\ diff.slot = slot /\ HomeDiff(diff) /\ Touched(diff) = read
  /\ \A id \in read : Takes(diff, id) /\ AddedOf(diff, id) = RowTells(table, id, Menu[id].side)

\* The diff of a match tells of the rows that were read, and only of them.
LEMMA MatchDiff ==
  ASSUME NEW slot \in Nat, NEW table, NEW maker, NEW maker_side, NEW taker, NEW taker_side,
         NEW read, MatchOf(table, maker, maker_side, taker, taker_side, read),
         NEW diff, diff = Seen(Seen(NewDiff(slot), table, maker, maker_side, read),
                               table, taker, taker_side, read)
  PROVE  TellsRead(diff, slot, table, read)
<1>1. PICK base, first : /\ base = NewDiff(slot)
                         /\ first = Seen(base, table, maker, maker_side, read)
  OBVIOUS
<1>2. /\ base \in Diffs /\ base.slot = slot /\ HomeDiff(base)
      /\ Touched(base) = {} /\ \A side \in Sides : base.added[side] = << >>
  BY <1>1, EmptyDiff
<1>3. NotIn(base, maker, maker_side)  BY <1>2 DEF NotIn, MatchOf
<1>4. maker \in read => maker \in OrderIds /\ MatchedRow(table, maker, maker_side)
  BY DEF MatchOf
<1>5. taker \in read => taker \in OrderIds /\ MatchedRow(table, taker, taker_side)
  BY DEF MatchOf
<1>6. /\ first \in Diffs /\ first.slot = base.slot /\ HomeDiff(first)
      /\ Touched(first) = Touched(base) \cup ({maker} \cap read)
      /\ maker \in read => Takes(first, maker) /\ AddedOf(first, maker)
                                                     = RowTells(table, maker, maker_side)
      /\ \A t \in Sides : t # maker_side => first.added[t] = base.added[t]
  BY <1>1, <1>3, <1>4, SeenTells
<1>7. taker \notin Touched(first)  BY <1>2, <1>6 DEF MatchOf
<1>8. NotIn(first, taker, taker_side)  BY <1>2, <1>6, <1>7 DEF NotIn, MatchOf
<1>9. diff = Seen(first, table, taker, taker_side, read)  BY <1>1
<1>10. /\ diff \in Diffs /\ diff.slot = first.slot /\ HomeDiff(diff)
       /\ Touched(diff) = Touched(first) \cup ({taker} \cap read)
       /\ taker \in read => Takes(diff, taker) /\ AddedOf(diff, taker)
                                                     = RowTells(table, taker, taker_side)
       /\ \A i : i # taker => AddedOf(diff, i) = AddedOf(first, i)
       /\ \A i : i # taker => (Takes(diff, i) <=> Takes(first, i))
  BY <1>5, <1>8, <1>9, SeenTells
<1>11. Touched(diff) = read  BY <1>2, <1>6, <1>10 DEF MatchOf
<1>12. maker \in read => Takes(diff, maker) /\ AddedOf(diff, maker)
                                                     = RowTells(table, maker, maker_side)
  BY <1>6, <1>10 DEF MatchOf
<1>13. ASSUME NEW id \in read
       PROVE  Takes(diff, id) /\ AddedOf(diff, id) = RowTells(table, id, Menu[id].side)
  <2>1. CASE id = maker  BY <1>12, <2>1 DEF MatchOf
  <2>2. CASE id = taker  BY <1>10, <2>2 DEF MatchOf
  <2> QED  BY <2>1, <2>2 DEF MatchOf
<1> QED  BY <1>2, <1>6, <1>10, <1>11, <1>13 DEF TellsRead

LEMMA MatchStores ==
  ASSUME FeedInv, NEW maker \in Listed(live_orders), NEW quantity \in Nat, NEW taker,
         Match(maker, taker, quantity)
  PROVE  TableInv' /\ \E diff : Stored(diff)
<1>1. TableInv /\ commits \in Nat /\ lost \subseteq OrderIds
  BY DEF FeedInv, TableInv, ServerTypes
<1>2. PICK maker_side, taker_side, table, rows :
        /\ maker_side = live_orders[maker].order.side /\ taker_side = Opposite(maker_side)
        /\ table = Matched(live_orders, maker, taker, quantity, taker # 0)
        /\ rows = {maker, taker} \ {0}
  OBVIOUS
<1>3. /\ Idle /\ quantity <= live_orders[maker].remaining_quantity /\ market' = market
      /\ taker # 0 =>
           /\ taker \in Listed(live_orders) /\ live_orders[taker].order.side = taker_side
           /\ quantity <= live_orders[taker].remaining_quantity
      /\ UNCHANGED sockets
  BY <1>2 DEF Match
<1>4. PICK read \in SUBSET rows :
        /\ Store(table, Seen(Seen(NewDiff(commits + 1), table, maker, maker_side, read),
                             table, taker, taker_side, read))
        /\ UNCHANGED <<backend, receiver, stream, inserted, orderbook, ob_channel, upto, twice>>
        /\ lost' = (IF Serving THEN lost \cup (rows \ read) ELSE lost)
  <2>1. CASE /\ Store(table, Seen(Seen(NewDiff(commits + 1), table, maker, maker_side, rows),
                                  table, taker, taker_side, rows))
             /\ UNCHANGED server
    <3>1. rows \ rows = {}  OBVIOUS
    <3> QED  BY <2>1, <3>1 DEF server
  <2>2. CASE \E failed \in SUBSET rows \ {{}} :
               /\ Store(table,
                        Seen(Seen(NewDiff(commits + 1), table, maker, maker_side, rows \ failed),
                             table, taker, taker_side, rows \ failed))
               /\ lost' = (IF Serving THEN lost \cup failed ELSE lost)
               /\ UNCHANGED <<backend, receiver, stream, inserted, orderbook, ob_channel, upto, twice>>
    <3>1. PICK failed \in SUBSET rows :
               /\ Store(table,
                        Seen(Seen(NewDiff(commits + 1), table, maker, maker_side, rows \ failed),
                             table, taker, taker_side, rows \ failed))
               /\ lost' = (IF Serving THEN lost \cup failed ELSE lost)
               /\ UNCHANGED <<backend, receiver, stream, inserted, orderbook, ob_channel, upto, twice>>
      BY <2>2
    <3>2. rows \ (rows \ failed) = failed  OBVIOUS
    <3> QED  BY <3>1, <3>2
  <2> QED  BY <1>2, <2>1, <2>2 DEF Match, Seen
<1>5. PICK diff : diff = Seen(Seen(NewDiff(commits + 1), table, maker, maker_side, read),
                              table, taker, taker_side, read)
  OBVIOUS
<1>6. /\ outbox = << >> /\ commits' = commits + 1 /\ live_orders' = table /\ outbox' = <<diff>>
  BY <1>4, <1>5 DEF Store, Commit, Idle
<1>7. maker \in DOMAIN live_orders /\ maker \in OrderIds /\ maker_side = Menu[maker].side
      /\ maker_side \in Sides
  BY <1>1, <1>2, RowsAre DEF Listed
<1>8. taker_side \in Sides /\ taker_side # maker_side
  <2>1. PICK t \in TokenType, o \in OrderSide : maker_side = <<t, o>>  BY <1>7 DEF Sides
  <2> QED  BY <1>2, <2>1 DEF Opposite, Sides, OrderSide
<1>9. maker # taker
  <2>1. SUFFICES ASSUME taker = maker PROVE FALSE  OBVIOUS
  <2>2. taker # 0  BY <1>7, <2>1 DEF OrderIds
  <2> QED  BY <1>2, <1>3, <1>8, <2>1, <2>2
<1>10. taker # 0 => taker_side = Menu[taker].side
  BY <1>1, <1>3, RowsAre DEF Listed
<1>11. /\ table \in [DOMAIN live_orders -> Rows]
       /\ rows \subseteq DOMAIN live_orders
       /\ \A k \in DOMAIN live_orders : /\ table[k].order = live_orders[k].order
                                        /\ k \notin rows => table[k] = live_orders[k]
       /\ \A k \in rows : MatchedRow(table, k, Menu[k].side)
  BY <1>1, <1>2, <1>3, <1>9, MatchedRows
<1>12. rows \subseteq OrderIds /\ rows \subseteq {maker, taker} /\ 0 \notin rows
  BY <1>1, <1>2, <1>11, RowsAre
<1>13. commits + 1 \in Nat /\ (taker \in rows => taker_side = Menu[taker].side)
  BY <1>1, <1>10, <1>12
<1>14. /\ diff \in Diffs /\ diff.slot = commits + 1 /\ HomeDiff(diff) /\ Touched(diff) = read
       /\ \A id \in read : Takes(diff, id) /\ AddedOf(diff, id) = RowTells(table, id, Menu[id].side)
  <2>1. PICK slot : slot = commits + 1  OBVIOUS
  <2>2. MatchOf(table, maker, maker_side, taker, taker_side, read)
    BY <1>7, <1>8, <1>9, <1>11, <1>12, <1>13 DEF MatchOf
  <2>3. slot \in Nat  BY <1>13, <2>1
  <2>4. diff = Seen(Seen(NewDiff(slot), table, maker, maker_side, read),
                    table, taker, taker_side, read)
    BY <1>5, <2>1
  <2>5. TellsRead(diff, slot, table, read)  BY <2>2, <2>3, <2>4, MatchDiff
  <2> QED  BY <2>1, <2>5 DEF TellsRead
<1>15. DOMAIN live_orders' = DOMAIN live_orders  BY <1>6, <1>11
<1>16. TableInv'
  <2>1. live_orders' \in [DOMAIN live_orders' -> Rows]  BY <1>6, <1>11, <1>15
  <2>2. \A k \in DOMAIN live_orders' :
          live_orders'[k].order = [side |-> Menu[k].side, price |-> Menu[k].price]
    BY <1>1, <1>6, <1>11, <1>15 DEF TableInv
  <2>3. commits' \in Nat /\ market' \in {"none", "active", "settled"}
    BY <1>1, <1>3, <1>6 DEF TableInv
  <2> QED  BY <1>1, <1>15, <2>1, <2>2, <2>3 DEF TableInv
<1>17. ASSUME NEW id \in read
       PROVE  AddedOf(diff, id) = TableOf(id)'
  <2>1. id \in DOMAIN live_orders /\ id \in rows  BY <1>11
  <2>2. live_orders'[id].order.side = Menu[id].side
    BY <1>1, <1>6, <1>11, <2>1, RowsAre
  <2>3. live_orders'[id].status \in {"partially_filled", "filled"}
    BY <1>6, <1>11, <2>1 DEF MatchedRow
  <2>4. id \in Listed(live_orders') <=> live_orders'[id].status # "filled"
    BY <1>15, <2>1, <2>3 DEF Listed
  <2>5. TableOf(id)' = RowTells(live_orders', id, Menu[id].side)
    BY <2>2, <2>4 DEF TableOf, RowTells
  <2> QED  BY <1>6, <1>14, <2>5
<1>18. KnownDiff(diff)'
  <2>1. diff.slot \in 1..(commits + 1)  BY <1>1, <1>14
  <2>2. Touched(diff) \subseteq DOMAIN live_orders'  BY <1>11, <1>14, <1>15
  <2> QED  BY <1>6, <1>14, <2>1, <2>2 DEF KnownDiff
<1>19. lost \subseteq lost' /\ lost' \subseteq OrderIds  BY <1>1, <1>4, <1>12
<1>20. ASSUME Serving, NEW i \in OrderIds \ lost', i \notin Touched(diff)
       PROVE  TableOf(i)' = TableOf(i)
  <2>1. i \notin rows  BY <1>4, <1>14, <1>20
  <2>2. CASE i \in DOMAIN live_orders  BY <1>6, <1>11, <1>15, <2>1, <2>2, SameRow
  <2>3. CASE i \notin DOMAIN live_orders
    <3>1. i \notin Listed(live_orders) /\ i \notin Listed(live_orders')
      BY <1>15, <2>3 DEF Listed
    <3> QED  BY <3>1 DEF TableOf
  <2> QED  BY <2>2, <2>3
<1>21. /\ \A i \in Touched(diff) : AddedOf(diff, i) = TableOf(i)'
       /\ \A i \in Touched(diff) : ~Takes(diff, i) => i \notin DOMAIN live_orders
  BY <1>14, <1>17
<1>22. /\ outbox = << >> /\ outbox' = <<diff>> /\ commits' = commits + 1
       /\ DOMAIN live_orders \subseteq DOMAIN live_orders'
       /\ UNCHANGED <<backend, receiver, stream, inserted, orderbook, ob_channel, upto, twice,
                     sockets>>
       /\ diff.slot = commits + 1
  BY <1>3, <1>4, <1>6, <1>14, <1>15
<1> QED  BY <1>16, <1>18, <1>19, <1>20, <1>21, <1>22 DEF Stored

-----------------------------------------------------------------------------
(* Redis *)

\* What a step does not say of the browsers that it leaves alone.
LEMMA SocketsStay ==
  ASSUME SocketsInv, UNCHANGED <<chain, backend, inserted, orderbook, ob_channel, sockets>>,
         Unreceived' \subseteq Unreceived
  PROVE  SocketsInv'
<1> USE DEF chain, sockets
<1> SUFFICES ASSUME NEW c \in Clients PROVE SocketInv(c)'
  BY DEF SocketsInv
<1>1. SocketInv(c)  BY DEF SocketsInv
<1>2. PICK b : b = client[c].view  OBVIOUS
<1>3. KnownBook(b) /\ Fresh(b)  BY <1>1, <1>2 DEF SocketInv
<1>4. KnownBook(b)' /\ Fresh(b)'  BY <1>3 DEF KnownBook, Fresh
<1>5. KnownBook(client[c].view)' /\ Fresh(client[c].view)'  BY <1>2, <1>4
<1>6. SocketTypes(c)' /\ SocketOrder(c)' /\ CatchesUp(c)' /\ Shows(c)'
  BY <1>1 DEF SocketInv, SocketTypes, SocketOrder, CatchesUp, Shows, Joined, Subscribed, Coming
<1> QED  BY <1>5, <1>6 DEF SocketInv

\* Fewer diffs are on their way to the book, or the same in another place.
LEMMA FewerKeeps ==
  ASSUME FeedInv, UNCHANGED <<chain, backend, inserted, orderbook, ob_channel, sockets>>,
         ServerTypes', Unreceived' \subseteq Unreceived, ToSet(outbox') \subseteq ToSet(outbox),
         Rises(stream'), \A d \in ToSet(stream'), e \in ToSet(outbox') : d.slot < e.slot,
         upto' = upto \/ upto' = 0, MemoryInv'
  PROVE  FeedInv'
<1>1. TableInv /\ DiffInv /\ ServerTypes /\ BookInv /\ InSnapshot /\ MemoryInv /\ SocketsInv
  BY DEF FeedInv
<1> USE DEF chain, sockets
<1>2. InFlight' \subseteq InFlight  BY DEF InFlight
<1>3. TableInv'  BY <1>1 DEF TableInv
<1>4. \A d : KnownDiff(d)' <=> KnownDiff(d)  BY DEF KnownDiff
<1>5. DiffInv'
  <2>1. \A d \in InFlight' : KnownDiff(d)'  BY <1>1, <1>2, <1>4 DEF DiffInv
  <2>2. \A d, e \in InFlight' :
          /\ d.slot = e.slot => d = e
          /\ \A id \in Touched(d) \cap Touched(e) : ~Takes(d, id) => d.slot <= e.slot
    BY <1>1, <1>2 DEF DiffInv
  <2> QED  BY <2>1, <2>2 DEF DiffInv
<1>6. BookInv'
  <2>1. KnownBook(orderbook)'  BY <1>1 DEF BookInv, KnownBook
  <2>2. Fresh(orderbook)'  BY <1>1 DEF BookInv, Fresh
  <2>3. OrderInv'  BY <1>1 DEF BookInv, OrderInv
  <2>4. \A id : TableOf(id)' = TableOf(id)  BY DEF TableOf
  <2>5. Tells'  BY <1>1, <2>4 DEF BookInv, Tells
  <2> QED  BY <2>1, <2>2, <2>3, <2>5 DEF BookInv
<1>7. InSnapshot'
  <2>1. CASE upto' = upto  BY <1>1, <2>1 DEF InSnapshot
  <2>2. CASE upto' = 0
    <3>1. \A d \in Unreceived' : d.slot \in 1..commits
      BY <1>1, <1>2 DEF DiffInv, KnownDiff, Unreceived, InFlight
    <3>2. \A d \in Unreceived' : ~(d.slot <= 0)  BY <1>1, <3>1 DEF TableInv
    <3> QED  BY <2>2, <3>2 DEF InSnapshot
  <2> QED  BY <2>1, <2>2
<1>8. SocketsInv'  BY <1>1, SocketsStay
<1> QED  BY <1>3, <1>5, <1>6, <1>7, <1>8 DEF FeedInv

LEMMA Outgoing ==
  ASSUME FeedInv, outbox # << >>
  PROVE  /\ Head(outbox) \in Diffs /\ ToSet(outbox) = {Head(outbox)}
         /\ Unreceived = ToSet(stream) \cup {Head(outbox)}
         /\ KnownDiff(Head(outbox)) /\ Head(outbox).slot \in Nat
         /\ \A d \in ToSet(stream) : d.slot < Head(outbox).slot
         /\ \A id \in Touched(Head(outbox)) : AddedOf(Head(outbox), id) = TableOf(id)
<1>1. outbox \in Seq(Diffs) /\ Len(outbox) <= 1  BY DEF FeedInv, ServerTypes
<1>2. Head(outbox) \in Diffs /\ ToSet(outbox) = {Head(outbox)}  BY <1>1, QueueOne
<1>3. KnownDiff(Head(outbox))  BY <1>2 DEF FeedInv, DiffInv, InFlight, Unreceived
<1>4. Head(outbox).slot \in Nat  BY <1>2 DEF Diffs, DiffsOf
<1>5. \A d \in ToSet(stream) : d.slot < Head(outbox).slot
  BY <1>2 DEF FeedInv, BookInv, OrderInv
<1>6. \A id \in Touched(Head(outbox)) : AddedOf(Head(outbox), id) = TableOf(id)
  BY <1>2 DEF FeedInv, BookInv, Tells
<1> QED  BY <1>2, <1>3, <1>4, <1>5, <1>6 DEF Unreceived

\* A diff that the receiver does not get is counted as missed, unless the book
\* already has what it says.
LEMMA MissKeeps ==
  ASSUME FeedInv, outbox # << >>, outbox' = << >>, upto' = upto \/ upto' = 0,
         lost' = lost \cup Missed(ToSet(outbox)),
         UNCHANGED <<chain, backend, receiver, stream, inserted, orderbook, ob_channel, sockets>>
  PROVE  FeedInv'
<1>1. TableInv /\ DiffInv /\ ServerTypes /\ BookInv /\ InSnapshot /\ MemoryInv
  BY DEF FeedInv
<1> USE DEF chain
<1>2. PICK d : d = Head(outbox)  OBVIOUS
<1>3. /\ d \in Diffs /\ ToSet(outbox) = {d} /\ Unreceived = ToSet(stream) \cup {d}
      /\ KnownDiff(d) /\ d.slot \in Nat /\ \A e \in ToSet(stream) : e.slot < d.slot
      /\ \A id \in Touched(d) : AddedOf(d, id) = TableOf(id)
  BY <1>2, Outgoing
<1>4. ToSet(outbox') = {} /\ Unreceived' = ToSet(stream)  BY QueueNone DEF Unreceived
<1>5. Missed(ToSet(outbox)) = IF Serving /\ d.slot > upto THEN Touched(d) ELSE {}
  BY <1>3 DEF Missed
<1>6. Touched(d) \subseteq OrderIds
  <2>1. Touched(d) \subseteq DOMAIN live_orders  BY <1>3 DEF KnownDiff
  <2> QED  BY <1>1, <2>1, RowsAre
<1>7. lost' \subseteq OrderIds  BY <1>1, <1>5, <1>6 DEF ServerTypes
<1>8. ServerTypes'
  <2>1. << >> \in Seq(Diffs) /\ Len(<< >>) <= 1  OBVIOUS
  <2>2. upto' \in 0..commits  BY <1>1 DEF ServerTypes, TableInv
  <2> QED  BY <1>1, <1>7, <2>1, <2>2 DEF ServerTypes
<1>9. MemoryInv'
  <2> SUFFICES ASSUME Serving, NEW id \in OrderIds \ lost'
               PROVE  /\ NoneOf(Unreceived', id) => EntriesOf(orderbook, id) = TableOf(id)
                      /\ \A e \in Unreceived' : Latest(Unreceived', id, e)
                           => AddedOf(e, id) = TableOf(id)
    BY DEF MemoryInv, Serving, TableOf
  <2>1. /\ NoneOf(Unreceived, id) => EntriesOf(orderbook, id) = TableOf(id)
        /\ \A e \in Unreceived : Latest(Unreceived, id, e) => AddedOf(e, id) = TableOf(id)
    BY <1>1 DEF MemoryInv
  <2>2. CASE id \notin Touched(d)
    <3>1. NoneOf(Unreceived', id) => NoneOf(Unreceived, id)  BY <1>3, <1>4, <2>2 DEF NoneOf
    <3>2. \A e : Latest(Unreceived', id, e) => e \in Unreceived /\ Latest(Unreceived, id, e)
      BY <1>3, <1>4, <2>2 DEF Latest
    <3> QED  BY <2>1, <3>1, <3>2
  <2>3. CASE id \in Touched(d)
    <3>1. d.slot <= upto
      <4>1. upto \in Nat  BY <1>1 DEF ServerTypes, TableInv
      <4> QED  BY <1>3, <1>5, <2>3, <4>1
    <3>2. /\ \A e \in Unreceived : d.slot <= e.slot
          /\ EntriesOf(orderbook, id) = AddedOf(d, id)
      BY <1>1, <1>3, <2>3, <3>1 DEF InSnapshot
    <3>3. ToSet(stream) = {}
      <4>1. \A e \in ToSet(stream) : e.slot \in Nat
        BY <1>1 DEF DiffInv, InFlight, Unreceived, KnownDiff, Diffs, DiffsOf
      <4> QED  BY <1>3, <3>2, <4>1
    <3> QED  BY <1>3, <1>4, <2>3, <3>2, <3>3
  <2> QED  BY <2>2, <2>3
<1>10. Unreceived' \subseteq Unreceived /\ ToSet(outbox') \subseteq ToSet(outbox)
  BY <1>3, <1>4
<1>11. Rises(stream') /\ \A a \in ToSet(stream'), e \in ToSet(outbox') : a.slot < e.slot
  BY <1>1, <1>4 DEF BookInv, OrderInv
<1> QED  BY <1>8, <1>9, <1>10, <1>11, FewerKeeps

LEMMA PublishKeeps ==
  ASSUME FeedInv, Publish
  PROVE  FeedInv'
<1>1. TableInv /\ DiffInv /\ ServerTypes /\ BookInv /\ InSnapshot /\ MemoryInv
  BY DEF FeedInv
<1>2. CASE receiver # "listening"
  BY <1>2, MissKeeps DEF Publish
<1>3. CASE receiver = "listening"
  <2> USE DEF chain
  <2>1. PICK d : d = Head(outbox)  OBVIOUS
  <2>2. /\ outbox # << >> /\ outbox' = << >> /\ stream' = Append(stream, d)
        /\ lost' = lost \ Touched(d)
        /\ UNCHANGED <<chain, backend, receiver, inserted, orderbook, ob_channel, sockets, upto>>
    BY <1>3, <2>1 DEF Publish
  <2>3. /\ d \in Diffs /\ ToSet(outbox) = {d} /\ Unreceived = ToSet(stream) \cup {d}
        /\ KnownDiff(d) /\ d.slot \in Nat /\ \A e \in ToSet(stream) : e.slot < d.slot
        /\ \A id \in Touched(d) : AddedOf(d, id) = TableOf(id)
    BY <2>1, <2>2, Outgoing
  <2>4. /\ stream' \in Seq(Diffs) /\ ToSet(stream') = ToSet(stream) \cup {d}
        /\ Rises(stream')
    <3>1. stream \in Seq(Diffs) /\ Rises(stream)  BY <1>1 DEF ServerTypes, BookInv, OrderInv
    <3> QED  BY <2>2, <2>3, <3>1, QueueAppend
  <2>5. ToSet(outbox') = {} /\ Unreceived' = Unreceived
    BY <2>2, <2>3, <2>4, QueueNone DEF Unreceived
  <2>6. ServerTypes'
    <3>1. << >> \in Seq(Diffs) /\ Len(<< >>) <= 1  OBVIOUS
    <3>2. lost' \subseteq OrderIds  BY <1>1, <2>2 DEF ServerTypes
    <3> QED  BY <1>1, <1>3, <2>2, <2>4, <3>1, <3>2 DEF ServerTypes
  <2>7. MemoryInv'
    <3> SUFFICES ASSUME Serving, NEW id \in OrderIds \ lost'
                 PROVE  /\ NoneOf(Unreceived, id) => EntriesOf(orderbook, id) = TableOf(id)
                        /\ \A e \in Unreceived : Latest(Unreceived, id, e)
                             => AddedOf(e, id) = TableOf(id)
      BY <2>2, <2>5 DEF MemoryInv, Serving, TableOf
    <3>1. CASE id \notin lost  BY <1>1, <3>1 DEF MemoryInv
    <3>2. CASE id \in Touched(d)
      <4>1. ~NoneOf(Unreceived, id)  BY <2>3, <3>2 DEF NoneOf
      <4>2. ASSUME NEW e \in Unreceived, Latest(Unreceived, id, e) PROVE e = d
        <5>1. d.slot <= e.slot  BY <2>3, <3>2, <4>2 DEF Latest
        <5>2. \A f \in ToSet(stream) : f.slot \in Nat
          BY <1>1 DEF DiffInv, InFlight, Unreceived, KnownDiff, Diffs, DiffsOf
        <5> QED  BY <2>3, <5>1, <5>2
      <4> QED  BY <2>3, <3>2, <4>1, <4>2
    <3> QED  BY <2>2, <3>1, <3>2
  <2>8. \A a \in ToSet(stream'), e \in ToSet(outbox') : a.slot < e.slot  BY <2>5
  <2> QED  BY <2>2, <2>3, <2>4, <2>5, <2>6, <2>7, <2>8, FewerKeeps
<1> QED  BY <1>2, <1>3

LEMMA UnpublishedKeeps ==
  ASSUME FeedInv, Unpublished
  PROVE  FeedInv'
BY MissKeeps DEF Unpublished

LEMMA SubscribeKeeps ==
  ASSUME FeedInv, Subscribe
  PROVE  FeedInv'
<1>1. ServerTypes /\ BookInv /\ MemoryInv  BY DEF FeedInv
<1>2. /\ Serving /\ receiver' = "listening"
      /\ UNCHANGED <<chain, outbox, backend, stream, inserted, orderbook, ob_channel, upto, lost,
                     sockets>>
  BY DEF Subscribe
<1> USE DEF chain
<1>3. Unreceived' = Unreceived  BY <1>2 DEF Unreceived
<1>4. ServerTypes'  BY <1>1, <1>2 DEF ServerTypes, Serving
<1>5. MemoryInv'  BY <1>1, <1>2, <1>3 DEF MemoryInv, Serving, TableOf
<1>6. Rises(stream') /\ \A a \in ToSet(stream'), e \in ToSet(outbox') : a.slot < e.slot
  BY <1>1, <1>2 DEF BookInv, OrderInv
<1> QED  BY <1>2, <1>3, <1>4, <1>5, <1>6, FewerKeeps

LEMMA DisconnectKeeps ==
  ASSUME FeedInv, Disconnect
  PROVE  FeedInv'
<1>1. TableInv /\ DiffInv /\ ServerTypes /\ BookInv /\ InSnapshot /\ MemoryInv
  BY DEF FeedInv
<1>2. /\ receiver = "listening" /\ receiver' = "connecting" /\ stream' = << >>
      /\ lost' = lost \cup Missed(ToSet(stream))
      /\ UNCHANGED <<chain, outbox, backend, inserted, orderbook, ob_channel, upto, sockets>>
  BY DEF Disconnect
<1> USE DEF chain
<1>3. Serving  BY <1>1, <1>2 DEF ServerTypes, Serving
<1>4. ToSet(stream') = {} /\ Unreceived' = ToSet(outbox) /\ Rises(stream')
  BY <1>2, QueueNone DEF Unreceived
<1>5. Unreceived = ToSet(stream) \cup ToSet(outbox)  BY DEF Unreceived
<1>6. \A d \in Unreceived : KnownDiff(d) /\ d.slot \in Nat
  BY <1>1 DEF DiffInv, InFlight, KnownDiff, Diffs, DiffsOf
<1>7. lost' \subseteq OrderIds
  <2>1. \A d \in ToSet(stream) : Touched(d) \subseteq OrderIds
    BY <1>1, <1>5, <1>6, RowsAre DEF KnownDiff
  <2> QED  BY <1>1, <1>2, <2>1 DEF ServerTypes, Missed
<1>8. ServerTypes'
  <2>1. << >> \in Seq(Diffs)  OBVIOUS
  <2> QED  BY <1>1, <1>2, <1>3, <1>7, <2>1 DEF ServerTypes, Serving
<1>9. MemoryInv'
  <2> SUFFICES ASSUME NEW id \in OrderIds \ lost'
               PROVE  /\ NoneOf(Unreceived', id) => EntriesOf(orderbook, id) = TableOf(id)
                      /\ \A e \in Unreceived' : Latest(Unreceived', id, e)
                           => AddedOf(e, id) = TableOf(id)
    BY <1>2 DEF MemoryInv, Serving, TableOf
  <2>1. /\ NoneOf(Unreceived, id) => EntriesOf(orderbook, id) = TableOf(id)
        /\ \A e \in Unreceived : Latest(Unreceived, id, e) => AddedOf(e, id) = TableOf(id)
    BY <1>1, <1>2, <1>3 DEF MemoryInv
  <2>2. ASSUME NEW d \in ToSet(stream), id \in Touched(d) PROVE d.slot <= upto
    <3>1. upto \in Nat  BY <1>1 DEF ServerTypes, TableInv
    <3>2. id \notin Missed(ToSet(stream))  BY <1>2
    <3>3. ~(d.slot > upto)  BY <1>3, <2>2, <3>2 DEF Missed
    <3> QED  BY <1>5, <1>6, <3>1, <3>3
  <2>3. ASSUME NoneOf(Unreceived', id)
        PROVE  EntriesOf(orderbook, id) = TableOf(id)
    <3>1. CASE NoneOf(ToSet(stream), id)
      <4>1. NoneOf(Unreceived, id)  BY <1>4, <1>5, <2>3, <3>1 DEF NoneOf
      <4> QED  BY <2>1, <4>1
    <3>2. CASE \E d \in ToSet(stream) : id \in Touched(d)
      <4>1. PICK d \in ToSet(stream) : id \in Touched(d)  BY <3>2
      <4>2. d.slot <= upto /\ d \in Unreceived  BY <1>5, <2>2, <4>1
      <4>3. EntriesOf(orderbook, id) = AddedOf(d, id)  BY <1>1, <4>1, <4>2 DEF InSnapshot
      <4>4. ASSUME NEW e \in Unreceived, id \in Touched(e) PROVE e.slot <= d.slot
        <5>1. e \in ToSet(stream)  BY <1>4, <1>5, <2>3, <4>4 DEF NoneOf
        <5>2. e.slot <= upto  BY <2>2, <4>4, <5>1
        <5> QED  BY <1>1, <4>2, <4>4, <5>2 DEF InSnapshot
      <4>5. Latest(Unreceived, id, d)  BY <4>1, <4>2, <4>4 DEF Latest
      <4> QED  BY <2>1, <4>2, <4>3, <4>5
    <3> QED  BY <3>1, <3>2 DEF NoneOf
  <2>4. ASSUME NEW e \in Unreceived', Latest(Unreceived', id, e)
        PROVE  AddedOf(e, id) = TableOf(id)
    <3>1. e \in ToSet(outbox) /\ id \in Touched(e)  BY <1>4, <2>4 DEF Latest
    <3> QED  BY <1>1, <3>1 DEF BookInv, Tells
  <2> QED  BY <2>3, <2>4
<1>10. \A a \in ToSet(stream'), e \in ToSet(outbox') : a.slot < e.slot  BY <1>4
<1>11. Unreceived' \subseteq Unreceived  BY <1>4, <1>5
<1> QED  BY <1>2, <1>4, <1>8, <1>9, <1>10, <1>11, FewerKeeps

-----------------------------------------------------------------------------
(* The backend *)

\* A new channel has a number that no socket has.
LEMMA NewChannelIs ==
  ASSUME FeedInv
  PROVE  /\ NewChannel \in Nat /\ NewChannel > ob_channel
         /\ \A c \in Clients : client[c].channel # NewChannel /\ NewChannel # 0
<1> DEFINE T == {client[c].channel : c \in Clients}
           f == [c \in Clients |-> client[c].channel]
           S == {ob_channel} \cup T
<1>1. \A c \in Clients : client[c].channel \in Nat
  BY DEF FeedInv, SocketsInv, SocketInv, SocketTypes, SocketRecords
<1>2. ob_channel \in Nat  BY DEF FeedInv, ServerTypes
<1>3. IsFiniteSet(Clients)  BY FeedAssumption, FS_Interval DEF FeedAssumption, Clients
<1>4. f \in Surjection(Clients, T)  BY DEF Surjection
<1>5. IsFiniteSet(T)
  <2> HIDE DEF f, T
  <2> QED  BY <1>3, <1>4, FS_Surjection
<1>6. IsFiniteSet(S)
  <2> HIDE DEF T
  <2> QED  BY <1>5, FS_AddElement
<1>7. S \subseteq Nat /\ S # {} /\ ob_channel \in S /\ \A c \in Clients : client[c].channel \in S
  BY <1>1, <1>2
<1>8. Max(S) \in S /\ \A y \in S : Max(S) >= y
  <2> HIDE DEF S
  <2> QED  BY <1>6, <1>7, LatestExists
<1>9. NewChannel = Max(S) + 1  BY DEF NewChannel
<1> HIDE DEF S
<1>10. PICK m : m = Max(S)  OBVIOUS
<1>11. m \in Nat /\ \A y \in S : y \in Nat /\ m >= y  BY <1>7, <1>8, <1>10
<1>12. NewChannel = m + 1  BY <1>9, <1>10
<1>13. \A y \in S : m + 1 > y /\ m + 1 # y  BY <1>11
<1>14. m + 1 \in Nat /\ m + 1 # 0  BY <1>11
<1> QED  BY <1>7, <1>12, <1>13, <1>14

\* The rows as a list, in some order.
LEMMA SetListed ==
  ASSUME NEW S, IsFiniteSet(S)
  PROVE  /\ SetToSeq(S) \in [1..Cardinality(S) -> S] /\ Cardinality(S) \in Nat
         /\ \A x \in S : \E i \in 1..Cardinality(S) : SetToSeq(S)[i] = x
         /\ \A i, j \in 1..Cardinality(S) : SetToSeq(S)[i] = SetToSeq(S)[j] => i = j
<1> DEFINE n == Cardinality(S)
<1>1. n \in Nat /\ ExistsBijection(1..n, S)  BY FS_CardinalityType
<1>2. PICK f : f \in Bijection(1..n, S)  BY <1>1 DEF ExistsBijection
<1>3. f \in [1..n -> S] /\ IsInjective(f)  BY <1>2 DEF Bijection, Injection
<1>4. SetToSeq(S) \in [1..n -> S] /\ IsInjective(SetToSeq(S))
  BY <1>3 DEF SetToSeq
<1> DEFINE g == SetToSeq(S)
<1> HIDE DEF g
<1>5. g \in Injection(1..n, S)  BY <1>4 DEF Injection, g
<1> HIDE DEF n
<1>6. IsFiniteSet(1..n) /\ Cardinality(1..n) = n  BY <1>1, FS_Interval
<1>7. g \in Surjection(1..n, S)  BY <1>5, <1>6, FS_Injection DEF n
<1>8. \A x \in S : \E i \in 1..n : g[i] = x  BY <1>7 DEF Surjection
<1>9. \A i, j \in 1..n : g[i] = g[j] => i = j  BY <1>5 DEF Injection, IsInjective
<1> QED  BY <1>1, <1>4, <1>8, <1>9 DEF n, g

LEMMA OrderbookIs ==
  ASSUME TableInv
  PROVE  /\ get_orderbook(live_orders) \in [Sides -> Seq(Orders)]
         /\ \A side \in Sides : ToSet(get_orderbook(live_orders)[side])
              = {LiveOrder(live_orders, id) :
                   id \in {k \in Listed(live_orders) : live_orders[k].order.side = side}}
         /\ \A side \in Sides : \A id : ~Twice(get_orderbook(live_orders)[side], id)
<1> DEFINE Of(side) == {k \in Listed(live_orders) : live_orders[k].order.side = side}
           ids(side) == SetToSeq(Of(side))
           list(side) == [i \in DOMAIN ids(side) |-> LiveOrder(live_orders, ids(side)[i])]
<1>1. DOMAIN live_orders \subseteq OrderIds
      /\ \A id \in DOMAIN live_orders : live_orders[id] \in Rows
  BY RowsAre
<1>2. IsFiniteSet(DOMAIN live_orders)
  <2>1. Cardinality(DOMAIN live_orders) \in Int
        /\ DOMAIN live_orders = 1..Cardinality(DOMAIN live_orders)
    BY FeedAssumption, LenProperties DEF TableInv, FeedAssumption
  <2> QED  BY <2>1, FS_Interval
<1>3. ASSUME NEW side \in Sides
      PROVE  list(side) \in Seq(Orders)
             /\ ToSet(list(side)) = {LiveOrder(live_orders, id) : id \in Of(side)}
             /\ \A id : ~Twice(list(side), id)
  <2>1. IsFiniteSet(Of(side))  BY <1>2, FS_Subset DEF Listed
  <2> DEFINE n == Cardinality(Of(side))
  <2>2. /\ ids(side) \in [1..n -> Of(side)] /\ n \in Nat
        /\ \A x \in Of(side) : \E i \in 1..n : ids(side)[i] = x
        /\ \A i, j \in 1..n : ids(side)[i] = ids(side)[j] => i = j
    <3> HIDE DEF Of
    <3> QED  BY <2>1, SetListed
  <2>3. \A id \in Of(side) : LiveOrder(live_orders, id) \in Orders
                             /\ LiveOrder(live_orders, id).order_id = id
    BY <1>1, TableOrders DEF Listed
  <2> HIDE DEF Of, ids, n
  <2>4. list(side) \in [1..n -> Orders] /\ DOMAIN ids(side) = 1..n
    BY <2>2, <2>3
  <2>5. list(side) \in Seq(Orders)  BY <2>2, <2>4, SeqDef
  <2>6. ToSet(list(side)) = {LiveOrder(live_orders, ids(side)[i]) : i \in 1..n}
    BY <2>4 DEF ToSet
  <2>7. {LiveOrder(live_orders, ids(side)[i]) : i \in 1..n}
          = {LiveOrder(live_orders, id) : id \in Of(side)}
    BY <2>2
  <2>8. \A i \in 1..n : list(side)[i].order_id = ids(side)[i]  BY <2>2, <2>3, <2>4
  <2>9. \A id : ~Twice(list(side), id)
    <3> HIDE DEF list
    <3> QED  BY <2>2, <2>4, <2>8 DEF Twice
  <2> QED  BY <2>5, <2>6, <2>7, <2>9
<1>4. get_orderbook(live_orders) = [side \in Sides |-> list(side)]  BY DEF get_orderbook
<1> HIDE DEF list
<1> QED  BY <1>3, <1>4 DEF Of

\* The book that is loaded says what the table says.
LEMMA SnapshotTells ==
  ASSUME TableInv, NEW book, book = PushSnapshot(NewState(0), get_orderbook(live_orders))
  PROVE  KnownBook(book) /\ book.slot = 0 /\ \A id : EntriesOf(book, id) = TableOf(id)
         /\ Doubled(book) = {}
<1>1. NewState(0) \in States /\ NewState(0).slot = 0  BY NewStateProperties DEF States
<1>2. PICK orderbook_ : orderbook_ = get_orderbook(live_orders)  OBVIOUS
<1>3. /\ orderbook_ \in [Sides -> Seq(Orders)]
      /\ \A side \in Sides : ToSet(orderbook_[side])
              = {LiveOrder(live_orders, id) :
                   id \in {k \in Listed(live_orders) : live_orders[k].order.side = side}}
      /\ \A side \in Sides : \A id : ~Twice(orderbook_[side], id)
  BY <1>2, OrderbookIs
<1>4. /\ book \in States /\ book.slot = 0 /\ InPriceOrder(book)
      /\ \A side \in Sides : ToSet(book.orders[side]) = ToSet(orderbook_[side])
  <2>1. NewState(0) \in StatesOf(Orders)  BY <1>1 DEF States
  <2>2. book = PushSnapshot(NewState(0), orderbook_)  BY <1>2
  <2> QED  BY <1>1, <1>3, <2>1, <2>2, OrdersArePriced, PushSnapshotProperties DEF States
<1>5. \A e : e \in Entries(book) <=>
        \E id \in Listed(live_orders) : /\ live_orders[id].order.side \in Sides
          /\ e = [side |-> live_orders[id].order.side, order |-> LiveOrder(live_orders, id)]
  <2> TAKE e
  <2>1. e \in Entries(book) <=>
          \E side \in Sides : \E o \in ToSet(book.orders[side]) : e = [side |-> side, order |-> o]
    BY EntriesAre
  <2> QED  BY <1>3, <1>4, <2>1
<1>6. \A id \in Listed(live_orders) :
        /\ id \in DOMAIN live_orders /\ live_orders[id].order.side \in Sides
        /\ LiveOrder(live_orders, id).order_id = id
        /\ live_orders[id].order.side = Menu[id].side
        /\ LiveOrder(live_orders, id).price = Menu[id].price
  BY RowsAre, TableOrders DEF Listed
<1>7. ASSUME NEW e \in Entries(book)
      PROVE  /\ e.order.order_id \in Listed(live_orders)
             /\ e = [side |-> live_orders[e.order.order_id].order.side,
                     order |-> LiveOrder(live_orders, e.order.order_id)]
             /\ e.side = Menu[e.order.order_id].side
             /\ e.order.price = Menu[e.order.order_id].price
  BY <1>5, <1>6
<1>8. \A id : EntriesOf(book, id) = TableOf(id)
  <2> TAKE id
  <2>1. CASE id \in Listed(live_orders)
    <3> DEFINE f == [side |-> live_orders[id].order.side, order |-> LiveOrder(live_orders, id)]
    <3>1. f \in Entries(book) /\ f.order.order_id = id  BY <1>5, <1>6, <2>1
    <3>2. \A e \in Entries(book) : e.order.order_id = id => e = f  BY <1>7
    <3>3. TableOf(id) = {f}  BY <2>1 DEF TableOf
    <3> HIDE DEF f
    <3> QED  BY <3>1, <3>2, <3>3 DEF EntriesOf
  <2>2. CASE id \notin Listed(live_orders)
    <3>1. EntriesOf(book, id) = {}  BY <1>7, <2>2 DEF EntriesOf
    <3> QED  BY <2>2, <3>1 DEF TableOf
  <2> QED  BY <2>1, <2>2
<1>9. Home(Entries(book))  BY <1>7 DEF Home
<1>10. \A e \in Entries(book) : e.order.order_id \in DOMAIN live_orders  BY <1>6, <1>7
<1>11. 0 <= commits  BY DEF TableInv
<1>12. Doubled(book) = {}
  <2> SUFFICES ASSUME NEW id \in Doubled(book) PROVE FALSE
    OBVIOUS
  <2>1. PICK side \in Sides : Twice(book.orders[side], id)  BY DoubledIs
  <2>2. book.orders = [t \in Sides |-> Sorted(t, orderbook_[t])]
    BY <1>1, <1>2 DEF PushSnapshot, States, StatesOf
  <2>3. orderbook_[side] \in Seq(Orders) /\ Twice(Sorted(side, orderbook_[side]), id)
    BY <1>3, <2>1, <2>2
  <2> QED  BY <1>3, <2>3, OrdersArePriced, SortedTwice
<1> QED  BY <1>4, <1>8, <1>9, <1>10, <1>11, <1>12 DEF KnownBook

\* The backend starts to serve, with a book that says of an order what the table
\* says or nothing.
LEMMA ServeKeeps ==
  ASSUME FeedInv, backend = "boot", backend' = "serving",
         NEW book, book = orderbook', KnownBook(book), book.slot = 0,
         \A id : EntriesOf(book, id) = {} \/ EntriesOf(book, id) = TableOf(id),
         \A id \in OrderIds \ lost' : EntriesOf(book, id) = TableOf(id),
         upto' \in 0..commits, upto' # 0 => \A id : EntriesOf(book, id) = TableOf(id),
         lost' \subseteq OrderIds, ob_channel' \in Nat,
         UNCHANGED <<chain, outbox, receiver, stream, inserted, sockets>>
  PROVE  FeedInv'
<1>1. TableInv /\ DiffInv /\ ServerTypes /\ BookInv /\ SocketsInv
  BY DEF FeedInv
<1> USE DEF chain, sockets
<1>2. receiver = "connecting" /\ stream = << >> /\ inserted = << >>
  BY <1>1 DEF ServerTypes
<1>3. ToSet(stream) = {} /\ ToSet(inserted) = {} /\ Unreceived = ToSet(outbox)
      /\ Unreceived' = Unreceived /\ InFlight' = InFlight
  BY <1>2, QueueNone DEF Unreceived, InFlight
<1>4. \A d \in Unreceived : d.slot \in 1..commits /\ d.slot \in Nat /\ d.slot > 0
      /\ \A id \in Touched(d) : AddedOf(d, id) = TableOf(id)
  BY <1>1, <1>3 DEF DiffInv, InFlight, KnownDiff, BookInv, Tells, TableInv
<1>5. \A id : TableOf(id)' = TableOf(id)  BY DEF TableOf
<1>6. \A b : (KnownBook(b)' <=> KnownBook(b)) /\ (Fresh(b)' <=> Fresh(b))
  BY <1>3 DEF KnownBook, Fresh
<1>7. TableInv'  BY <1>1 DEF TableInv
<1>8. DiffInv'  BY <1>1, <1>3 DEF DiffInv, KnownDiff
<1>9. ServerTypes'  BY <1>1 DEF ServerTypes
<1>10. BookInv'
  <2>1. Fresh(book)  BY <1>3, <1>4 DEF Fresh
  <2>2. OrderInv'  BY <1>1, <1>3, <1>4 DEF BookInv, OrderInv
  <2>3. Tells'  BY <1>1, <1>3, <1>5 DEF BookInv, Tells
  <2>4. KnownBook(orderbook)' /\ Fresh(orderbook)'  BY <1>6, <2>1
  <2> QED  BY <2>2, <2>3, <2>4 DEF BookInv
<1>11. InSnapshot'
  <2>1. CASE upto' = 0
    <3>1. \A d \in Unreceived' : ~(d.slot <= upto')  BY <1>3, <1>4, <2>1
    <3> QED  BY <3>1 DEF InSnapshot
  <2>2. CASE upto' # 0
    <3> SUFFICES ASSUME NEW d \in Unreceived
                 PROVE  /\ \A e \in Unreceived : d.slot <= e.slot
                        /\ \A id \in Touched(d) : EntriesOf(book, id) = AddedOf(d, id)
      BY <1>3 DEF InSnapshot
    <3>1. outbox \in Seq(Diffs) /\ Len(outbox) <= 1  BY <1>1 DEF ServerTypes
    <3>2. outbox # << >>  BY <1>3, QueueNone
    <3>3. ToSet(outbox) = {Head(outbox)}  BY <3>1, <3>2, QueueOne
    <3>4. \A e \in Unreceived : e = d  BY <1>3, <3>3
    <3>5. d.slot <= d.slot  BY <1>4
    <3> QED  BY <1>4, <2>2, <3>4, <3>5
  <2> QED  BY <2>1, <2>2
<1>12. MemoryInv'
  <2> SUFFICES ASSUME NEW id \in OrderIds \ lost'
               PROVE  /\ EntriesOf(book, id) = TableOf(id)
                      /\ \A d \in Unreceived : Latest(Unreceived, id, d)
                           => AddedOf(d, id) = TableOf(id)
    BY <1>3, <1>5 DEF MemoryInv
  <2> QED  BY <1>4 DEF Latest
<1>13. SocketsInv'
  <2> SUFFICES ASSUME NEW c \in Clients PROVE SocketInv(c)'
    BY <1>1 DEF SocketsInv
  <2>1. SocketInv(c)  BY <1>1 DEF SocketsInv
  <2>2. client[c].step \in {"away", "gone"} /\ client[c].rx = << >>
    BY <2>1 DEF SocketInv, SocketTypes
  <2>3. ToSet(client[c].rx) = {} /\ Rises(client[c].rx)  BY <2>2, QueueNone
  <2>4. SocketTypes(c)'  BY <2>1, <2>2 DEF SocketInv, SocketTypes
  <2>5. SocketOrder(c)'  BY <2>2, <2>3 DEF SocketOrder
  <2>6. ~Joined(c)'  BY <2>2 DEF Joined, Subscribed
  <2>7. CatchesUp(c)' /\ Shows(c)'  BY <2>6 DEF CatchesUp, Shows
  <2>8. PICK b : b = client[c].view  OBVIOUS
  <2>9. KnownBook(b)' /\ Fresh(b)'  BY <1>6, <2>1, <2>8 DEF SocketInv
  <2>10. KnownBook(client[c].view)' /\ Fresh(client[c].view)'  BY <2>8, <2>9
  <2> QED  BY <2>4, <2>5, <2>7, <2>10 DEF SocketInv
<1> QED  BY <1>7, <1>8, <1>9, <1>10, <1>11, <1>12, <1>13 DEF FeedInv

LEMMA BootstrapKeeps ==
  ASSUME FeedInv, Bootstrap
  PROVE  FeedInv'
<1>1. TableInv /\ ServerTypes /\ commits \in Nat  BY DEF FeedInv, TableInv
<1>2. /\ backend = "boot" /\ backend' = "serving"
      /\ UNCHANGED <<chain, outbox, receiver, stream, inserted, sockets>>
  BY DEF Bootstrap
<1>3. orderbook = NoBook  BY <1>1, <1>2 DEF ServerTypes
<1>4. NoBook = NewState(0)  BY DEF NoBook
<1>5. ob_channel' \in Nat
  <2>1. ob_channel' = NewChannel \/ ob_channel' = ob_channel  BY DEF Bootstrap
  <2>2. NewChannel \in Nat /\ ob_channel \in Nat  BY <1>1, NewChannelIs DEF ServerTypes
  <2> QED  BY <2>1, <2>2
<1>6. PICK book : book = orderbook'  OBVIOUS
<1>7. \/ /\ book = PushSnapshot(NewState(0), get_orderbook(live_orders))
         /\ upto' = (IF outbox = << >> THEN 0 ELSE commits) /\ lost' = {}
      \/ book = NewState(0) /\ upto' = 0 /\ lost' = Listed(live_orders)
  BY <1>3, <1>4, <1>6 DEF Bootstrap
<1>8. KnownBook(NewState(0)) /\ NewState(0).slot = 0 /\ \A id : EntriesOf(NewState(0), id) = {}
  BY <1>1, NewStateProperties DEF KnownBook, States, Home, EntriesOf
<1>9. CASE /\ book = PushSnapshot(NewState(0), get_orderbook(live_orders))
           /\ upto' = (IF outbox = << >> THEN 0 ELSE commits) /\ lost' = {}
  <2>1. KnownBook(book) /\ book.slot = 0 /\ \A id : EntriesOf(book, id) = TableOf(id)
    BY <1>1, <1>9, SnapshotTells
  <2>2. upto' \in 0..commits  BY <1>1, <1>9
  <2>3. lost' \subseteq OrderIds  BY <1>9
  <2> QED  BY <1>2, <1>5, <1>6, <2>1, <2>2, <2>3, ServeKeeps
<1>10. CASE book = NewState(0) /\ upto' = 0 /\ lost' = Listed(live_orders)
  <2>1. KnownBook(book) /\ book.slot = 0 /\ \A id : EntriesOf(book, id) = {}
    BY <1>8, <1>10
  <2>2. \A id \in OrderIds \ lost' : EntriesOf(book, id) = TableOf(id)
    BY <1>10, <2>1 DEF TableOf
  <2>3. upto' \in 0..commits  BY <1>1, <1>10
  <2>4. lost' \subseteq OrderIds  BY <1>1, <1>10, RowsAre DEF Listed
  <2> QED  BY <1>2, <1>5, <1>6, <1>10, <2>1, <2>2, <2>3, <2>4, ServeKeeps
<1> QED  BY <1>7, <1>9, <1>10

\* A book takes over a diff that it has nothing newer of: what it says then of
\* the orders the diff touches, and of the others.
LEMMA TakesOver ==
  ASSUME NEW book, KnownBook(book), NEW d, KnownDiff(d), NEW next, next = Apply(d, book)
  PROVE  /\ KnownBook(next) /\ next.slot = d.slot
         /\ \A id : id \notin Touched(d) => EntriesOf(next, id) = EntriesOf(book, id)
         /\ \A id \in Touched(d) :
              Takes(d, id) \/ EntriesOf(book, id) \subseteq AddedOf(d, id)
                => EntriesOf(next, id) = AddedOf(d, id)
<1>1. /\ book \in States /\ Home(Entries(book)) /\ InPriceOrder(book)
      /\ \A e \in Entries(book) : e.order.order_id \in DOMAIN live_orders
      /\ d \in Diffs /\ HomeDiff(d) /\ d.slot \in 1..commits
      /\ Touched(d) \subseteq DOMAIN live_orders
  BY DEF KnownBook, KnownDiff
<1>2. /\ next \in States /\ Home(Entries(next)) /\ next.slot = d.slot /\ InPriceOrder(next)
      /\ \A id : EntriesOf(next, id)
                   = (IF Takes(d, id) THEN {} ELSE EntriesOf(book, id)) \cup AddedOf(d, id)
  BY <1>1, ApplyTells
<1>3. \A id : id \notin Touched(d) => ~Takes(d, id) /\ AddedOf(d, id) = {}
  BY <1>1, Untouching
<1>4. \A id : id \notin Touched(d) => EntriesOf(next, id) = EntriesOf(book, id)
  BY <1>2, <1>3
<1>5. ASSUME NEW e \in Entries(next)
      PROVE  e.order.order_id \in DOMAIN live_orders
  <2>1. CASE e.order.order_id \in Touched(d)  BY <1>1, <2>1
  <2>2. CASE e.order.order_id \notin Touched(d)
    <3>1. e \in EntriesOf(next, e.order.order_id)  BY DEF EntriesOf
    <3>2. e \in EntriesOf(book, e.order.order_id)  BY <1>4, <2>2, <3>1
    <3> QED  BY <1>1, <3>2 DEF EntriesOf
  <2> QED  BY <2>1, <2>2
<1>6. KnownBook(next)  BY <1>1, <1>2, <1>5 DEF KnownBook
<1>7. \A id \in Touched(d) :
        Takes(d, id) \/ EntriesOf(book, id) \subseteq AddedOf(d, id)
          => EntriesOf(next, id) = AddedOf(d, id)
  BY <1>2
<1> QED  BY <1>2, <1>4, <1>6, <1>7

\* The slots of diffs and books are numbers.
LEMMA SlotsAre ==
  ASSUME FeedInv
  PROVE  /\ \A d \in InFlight : d.slot \in Nat /\ KnownDiff(d)
         /\ \A d \in Unreceived \cup ToSet(inserted) : d.slot \in Nat /\ KnownDiff(d)
         /\ \A c \in Clients : \A d \in ToSet(client[c].rx) : d.slot \in Nat /\ KnownDiff(d)
         /\ orderbook.slot \in Nat
         /\ \A c \in Clients : client[c].view.slot \in Nat
<1>1. \A d \in InFlight : d.slot \in Nat /\ KnownDiff(d)
  BY DEF FeedInv, DiffInv, KnownDiff, Diffs, DiffsOf
<1>2. \A d \in Unreceived \cup ToSet(inserted) : d \in InFlight  BY DEF InFlight
<1>3. \A c \in Clients : \A d \in ToSet(client[c].rx) : d \in InFlight  BY DEF InFlight
<1>4. \A b : KnownBook(b) => b.slot \in Nat  BY DEF KnownBook, States, StatesOf
<1>5. orderbook.slot \in Nat  BY <1>4 DEF FeedInv, BookInv
<1>6. \A c \in Clients : client[c].view.slot \in Nat
  BY <1>4 DEF FeedInv, SocketsInv, SocketInv
<1> QED  BY <1>1, <1>2, <1>3, <1>5, <1>6

LEMMA ReceiveKeeps ==
  ASSUME FeedInv, Receive
  PROVE  FeedInv'
<1>1. TableInv /\ DiffInv /\ ServerTypes /\ BookInv /\ InSnapshot /\ MemoryInv /\ SocketsInv
  BY DEF FeedInv
<1>2. PICK d, book : d = Head(stream) /\ book = Apply(d, orderbook)  OBVIOUS
<1>3. /\ stream # << >> /\ inserted = << >> /\ orderbook' = book /\ inserted' = <<d>>
      /\ stream' = Tail(stream)
      /\ UNCHANGED <<chain, outbox, backend, receiver, ob_channel, upto, lost, sockets>>
  BY <1>2 DEF Receive
<1> USE DEF chain, sockets
<1>4. /\ d \in Diffs /\ stream' \in Seq(Diffs) /\ d \in ToSet(stream)
      /\ ToSet(stream) = {d} \cup ToSet(stream') /\ Rises(stream')
      /\ \A e \in ToSet(stream') : d.slot < e.slot
  <2>1. stream \in Seq(Diffs) /\ Rises(stream)  BY <1>1 DEF ServerTypes, BookInv, OrderInv
  <2> QED  BY <1>2, <1>3, <2>1, QueueTail
<1>5. ToSet(inserted) = {} /\ inserted' \in Seq(Diffs) /\ ToSet(inserted') = {d} /\ Len(inserted') = 1
  BY <1>3, <1>4, QueueNone, QueueSingle
<1>6. /\ Unreceived = Unreceived' \cup {d}
      /\ Unreceived' = ToSet(stream') \cup ToSet(outbox)
      /\ \A e \in Unreceived' : d.slot < e.slot
  BY <1>1, <1>3, <1>4 DEF Unreceived, BookInv, OrderInv
<1>7. InFlight' = InFlight  BY <1>3, <1>5, <1>6 DEF InFlight
<1>8. /\ \A e \in Unreceived : e.slot \in Nat /\ KnownDiff(e)
      /\ \A c \in Clients : client[c].view.slot \in Nat
      /\ \A c \in Clients : \A e \in ToSet(client[c].rx) : e.slot \in Nat
      /\ orderbook.slot \in Nat /\ d.slot \in Nat /\ KnownDiff(d)
  BY <1>6, SlotsAre
<1>9. orderbook.slot < d.slot  BY <1>1, <1>6 DEF BookInv, OrderInv
<1>10. \A id \in Touched(d) : Takes(d, id) \/ EntriesOf(orderbook, id) \subseteq AddedOf(d, id)
  BY <1>1, <1>6 DEF BookInv, Fresh
<1>11. /\ KnownBook(book) /\ book.slot = d.slot
       /\ \A id : id \notin Touched(d) => EntriesOf(book, id) = EntriesOf(orderbook, id)
       /\ \A id \in Touched(d) : EntriesOf(book, id) = AddedOf(d, id)
  <2>1. KnownBook(orderbook)  BY <1>1 DEF BookInv
  <2> QED  BY <1>2, <1>8, <1>10, <2>1, TakesOver
\* A diff that is newer takes the order out, if this one touches it.
<1>12. \A e \in Unreceived' : \A id \in Touched(e) \cap Touched(d) : Takes(e, id)
  <2> SUFFICES ASSUME NEW e \in Unreceived', NEW id \in Touched(e) \cap Touched(d), ~Takes(e, id)
               PROVE  FALSE
    OBVIOUS
  <2>1. e \in InFlight /\ d \in InFlight  BY <1>6 DEF InFlight
  <2>2. e.slot <= d.slot  BY <1>1, <2>1 DEF DiffInv
  <2> QED  BY <1>6, <1>8, <2>2
<1>13. \A b : KnownBook(b)' <=> KnownBook(b)  BY <1>3 DEF KnownBook
<1>14. TableInv'  BY <1>1, <1>3 DEF TableInv
<1>15. DiffInv'
  <2>1. \A e : KnownDiff(e)' <=> KnownDiff(e)  BY <1>3 DEF KnownDiff
  <2> QED  BY <1>1, <1>7, <2>1 DEF DiffInv
<1>16. ServerTypes'
  <2>1. backend # "boot"  BY <1>1, <1>3 DEF ServerTypes
  <2>2. receiver # "connecting"  BY <1>1, <1>3 DEF ServerTypes
  <2> QED  BY <1>1, <1>3, <1>4, <1>5, <2>1, <2>2 DEF ServerTypes
<1>17. BookInv'
  <2>1. Fresh(orderbook)'
    <3> SUFFICES ASSUME NEW e \in Unreceived' \cup {d}, NEW id \in Touched(e), ~Takes(e, id)
                 PROVE  EntriesOf(book, id) \subseteq AddedOf(e, id)
      BY <1>3, <1>5 DEF Fresh
    <3>1. CASE e = d  BY <1>11, <3>1
    <3>2. CASE e \in Unreceived'
      <4>1. id \notin Touched(d)  BY <1>12, <3>2
      <4>2. EntriesOf(orderbook, id) \subseteq AddedOf(e, id)
        BY <1>1, <1>6, <3>2 DEF BookInv, Fresh
      <4> QED  BY <1>11, <4>1, <4>2
    <3> QED  BY <3>1, <3>2
  <2>2. OrderInv'
    <3>1. \A a \in ToSet(stream'), e \in ToSet(outbox) : a.slot < e.slot
      BY <1>1, <1>4 DEF BookInv, OrderInv
    <3> QED  BY <1>3, <1>4, <1>5, <1>6, <1>11, <3>1 DEF OrderInv
  <2>3. Tells'
    <3>1. \A id : TableOf(id)' = TableOf(id)  BY <1>3 DEF TableOf
    <3> QED  BY <1>1, <1>3, <1>5, <1>11, <3>1 DEF BookInv, Tells
  <2>4. KnownBook(orderbook)'  BY <1>3, <1>11, <1>13
  <2> QED  BY <2>1, <2>2, <2>3, <2>4 DEF BookInv
<1>18. InSnapshot'
  <2> SUFFICES ASSUME NEW e \in Unreceived', e.slot <= upto PROVE FALSE
    BY <1>3 DEF InSnapshot
  <2>1. e.slot <= d.slot  BY <1>1, <1>6 DEF InSnapshot
  <2> QED  BY <1>6, <1>8, <2>1
<1>19. MemoryInv'
  <2> SUFFICES ASSUME Serving, NEW id \in OrderIds \ lost
               PROVE  /\ NoneOf(Unreceived', id) => EntriesOf(book, id) = TableOf(id)
                      /\ \A e \in Unreceived' : Latest(Unreceived', id, e)
                           => AddedOf(e, id) = TableOf(id)
    BY <1>3 DEF MemoryInv, Serving, TableOf
  <2>1. /\ NoneOf(Unreceived, id) => EntriesOf(orderbook, id) = TableOf(id)
        /\ \A e \in Unreceived : Latest(Unreceived, id, e) => AddedOf(e, id) = TableOf(id)
    BY <1>1 DEF MemoryInv
  <2>2. ASSUME NoneOf(Unreceived', id) PROVE EntriesOf(book, id) = TableOf(id)
    <3>1. CASE id \in Touched(d)
      <4>1. Latest(Unreceived, id, d)  BY <1>6, <1>8, <2>2, <3>1 DEF Latest, NoneOf
      <4> QED  BY <1>6, <1>11, <2>1, <3>1, <4>1
    <3>2. CASE id \notin Touched(d)
      <4>1. NoneOf(Unreceived, id)  BY <1>6, <2>2, <3>2 DEF NoneOf
      <4> QED  BY <1>11, <2>1, <3>2, <4>1
    <3> QED  BY <3>1, <3>2
  <2>3. ASSUME NEW e \in Unreceived', Latest(Unreceived', id, e)
        PROVE  AddedOf(e, id) = TableOf(id)
    <3>1. e.slot \in Nat /\ d.slot <= e.slot  BY <1>6, <1>8
    <3>2. Latest(Unreceived, id, e)  BY <1>6, <2>3, <3>1 DEF Latest
    <3> QED  BY <1>6, <2>1, <3>2
  <2> QED  BY <2>2, <2>3
<1>20. SocketsInv'
  <2> SUFFICES ASSUME NEW c \in Clients PROVE SocketInv(c)'
    BY <1>1, <1>3 DEF SocketsInv
  <2>1. /\ SocketTypes(c) /\ KnownBook(client[c].view) /\ Fresh(client[c].view)
        /\ SocketOrder(c) /\ CatchesUp(c) /\ Shows(c)
    BY <1>1 DEF SocketsInv, SocketInv
  <2>2. Coming(c) = ToSet(client[c].rx) /\ Coming(c)' = Coming(c) \cup {d}
    BY <1>3, <1>5 DEF Coming
  <2>3. \A e \in Coming(c) : e.slot <= orderbook.slot /\ e.slot \in Nat /\ e.slot < d.slot
    BY <1>8, <1>9, <2>1, <2>2 DEF SocketOrder
  <2>4. Joined(c)' <=> Joined(c)  BY <1>3 DEF Joined, Subscribed
  <2>5. SocketTypes(c)'  BY <1>3, <2>1 DEF SocketTypes
  <2>6. PICK view : view = client[c].view  OBVIOUS
  <2>7. KnownBook(view)' /\ Fresh(view)'
    <3>1. KnownBook(view) /\ Fresh(view)  BY <2>1, <2>6
    <3>2. (Unreceived \cup ToSet(inserted))' = Unreceived \cup ToSet(inserted)
      BY <1>5, <1>6
    <3>3. Fresh(view)'  BY <3>1, <3>2 DEF Fresh
    <3> QED  BY <1>13, <3>1, <3>3
  <2>8. KnownBook(client[c].view)' /\ Fresh(client[c].view)'  BY <1>3, <2>6, <2>7
  <2>9. SocketOrder(c)'
    <3>1. \A e \in ToSet(client[c].rx) : e.slot <= book.slot /\ e.slot < d.slot
      BY <1>8, <1>11, <2>2, <2>3
    <3>2. client[c].step \in {"opened", "create"} => client[c].view.slot < book.slot
      BY <1>8, <1>9, <1>11, <2>1 DEF SocketOrder
    <3>3. client[c].step \in {"opened", "create"} =>
            client[c].view.slot <= book.slot /\ client[c].view.slot # book.slot
      BY <1>8, <1>11, <3>2
    <3> QED  BY <1>3, <1>5, <2>1, <3>1, <3>3 DEF SocketOrder
  <2>10. CatchesUp(c)'
    <3> SUFFICES ASSUME Joined(c), NEW id \in OrderIds, NEW e \in Coming(c)',
                        Latest(Coming(c)', id, e)
                 PROVE  AddedOf(e, id) = EntriesOf(book, id)
      BY <1>3, <2>4 DEF CatchesUp
    <3>1. CASE id \in Touched(d)
      <4>1. d.slot <= e.slot  BY <2>2, <3>1 DEF Latest
      <4>2. e = d  BY <1>8, <2>2, <2>3, <4>1
      <4> QED  BY <1>11, <3>1, <4>2
    <3>2. CASE id \notin Touched(d)
      <4>1. e \in Coming(c) /\ Latest(Coming(c), id, e)  BY <2>2, <3>2 DEF Latest
      <4>2. AddedOf(e, id) = EntriesOf(orderbook, id)  BY <2>1, <4>1 DEF CatchesUp
      <4> QED  BY <1>11, <3>2, <4>2
    <3> QED  BY <3>1, <3>2
  <2>11. Shows(c)'
    <3> SUFFICES ASSUME Joined(c), ~client[c].lagged, NEW id \in OrderIds
                 PROVE  /\ id \notin unseen[c] /\ NoneOf(Coming(c)', id) =>
                             EntriesOf(view, id) = EntriesOf(book, id)
                        /\ \A e \in Coming(c)' : Latest(Coming(c)', id, e) /\ ~Takes(e, id) =>
                             EntriesOf(view, id) \subseteq AddedOf(e, id)
      BY <1>3, <2>4, <2>6 DEF Shows
    <3>1. /\ id \notin unseen[c] /\ NoneOf(Coming(c), id) =>
               EntriesOf(view, id) = EntriesOf(orderbook, id)
          /\ \A e \in Coming(c) : Latest(Coming(c), id, e) /\ ~Takes(e, id) =>
               EntriesOf(view, id) \subseteq AddedOf(e, id)
      BY <2>1, <2>6 DEF Shows
    <3>2. ASSUME id \notin unseen[c], NoneOf(Coming(c)', id)
          PROVE  EntriesOf(view, id) = EntriesOf(book, id)
      <4>1. NoneOf(Coming(c), id) /\ id \notin Touched(d)  BY <2>2, <3>2 DEF NoneOf
      <4> QED  BY <1>11, <3>1, <3>2, <4>1
    <3>3. ASSUME NEW e \in Coming(c)', Latest(Coming(c)', id, e), ~Takes(e, id)
          PROVE  EntriesOf(view, id) \subseteq AddedOf(e, id)
      <4>1. CASE id \in Touched(d)
        <5>1. d.slot <= e.slot  BY <2>2, <3>3, <4>1 DEF Latest
        <5>2. e = d  BY <1>8, <2>2, <2>3, <5>1
        <5>3. d \in Unreceived  BY <1>6
        <5> QED  BY <2>1, <2>6, <3>3, <4>1, <5>2, <5>3 DEF Fresh
      <4>2. CASE id \notin Touched(d)
        <5>1. e \in Coming(c) /\ Latest(Coming(c), id, e)  BY <2>2, <3>3, <4>2 DEF Latest
        <5> QED  BY <3>1, <3>3, <5>1
      <4> QED  BY <4>1, <4>2
    <3> QED  BY <3>2, <3>3
  <2> QED  BY <2>5, <2>8, <2>9, <2>10, <2>11 DEF SocketInv
<1> QED  BY <1>14, <1>15, <1>16, <1>17, <1>18, <1>19, <1>20 DEF FeedInv

\* What is left of a state when its diffs are fewer and its sockets are others.
LEMMA StepKeeps ==
  ASSUME FeedInv, UNCHANGED <<chain, outbox, backend, receiver, stream, orderbook, upto, lost>>,
         ob_channel' \in Nat, inserted' \in Seq(Diffs), Len(inserted') <= 1,
         ToSet(inserted') \subseteq ToSet(inserted), backend = "boot" => inserted' = << >>,
         \A c \in Clients : ToSet(client'[c].rx) \subseteq ToSet(client[c].rx) \cup ToSet(inserted),
         client' = [c \in Clients |-> client'[c]], unseen' = [c \in Clients |-> unseen'[c]],
         \A c \in Clients : SocketInv(c)'
  PROVE  FeedInv'
<1>1. TableInv /\ DiffInv /\ ServerTypes /\ BookInv /\ InSnapshot /\ MemoryInv /\ SocketsInv
  BY DEF FeedInv
<1> USE DEF chain
<1>2. Unreceived' = Unreceived /\ InFlight' \subseteq InFlight  BY DEF Unreceived, InFlight
<1>3. TableInv'  BY <1>1 DEF TableInv
<1>4. DiffInv'
  <2>1. \A e : KnownDiff(e)' <=> KnownDiff(e)  BY DEF KnownDiff
  <2>2. \A d \in InFlight' : KnownDiff(d)'  BY <1>1, <1>2, <2>1 DEF DiffInv
  <2>3. \A d, e \in InFlight' :
          /\ d.slot = e.slot => d = e
          /\ \A id \in Touched(d) \cap Touched(e) : ~Takes(d, id) => d.slot <= e.slot
    BY <1>1, <1>2 DEF DiffInv
  <2> QED  BY <2>2, <2>3 DEF DiffInv
<1>5. ServerTypes'  BY <1>1 DEF ServerTypes
<1>6. BookInv'
  <2>1. KnownBook(orderbook)'  BY <1>1 DEF BookInv, KnownBook
  <2>2. Fresh(orderbook)'  BY <1>1, <1>2 DEF BookInv, Fresh
  <2>3. OrderInv'  BY <1>1, <1>2 DEF BookInv, OrderInv
  <2>4. \A id : TableOf(id)' = TableOf(id)  BY DEF TableOf
  <2>5. Tells'  BY <1>1, <2>4 DEF BookInv, Tells
  <2> QED  BY <2>1, <2>2, <2>3, <2>5 DEF BookInv
<1>7. InSnapshot'  BY <1>1, <1>2 DEF InSnapshot
<1>8. MemoryInv'  BY <1>1, <1>2 DEF MemoryInv, Serving, TableOf
<1>9. SocketsInv'  BY DEF SocketsInv
<1> QED  BY <1>3, <1>4, <1>5, <1>6, <1>7, <1>8, <1>9 DEF FeedInv

LEMMA SendKeeps ==
  ASSUME FeedInv, Send
  PROVE  FeedInv'
<1>1. TableInv /\ DiffInv /\ ServerTypes /\ BookInv /\ SocketsInv
  BY DEF FeedInv
<1>2. PICK d : d = Head(inserted)  OBVIOUS
<1>3. /\ inserted # << >> /\ inserted' = << >>
      /\ client' = [c \in Clients |-> IF Subscribed(c) THEN Pushed(client[c], d) ELSE client[c]]
      /\ unseen' = [c \in Clients |->
             IF Subscribed(c) THEN unseen[c] \ Touched(d)
             ELSE IF client[c].step \in {"away", "gone"} \/ client[c].view.slot = d.slot
                  THEN unseen[c] ELSE unseen[c] \cup Touched(d)]
      /\ UNCHANGED <<chain, outbox, backend, receiver, stream, orderbook, ob_channel, upto, lost>>
  BY <1>2 DEF Send
<1> USE DEF chain
<1>4. d \in Diffs /\ ToSet(inserted) = {d} /\ ToSet(inserted') = {} /\ Len(inserted') = 0
      /\ inserted' \in Seq(Diffs)
  <2>1. << >> \in Seq(Diffs)  OBVIOUS
  <2> QED  BY <1>1, <1>2, <1>3, <2>1, QueueOne, QueueNone DEF ServerTypes
<1>5. d.slot = orderbook.slot /\ d.slot \in Nat /\ KnownDiff(d)
  BY <1>1, <1>4, SlotsAre DEF BookInv, OrderInv
<1>6. Touched(d) \subseteq OrderIds
  <2>1. Touched(d) \subseteq DOMAIN live_orders  BY <1>5 DEF KnownDiff
  <2> QED  BY <1>1, <2>1, RowsAre
<1>7. Unreceived' = Unreceived  BY <1>3 DEF Unreceived
<1>8. Cap \in Nat /\ Cap >= 1  BY FeedAssumption DEF FeedAssumption
<1>9. ASSUME NEW c \in Clients
      PROVE  SocketInv(c)' /\ ToSet(client'[c].rx) \subseteq ToSet(client[c].rx) \cup ToSet(inserted)
  <2>1. /\ SocketTypes(c) /\ KnownBook(client[c].view) /\ Fresh(client[c].view)
        /\ SocketOrder(c) /\ CatchesUp(c) /\ Shows(c)
    BY <1>1 DEF SocketsInv, SocketInv
  <2>2. PICK socket, next, rx, view :
          /\ socket = client[c] /\ next = client'[c] /\ rx = socket.rx /\ view = socket.view
    OBVIOUS
  <2>3. /\ socket \in SocketRecords /\ rx \in Seq(Diffs) /\ Len(rx) <= Cap /\ Rises(rx)
        /\ \A e \in ToSet(rx) : e.slot < d.slot /\ e.slot <= orderbook.slot /\ e.slot \in Nat
    <3>1. \A e \in ToSet(rx) : e.slot \in Nat  BY <2>2, SlotsAre
    <3> QED  BY <1>4, <2>1, <2>2, <3>1 DEF SocketTypes, SocketRecords, SocketOrder
  <2>4. Coming(c) = ToSet(rx) \cup {d}  BY <1>4, <2>2 DEF Coming
  <2>5. KnownBook(view)' /\ Fresh(view)'
    <3>1. KnownBook(view) /\ Fresh(view)  BY <2>1, <2>2
    <3>2. KnownBook(view)'  BY <1>3, <3>1 DEF KnownBook
    <3>3. Fresh(view)'  BY <1>4, <1>7, <3>1 DEF Fresh
    <3> QED  BY <3>2, <3>3
  <2>6. CASE Subscribed(c)
    <3>1. /\ next = Pushed(socket, d) /\ unseen'[c] = unseen[c] \ Touched(d)
          /\ socket.step = "listening"
      BY <1>3, <2>2, <2>6 DEF Subscribed
    <3>2. PICK rest, lagged :
            /\ next = [socket EXCEPT !.rx = Append(rest, d), !.lagged = lagged]
            /\ rest \in Seq(Diffs) /\ Len(rest) < Cap /\ Rises(rest)
            /\ ToSet(rest) \subseteq ToSet(rx)
            /\ lagged \in BOOLEAN /\ (~lagged => ~socket.lagged /\ ToSet(rest) = ToSet(rx))
            /\ \A e \in ToSet(rx) \ ToSet(rest) : \A f \in ToSet(rest) : e.slot < f.slot
      <4>1. CASE Len(rx) < Cap
        <5>1. next = [socket EXCEPT !.rx = Append(rx, d)]
          BY <2>2, <3>1, <4>1 DEF Pushed
        <5>2. [socket EXCEPT !.rx = Append(rx, d)]
                = [socket EXCEPT !.rx = Append(rx, d), !.lagged = socket.lagged]
          BY <2>3 DEF SocketRecords
        <5>3. socket.lagged \in BOOLEAN  BY <2>3 DEF SocketRecords
        <5> QED  BY <2>3, <4>1, <5>1, <5>2, <5>3
      <4>2. CASE ~(Len(rx) < Cap)
        <5>1. next = [socket EXCEPT !.rx = Append(Tail(rx), d), !.lagged = TRUE]
          BY <2>2, <3>1, <4>2 DEF Pushed
        <5>2. Len(rx) \in Nat  BY <2>3, LenProperties
        <5>3. rx # << >>  BY <1>8, <4>2, <5>2, QueueNone
        <5>4. /\ Tail(rx) \in Seq(Diffs) /\ Len(Tail(rx)) = Len(rx) - 1 /\ Rises(Tail(rx))
              /\ ToSet(rx) = {Head(rx)} \cup ToSet(Tail(rx))
              /\ \A e \in ToSet(Tail(rx)) : Head(rx).slot < e.slot
          BY <2>3, <5>3, QueueTail
        <5>5. Len(Tail(rx)) < Cap  BY <1>8, <2>3, <5>2, <5>4
        <5> QED  BY <5>1, <5>4, <5>5
      <4> QED  BY <4>1, <4>2
    <3>3. PICK queue : queue = Append(rest, d)  OBVIOUS
    <3>4. /\ queue \in Seq(Diffs) /\ Len(queue) <= Cap /\ ToSet(queue) = ToSet(rest) \cup {d}
          /\ Rises(queue)
      <4>1. Len(rest) \in Nat  BY <3>2, LenProperties
      <4>2. \A e \in ToSet(rest) : e.slot < d.slot  BY <2>3, <3>2
      <4> QED  BY <1>4, <1>8, <3>2, <3>3, <4>1, <4>2, QueueAppend
    <3>5. /\ next \in SocketRecords /\ next.rx = queue /\ next.view = view
          /\ next.lagged = lagged /\ next.step = socket.step /\ next.channel = socket.channel
          /\ next.repeats = socket.repeats
      <4>1. PICK step, channel, lagged_, repeats :
              /\ socket = [step |-> step, channel |-> channel, rx |-> rx, lagged |-> lagged_,
                           repeats |-> repeats, view |-> view]
              /\ step \in SocketSteps /\ channel \in Nat /\ repeats \in Nat /\ view \in States
        BY <2>2, <2>3 DEF SocketRecords
      <4>2. next = [step |-> step, channel |-> channel, rx |-> queue, lagged |-> lagged,
                    repeats |-> repeats, view |-> view]
        BY <3>2, <3>3, <4>1
      <4>3. next \in SocketRecords  BY <3>2, <3>4, <4>1, <4>2 DEF SocketRecords
      <4> QED  BY <4>1, <4>2, <4>3
    <3> HIDE <3>2
    <3>6. /\ ToSet(queue) \subseteq Coming(c) /\ Coming(c)' = ToSet(queue)
          /\ ToSet(queue) \subseteq ToSet(rx) \cup {d}
      BY <1>4, <2>2, <2>4, <3>2, <3>4, <3>5 DEF Coming
    <3>7. Joined(c) /\ next.step = "listening"  BY <2>6, <3>1, <3>5 DEF Joined
    <3>8. SocketTypes(c)'
      <4>1. unseen'[c] \subseteq OrderIds /\ next.repeats <= Cap /\ backend # "boot"
        BY <2>1, <2>2, <3>1, <3>5 DEF SocketTypes
      <4> QED  BY <1>3, <2>2, <3>4, <3>5, <3>7, <4>1 DEF SocketTypes
    <3>9. SocketOrder(c)'
      <4>1. \A e \in ToSet(queue) : e.slot <= orderbook.slot
        BY <1>5, <2>3, <3>6
      <4> QED  BY <1>3, <1>4, <2>2, <3>4, <3>5, <3>7, <4>1 DEF SocketOrder
    <3>10. ASSUME NEW id, NEW e \in ToSet(queue), Latest(ToSet(queue), id, e)
           PROVE  e \in Coming(c) /\ Latest(Coming(c), id, e)
      <4>1. \A f \in Coming(c) \ ToSet(queue) : f.slot <= e.slot
        <5>1. \A f \in Coming(c) \ ToSet(queue) : f \in ToSet(rx) \ ToSet(rest)
          BY <2>4, <3>4
        <5>2. e \in ToSet(rest) \/ e = d  BY <3>4
        <5>3. \A f \in ToSet(rx) : f.slot \in Nat /\ f.slot < d.slot  BY <2>3
        <5>4. e.slot \in Nat  BY <1>5, <2>3, <3>2, <5>2
        <5> QED  BY <1>5, <3>2, <5>1, <5>2, <5>3, <5>4
      <4> QED  BY <3>6, <3>10, <4>1 DEF Latest
    <3>11. CatchesUp(c)'
      <4> SUFFICES ASSUME NEW id \in OrderIds, NEW e \in ToSet(queue), Latest(ToSet(queue), id, e)
                   PROVE  AddedOf(e, id) = EntriesOf(orderbook, id)
        BY <1>3, <3>6 DEF CatchesUp
      <4>1. e \in Coming(c) /\ Latest(Coming(c), id, e)  BY <3>10
      <4> QED  BY <2>1, <3>7, <4>1 DEF CatchesUp
    <3>12. Shows(c)'
      <4> SUFFICES ASSUME ~lagged, NEW id \in OrderIds
                   PROVE  /\ id \notin unseen'[c] /\ NoneOf(ToSet(queue), id) =>
                               EntriesOf(view, id) = EntriesOf(orderbook, id)
                          /\ \A e \in ToSet(queue) : Latest(ToSet(queue), id, e) /\ ~Takes(e, id) =>
                               EntriesOf(view, id) \subseteq AddedOf(e, id)
        BY <1>3, <2>2, <3>5, <3>6 DEF Shows
      <4>1. ~socket.lagged /\ ToSet(queue) = Coming(c)  BY <2>4, <3>2, <3>4
      <4>2. /\ id \notin unseen[c] /\ NoneOf(Coming(c), id) =>
                 EntriesOf(view, id) = EntriesOf(orderbook, id)
            /\ \A e \in Coming(c) : Latest(Coming(c), id, e) /\ ~Takes(e, id) =>
                 EntriesOf(view, id) \subseteq AddedOf(e, id)
        BY <2>1, <2>2, <3>7, <4>1 DEF Shows
      <4>3. NoneOf(Coming(c), id) => id \notin Touched(d)  BY <2>4 DEF NoneOf
      <4> QED  BY <3>1, <4>1, <4>2, <4>3
    <3>13. KnownBook(client[c].view)' /\ Fresh(client[c].view)'  BY <2>2, <2>5, <3>5
    <3>14. ToSet(client'[c].rx) \subseteq ToSet(client[c].rx) \cup ToSet(inserted)
      BY <1>4, <2>2, <3>5, <3>6
    <3> QED  BY <3>8, <3>9, <3>11, <3>12, <3>13, <3>14 DEF SocketInv
  <2>7. CASE ~Subscribed(c)
    <3>1. /\ client'[c] = client[c]
          /\ unseen'[c] = (IF client[c].step \in {"away", "gone"} \/ client[c].view.slot = d.slot
                           THEN unseen[c] ELSE unseen[c] \cup Touched(d))
      BY <1>3, <2>7
    <3>2. SocketTypes(c)'
      <4>1. unseen'[c] \subseteq OrderIds  BY <1>6, <2>1, <3>1 DEF SocketTypes
      <4> QED  BY <1>3, <2>1, <3>1, <4>1 DEF SocketTypes
    <3>3. SocketOrder(c)'  BY <1>3, <1>4, <2>1, <3>1 DEF SocketOrder
    <3>4. Joined(c)' => Joined(c) /\ client[c].step \in {"opened", "create"}
      BY <1>3, <2>7, <3>1 DEF Joined, Subscribed
    <3>5. Joined(c)' => Coming(c)' = {}
      <4>1. client[c].step \in {"opened", "create"} => rx = << >>
        BY <2>1, <2>2 DEF SocketTypes
      <4> QED  BY <1>4, <2>2, <3>1, <3>4, <4>1, QueueNone DEF Coming
    <3>6. CatchesUp(c)'  BY <3>5 DEF CatchesUp
    <3>7. Shows(c)'
      <4> SUFFICES ASSUME Joined(c)', ~client[c].lagged, NEW id \in OrderIds, id \notin unseen'[c]
                   PROVE  EntriesOf(view, id) = EntriesOf(orderbook, id)
        BY <1>3, <2>2, <3>1, <3>5 DEF Shows
      <4>1. Joined(c) /\ client[c].step \in {"opened", "create"}  BY <3>4
      <4>2. CASE view.slot = d.slot
        BY <1>5, <2>1, <2>2, <4>1, <4>2 DEF SocketOrder
      <4>3. CASE view.slot # d.slot
        <5>1. unseen'[c] = unseen[c] \cup Touched(d)  BY <2>2, <3>1, <4>1, <4>3
        <5>2. rx = << >>  BY <2>1, <2>2, <4>1 DEF SocketTypes
        <5>3. Coming(c) = {d}  BY <2>4, <5>2, QueueNone
        <5>4. NoneOf(Coming(c), id)  BY <5>1, <5>3 DEF NoneOf
        <5> QED  BY <2>1, <2>2, <4>1, <5>1, <5>4 DEF Shows
      <4> QED  BY <4>2, <4>3
    <3>8. KnownBook(client[c].view)' /\ Fresh(client[c].view)'  BY <2>2, <2>5, <3>1
    <3> QED  BY <3>1, <3>2, <3>3, <3>6, <3>7, <3>8 DEF SocketInv
  <2> QED  BY <2>6, <2>7
<1>10. client' = [c \in Clients |-> client'[c]] /\ unseen' = [c \in Clients |-> unseen'[c]]
  BY <1>3
<1>11. ob_channel' \in Nat  BY <1>1, <1>3 DEF ServerTypes
<1>12. ToSet(inserted') \subseteq ToSet(inserted) /\ Len(inserted') <= 1  BY <1>4
<1> QED  BY <1>3, <1>4, <1>9, <1>10, <1>11, <1>12, StepKeeps

LEMMA RestartKeeps ==
  ASSUME FeedInv, Restart
  PROVE  FeedInv'
<1>1. TableInv /\ DiffInv /\ ServerTypes /\ BookInv /\ SocketsInv
  BY DEF FeedInv
<1>2. /\ backend' = "boot" /\ receiver' = "connecting" /\ stream' = << >> /\ inserted' = << >>
      /\ orderbook' = NoBook /\ ob_channel' = 0 /\ upto' = 0 /\ lost' = {}
      /\ client' = [c \in Clients |-> IF client[c].step = "away" THEN NewSocket ELSE GoneSocket]
      /\ unseen' = [c \in Clients |-> {}]
      /\ UNCHANGED <<chain, outbox>>
  BY DEF Restart
<1> USE DEF chain
<1>3. commits \in Nat  BY <1>1 DEF TableInv
<1>4. /\ NoBook \in States /\ NoBook.slot = 0 /\ InPriceOrder(NoBook) /\ Entries(NoBook) = {}
  BY NewStateProperties DEF NoBook, States
<1>5. \A id : EntriesOf(NoBook, id) = {}  BY <1>4 DEF EntriesOf
<1>6. ToSet(stream') = {} /\ ToSet(inserted') = {} /\ Rises(stream') /\ Len(inserted') = 0
      /\ stream' \in Seq(Diffs) /\ inserted' \in Seq(Diffs)
  <2>1. << >> \in Seq(Diffs)  OBVIOUS
  <2> QED  BY <1>2, <2>1, QueueNone
<1>7. ASSUME NEW c \in Clients
      PROVE  /\ client'[c] \in SocketRecords /\ client'[c].step \in {"away", "gone"}
             /\ client'[c].channel = 0 /\ client'[c].rx = << >> /\ client'[c].lagged = FALSE
             /\ client'[c].repeats = 0 /\ client'[c].view = NoBook /\ unseen'[c] = {}
  <2>1. PICK book, away :
          /\ book = NoBook
          /\ away = [step |-> "away", channel |-> 0, rx |-> << >>, lagged |-> FALSE,
                     repeats |-> 0, view |-> book]
    OBVIOUS
  <2>2. NewSocket = away  BY <2>1 DEF NewSocket
  <2>3. PICK gone : gone = [away EXCEPT !.step = "gone"]  OBVIOUS
  <2>4. GoneSocket = gone  BY <2>2, <2>3 DEF GoneSocket
  <2>5. PICK step, socket :
          /\ step \in {"away", "gone"} /\ socket = client'[c]
          /\ socket = [step |-> step, channel |-> 0, rx |-> << >>, lagged |-> FALSE,
                       repeats |-> 0, view |-> book]
    <3>1. client'[c] = away \/ client'[c] = gone  BY <1>2, <2>2, <2>4
    <3>2. gone = [step |-> "gone", channel |-> 0, rx |-> << >>, lagged |-> FALSE,
                  repeats |-> 0, view |-> book]
      BY <2>1, <2>3
    <3> QED  BY <2>1, <3>1, <3>2
  <2>6. << >> \in Seq(Diffs)  OBVIOUS
  <2>7. socket \in SocketRecords
    <3>1. book \in States /\ step \in SocketSteps  BY <1>4, <2>1, <2>5 DEF SocketSteps
    <3> QED  BY <2>5, <2>6, <3>1 DEF SocketRecords
  <2>8. unseen'[c] = {}  BY <1>2
  <2> QED  BY <2>1, <2>5, <2>7, <2>8
<1>8. Unreceived' = ToSet(outbox) /\ InFlight' = ToSet(outbox) /\ ToSet(outbox) \subseteq InFlight
  <2>1. Unreceived' = ToSet(outbox)  BY <1>2, <1>6 DEF Unreceived
  <2>2. \A c \in Clients : ToSet(client'[c].rx) = {}  BY <1>7, QueueNone
  <2>3. UNION {ToSet(client'[c].rx) : c \in Clients} = {}  BY <2>2
  <2>4. InFlight' = ToSet(outbox)  BY <1>6, <2>1, <2>3 DEF InFlight
  <2> QED  BY <2>1, <2>4 DEF InFlight, Unreceived
<1>9. \A d \in InFlight : KnownDiff(d) /\ d.slot \in Nat /\ d.slot > 0
  <2>1. \A d \in InFlight : d.slot \in 1..commits  BY <1>1 DEF DiffInv, KnownDiff
  <2> QED  BY <1>1, <1>3, <2>1 DEF DiffInv
<1>10. TableInv'  BY <1>1, <1>2 DEF TableInv
<1>11. DiffInv'
  <2>1. \A e : KnownDiff(e)' <=> KnownDiff(e)  BY <1>2 DEF KnownDiff
  <2>2. \A d \in InFlight' : KnownDiff(d)'  BY <1>8, <1>9, <2>1
  <2>3. \A d, e \in InFlight' :
          /\ d.slot = e.slot => d = e
          /\ \A id \in Touched(d) \cap Touched(e) : ~Takes(d, id) => d.slot <= e.slot
    BY <1>1, <1>8 DEF DiffInv
  <2> QED  BY <2>2, <2>3 DEF DiffInv
<1>12. ServerTypes'
  <2>1. upto' \in 0..commits'  BY <1>2, <1>3
  <2> QED  BY <1>1, <1>2, <1>6, <2>1 DEF ServerTypes
<1>13. KnownBook(NoBook)' /\ Fresh(NoBook)'
  <2>1. KnownBook(NoBook)'  BY <1>2, <1>3, <1>4 DEF KnownBook, Home
  <2>2. Fresh(NoBook)'  BY <1>5 DEF Fresh
  <2> QED  BY <2>1, <2>2
<1>14. BookInv'
  <2>1. OrderInv'  BY <1>2, <1>4, <1>6, <1>8, <1>9 DEF OrderInv
  <2>2. \A id : TableOf(id)' = TableOf(id)  BY <1>2 DEF TableOf
  <2>3. Tells'  BY <1>1, <1>2, <1>6, <2>2 DEF BookInv, Tells
  <2>4. KnownBook(orderbook)' /\ Fresh(orderbook)'  BY <1>2, <1>13
  <2> QED  BY <2>1, <2>3, <2>4 DEF BookInv
<1>15. InSnapshot'
  <2>1. \A d \in Unreceived' : ~(d.slot <= upto')  BY <1>2, <1>8, <1>9
  <2> QED  BY <2>1 DEF InSnapshot
<1>16. MemoryInv'  BY <1>2 DEF MemoryInv, Serving
<1>17. SocketsInv'
  <2>1. ASSUME NEW c \in Clients PROVE SocketInv(c)'
    <3>1. Rises(client'[c].rx) /\ ToSet(client'[c].rx) = {} /\ Len(client'[c].rx) = 0
      BY <1>7, QueueNone
    <3>2. Cap \in Nat  BY FeedAssumption DEF FeedAssumption
    <3>3. SocketTypes(c)'
      <4>1. unseen'[c] \subseteq OrderIds  BY <1>7
      <4>2. 0 <= Cap  BY <3>2
      <4>3. Len(client'[c].rx) <= Cap  BY <3>1, <4>2
      <4>4. client'[c].repeats <= Cap  BY <1>7, <4>2
      <4> QED  BY <1>7, <4>1, <4>3, <4>4 DEF SocketTypes
    <3>4. SocketOrder(c)'  BY <1>7, <3>1 DEF SocketOrder
    <3>5. ~Joined(c)'  BY <1>7 DEF Joined, Subscribed
    <3>6. CatchesUp(c)' /\ Shows(c)'  BY <3>5 DEF CatchesUp, Shows
    <3>7. KnownBook(client[c].view)' /\ Fresh(client[c].view)'  BY <1>7, <1>13
    <3> QED  BY <3>3, <3>4, <3>6, <3>7 DEF SocketInv
  <2>2. client' = [c \in Clients |-> client'[c]] /\ unseen' = [c \in Clients |-> unseen'[c]]
    BY <1>2
  <2> QED  BY <2>1, <2>2 DEF SocketsInv
<1> QED  BY <1>10, <1>11, <1>12, <1>14, <1>15, <1>16, <1>17 DEF FeedInv

-----------------------------------------------------------------------------
(* The steps of a socket *)

LEMMA SocketIs ==
  ASSUME NEW socket \in SocketRecords
  PROVE  \E step \in SocketSteps, channel \in Nat, rx \in Seq(Diffs), lagged \in BOOLEAN,
            repeats \in Nat, view \in States :
           socket = [step |-> step, channel |-> channel, rx |-> rx, lagged |-> lagged,
                     repeats |-> repeats, view |-> view]
BY DEF SocketRecords

\* A step of one socket, which puts no diff into its queue, is of no concern to the
\* others: a channel that takes the place of the old one is nobody else's.
LEMMA OneSocketKeeps ==
  ASSUME FeedInv, NEW c \in Clients, NEW socket, SocketStep(c, socket),
         ob_channel' = ob_channel \/ ob_channel' = NewChannel,
         unseen' = unseen \/ unseen' = [unseen EXCEPT ![c] = {}],
         ToSet(socket.rx) \subseteq ToSet(client[c].rx), SocketInv(c)'
  PROVE  FeedInv'
<1>1. TableInv /\ DiffInv /\ ServerTypes /\ BookInv /\ SocketsInv
  BY DEF FeedInv
<1>2. /\ client' = [client EXCEPT ![c] = socket]
      /\ UNCHANGED <<chain, outbox, backend, receiver, stream, inserted, orderbook, upto, lost>>
  BY DEF SocketStep
<1>3. /\ client = [k \in Clients |-> client[k]] /\ unseen = [k \in Clients |-> unseen[k]]
      /\ \A k \in Clients : SocketInv(k)
  BY <1>1 DEF SocketsInv
<1>4. /\ client' = [k \in Clients |-> client'[k]] /\ client'[c] = socket
      /\ \A k \in Clients : k # c => client'[k] = client[k]
  BY <1>2, <1>3
<1>5. /\ unseen' = [k \in Clients |-> unseen'[k]]
      /\ \A k \in Clients : k # c => unseen'[k] = unseen[k]
  <2>1. CASE unseen' = unseen  BY <1>3, <2>1
  <2>2. CASE unseen' = [unseen EXCEPT ![c] = {}]  BY <1>3, <2>2
  <2> QED  BY <2>1, <2>2
<1>6. \A k \in Clients : ToSet(client'[k].rx) \subseteq ToSet(client[k].rx) \cup ToSet(inserted)
  BY <1>4
<1>7. ob_channel' \in Nat /\ \A k \in Clients : ob_channel' = client[k].channel
                                                 => ob_channel = client[k].channel
  BY <1>1, NewChannelIs DEF ServerTypes
<1> USE DEF chain
<1>8. Unreceived' = Unreceived  BY <1>2 DEF Unreceived
<1>9. ASSUME NEW k \in Clients PROVE SocketInv(k)'
  <2>1. CASE k = c  BY <2>1
  <2>2. CASE k # c
    <3>1. /\ SocketTypes(k) /\ KnownBook(client[k].view) /\ Fresh(client[k].view)
          /\ SocketOrder(k) /\ CatchesUp(k) /\ Shows(k)
      BY <1>3 DEF SocketInv
    <3>2. client'[k] = client[k] /\ unseen'[k] = unseen[k]  BY <1>4, <1>5, <2>2
    <3>3. SocketTypes(k)'  BY <1>2, <3>1, <3>2 DEF SocketTypes
    <3>4. SocketOrder(k)'  BY <1>2, <3>1, <3>2 DEF SocketOrder
    <3>5. Joined(k)' => Joined(k)  BY <1>7, <3>2 DEF Joined, Subscribed
    <3>6. Coming(k)' = Coming(k)  BY <1>2, <3>2 DEF Coming
    <3>7. CatchesUp(k)'  BY <1>2, <3>1, <3>5, <3>6 DEF CatchesUp
    <3>8. Shows(k)'  BY <1>2, <3>1, <3>2, <3>5, <3>6 DEF Shows
    <3>9. PICK view : view = client[k].view  OBVIOUS
    <3>10. KnownBook(view)' /\ Fresh(view)'
      <4>1. KnownBook(view) /\ Fresh(view)  BY <3>1, <3>9
      <4> QED  BY <1>2, <1>8, <4>1 DEF KnownBook, Fresh
    <3>11. KnownBook(client[k].view)' /\ Fresh(client[k].view)'  BY <3>2, <3>9, <3>10
    <3> QED  BY <3>3, <3>4, <3>7, <3>8, <3>11 DEF SocketInv
  <2> QED  BY <2>1, <2>2
<1>10. /\ inserted' \in Seq(Diffs) /\ Len(inserted') <= 1 /\ ToSet(inserted') \subseteq ToSet(inserted)
       /\ backend = "boot" => inserted' = << >>
  BY <1>1, <1>2 DEF ServerTypes
<1> QED  BY <1>2, <1>4, <1>5, <1>6, <1>7, <1>9, <1>10, StepKeeps

\* What a socket's step leaves alone.
LEMMA AroundSocket ==
  ASSUME FeedInv, NEW c \in Clients, NEW socket, SocketStep(c, socket)
  PROVE  /\ client'[c] = socket /\ unseen = [k \in Clients |-> unseen[k]]
         /\ inserted' = inserted /\ orderbook' = orderbook /\ backend' = backend
         /\ \A book : /\ KnownBook(book) => KnownBook(book)'
                      /\ Fresh(book) => Fresh(book)'
         /\ client[c] \in SocketRecords
         /\ SocketTypes(c) /\ KnownBook(client[c].view) /\ Fresh(client[c].view)
         /\ SocketOrder(c) /\ CatchesUp(c) /\ Shows(c)
<1>1. /\ client = [k \in Clients |-> client[k]] /\ unseen = [k \in Clients |-> unseen[k]]
      /\ SocketTypes(c) /\ KnownBook(client[c].view) /\ Fresh(client[c].view)
      /\ SocketOrder(c) /\ CatchesUp(c) /\ Shows(c)
  BY DEF FeedInv, SocketsInv, SocketInv
<1>2. /\ client' = [client EXCEPT ![c] = socket]
      /\ UNCHANGED <<chain, outbox, backend, stream, inserted, orderbook>>
  BY DEF SocketStep
<1>3. client'[c] = socket  BY <1>1, <1>2
<1>4. \A book : KnownBook(book) => KnownBook(book)'  BY <1>2 DEF KnownBook, chain
<1>5. \A book : Fresh(book) => Fresh(book)'  BY <1>2 DEF Fresh, Unreceived
<1>6. client[c] \in SocketRecords  BY <1>1 DEF SocketTypes
<1> QED  BY <1>1, <1>2, <1>3, <1>4, <1>5, <1>6

LEMMA OpenKeeps ==
  ASSUME FeedInv, NEW c \in Clients, Open(c)
  PROVE  FeedInv'
<1>1. PICK socket : socket = [client[c] EXCEPT !.step = "opened", !.view = orderbook]  OBVIOUS
<1>2. Serving /\ client[c].step = "away" /\ SocketStep(c, socket) /\ unseen' = unseen
      /\ ob_channel' = ob_channel
  BY <1>1 DEF Open
<1>3. /\ client'[c] = socket /\ inserted' = inserted /\ orderbook' = orderbook
      /\ backend' = backend /\ client[c] \in SocketRecords /\ SocketTypes(c)
      /\ KnownBook(orderbook) => KnownBook(orderbook)'
      /\ Fresh(orderbook) => Fresh(orderbook)'
  BY <1>2, AroundSocket
<1>4. BookInv /\ ServerTypes  BY DEF FeedInv
<1>5. KnownBook(orderbook)' /\ Fresh(orderbook)'  BY <1>3, <1>4 DEF BookInv
<1>6. orderbook \in States  BY <1>4 DEF BookInv, KnownBook
<1>7. /\ client[c].channel = 0 /\ client[c].rx = << >> /\ client[c].lagged = FALSE
      /\ client[c].repeats = 0 /\ unseen[c] \subseteq OrderIds
  BY <1>2, <1>3 DEF SocketTypes, SocketRecords
<1>8. PICK old, book : old = client[c] /\ book = orderbook  OBVIOUS
<1>9. PICK view :
        old = [step |-> "away", channel |-> 0, rx |-> << >>, lagged |-> FALSE,
               repeats |-> 0, view |-> view]
  <2>1. old \in SocketRecords  BY <1>3, <1>8
  <2>2. PICK step, channel, rx, lagged, repeats, view :
          old = [step |-> step, channel |-> channel, rx |-> rx, lagged |-> lagged,
                 repeats |-> repeats, view |-> view]
    BY <2>1, SocketIs
  <2> QED  BY <1>2, <1>7, <1>8, <2>2
<1>10. socket = [step |-> "opened", channel |-> 0, rx |-> << >>, lagged |-> FALSE,
                 repeats |-> 0, view |-> book]
  <2>1. socket = [old EXCEPT !.step = "opened", !.view = book]  BY <1>1, <1>8
  <2> QED  BY <1>9, <2>1
<1>11. /\ socket \in SocketRecords /\ socket.step = "opened" /\ socket.channel = 0
       /\ socket.rx = << >> /\ socket.lagged = FALSE /\ socket.repeats = 0
       /\ socket.view = orderbook
  <2>1. << >> \in Seq(Diffs) /\ "opened" \in SocketSteps  BY DEF SocketSteps
  <2> QED  BY <1>6, <1>8, <1>10, <2>1 DEF SocketRecords
<1>12. ToSet(socket.rx) = {} /\ Len(socket.rx) = 0 /\ Rises(socket.rx)  BY <1>11, QueueNone
<1>13. SocketTypes(c)'
  <2>1. Cap \in Nat  BY FeedAssumption DEF FeedAssumption
  <2>2. 0 <= Cap  BY <2>1
  <2>3. Len(socket.rx) <= Cap /\ socket.repeats <= Cap  BY <1>11, <1>12, <2>2
  <2> QED  BY <1>2, <1>3, <1>7, <1>11, <2>3 DEF SocketTypes, Serving
<1>14. SocketOrder(c)'
  <2>1. orderbook.slot \in Nat  BY SlotsAre
  <2>2. orderbook.slot <= orderbook.slot  BY <2>1
  <2> QED  BY <1>3, <1>11, <1>12, <2>2 DEF SocketOrder
<1>15. Coming(c)' = ToSet(inserted)  BY <1>3, <1>12 DEF Coming
<1>16. \A d \in ToSet(inserted) : \A id \in Touched(d) :
         EntriesOf(orderbook, id) = AddedOf(d, id)
  BY <1>4 DEF BookInv, Tells
<1>17. CatchesUp(c)'  BY <1>3, <1>15, <1>16 DEF CatchesUp, Latest
<1>18. Shows(c)'  BY <1>3, <1>11, <1>15, <1>16 DEF Shows, Latest
<1>19. KnownBook(client[c].view)' /\ Fresh(client[c].view)'
  <2>1. client'[c].view = orderbook'  BY <1>3, <1>11
  <2> QED  BY <1>5, <2>1
<1>20. SocketInv(c)'  BY <1>13, <1>14, <1>17, <1>18, <1>19 DEF SocketInv
<1>21. ToSet(socket.rx) \subseteq ToSet(client[c].rx)  BY <1>12
<1> QED  BY <1>2, <1>20, <1>21, OneSocketKeeps

\* Two sockets that differ at most in their places and channels.
Alike(socket, old) ==
  /\ socket \in SocketRecords /\ socket.rx = old.rx /\ socket.lagged = old.lagged
  /\ socket.repeats = old.repeats /\ socket.view = old.view

\* A socket that goes on to create a channel, and one that joins one.
Creating(old) == [old EXCEPT !.step = "create"]
Joining(old, channel) == [old EXCEPT !.step = "listening", !.channel = channel]

LEMMA Retold ==
  ASSUME NEW old \in SocketRecords
  PROVE  /\ Creating(old).step = "create" /\ Creating(old).channel = old.channel
         /\ Alike(Creating(old), old)
         /\ \A channel \in Nat : LET socket == Joining(old, channel)
                                 IN /\ socket.step = "listening" /\ socket.channel = channel
                                    /\ Alike(socket, old)
<1>1. PICK step \in SocketSteps, was \in Nat, rx \in Seq(Diffs), lagged \in BOOLEAN,
           repeats \in Nat, view \in States :
        old = [step |-> step, channel |-> was, rx |-> rx, lagged |-> lagged,
               repeats |-> repeats, view |-> view]
  BY SocketIs
<1>2. "create" \in SocketSteps /\ "listening" \in SocketSteps  BY DEF SocketSteps
<1>3. PICK socket : socket = Creating(old)  OBVIOUS
<1>4. socket = [step |-> "create", channel |-> was, rx |-> rx, lagged |-> lagged,
                repeats |-> repeats, view |-> view]
  BY <1>1, <1>3 DEF Creating
<1>5. socket.step = "create" /\ socket.channel = old.channel /\ Alike(socket, old)
  BY <1>1, <1>2, <1>4 DEF Alike, SocketRecords
<1>6. ASSUME NEW channel \in Nat, NEW next, next = Joining(old, channel)
      PROVE  next.step = "listening" /\ next.channel = channel /\ Alike(next, old)
  <2>1. next = [step |-> "listening", channel |-> channel, rx |-> rx, lagged |-> lagged,
                repeats |-> repeats, view |-> view]
    BY <1>1, <1>6 DEF Joining
  <2> QED  BY <1>1, <1>2, <2>1 DEF Alike, SocketRecords
<1> QED  BY <1>3, <1>5, <1>6

\* A socket that has no queue yet goes on to a channel.
LEMMA JoinKeeps ==
  ASSUME FeedInv, NEW c \in Clients, client[c].step \in {"opened", "create"}, unseen' = unseen,
         NEW socket, socket.step \in {"create", "listening"}, socket.channel \in Nat,
         socket.step # "listening" => socket.channel = 0,
         Alike(socket, client[c]), SocketStep(c, socket),
         ob_channel' = ob_channel \/ ob_channel' = NewChannel
  PROVE  FeedInv'
<1>1. /\ client'[c] = socket /\ inserted' = inserted /\ orderbook' = orderbook
      /\ backend' = backend /\ client[c] \in SocketRecords /\ SocketTypes(c)
      /\ SocketOrder(c) /\ CatchesUp(c) /\ Shows(c)
      /\ KnownBook(client[c].view) /\ Fresh(client[c].view)
  BY AroundSocket
<1>2. /\ client[c].rx = << >> /\ client[c].lagged = FALSE /\ client[c].repeats = 0
      /\ unseen[c] \subseteq OrderIds /\ backend # "boot"
  BY <1>1 DEF SocketTypes, SocketRecords
<1>3. /\ socket \in SocketRecords /\ socket.rx = << >> /\ socket.lagged = FALSE
      /\ socket.repeats = 0 /\ socket.view = client[c].view
  BY <1>1, <1>2 DEF Alike
<1>4. PICK view : view = client[c].view  OBVIOUS
<1>5. socket.view = view /\ client[c].view = view  BY <1>3, <1>4
<1>6. ToSet(socket.rx) = {} /\ Len(socket.rx) = 0 /\ Rises(socket.rx)  BY <1>3, QueueNone
<1>7. SocketTypes(c)'
  <2>1. Cap \in Nat  BY FeedAssumption DEF FeedAssumption
  <2>2. 0 <= Cap  BY <2>1
  <2>3. Len(socket.rx) <= Cap /\ socket.repeats <= Cap  BY <1>3, <1>6, <2>2
  <2> QED  BY <1>1, <1>2, <1>3, <2>3 DEF SocketTypes
<1>8. SocketOrder(c)'
  <2>1. /\ view.slot <= orderbook.slot
        /\ view.slot = orderbook.slot => view = orderbook
    BY <1>1, <1>5 DEF SocketOrder
  <2> QED  BY <1>1, <1>3, <1>5, <1>6, <2>1 DEF SocketOrder
<1>9. Joined(c) /\ Coming(c)' = Coming(c)  BY <1>1, <1>2, <1>3 DEF Joined, Coming
<1>10. CatchesUp(c)'  BY <1>1, <1>9 DEF CatchesUp
<1>11. Shows(c)'  BY <1>1, <1>2, <1>3, <1>5, <1>9 DEF Shows
<1>12. KnownBook(client[c].view)' /\ Fresh(client[c].view)'
  <2>1. KnownBook(view)' /\ Fresh(view)'  BY <1>1, <1>5, AroundSocket
  <2> QED  BY <1>1, <1>5, <2>1
<1>13. SocketInv(c)'  BY <1>7, <1>8, <1>10, <1>11, <1>12 DEF SocketInv
<1>14. ToSet(socket.rx) \subseteq ToSet(client[c].rx)  BY <1>6
<1> QED  BY <1>13, <1>14, OneSocketKeeps

LEMMA LookupKeeps ==
  ASSUME FeedInv, NEW c \in Clients, Lookup(c)
  PROVE  FeedInv'
<1>1. client[c] \in SocketRecords /\ client[c].step = "opened" /\ client[c].channel = 0
  BY DEF Lookup, FeedInv, SocketsInv, SocketInv, SocketTypes
<1>2. ob_channel \in Nat  BY DEF FeedInv, ServerTypes
<1>3. PICK old : old = client[c] /\ old \in SocketRecords  BY <1>1
<1>4. CASE ob_channel = 0
  <2>1. PICK socket : socket = Creating(old)  OBVIOUS
  <2>2. SocketStep(c, socket) /\ unseen' = unseen /\ ob_channel' = ob_channel
    BY <1>3, <1>4, <2>1 DEF Lookup, Creating
  <2>3. socket.step = "create" /\ socket.channel = old.channel /\ Alike(socket, old)
    BY <1>3, <2>1, Retold
  <2> QED  BY <1>1, <1>3, <2>2, <2>3, JoinKeeps
<1>5. CASE ob_channel # 0
  <2>1. PICK channel, socket :
          /\ channel = ob_channel /\ channel \in Nat
          /\ socket = Joining(old, channel)
    BY <1>2
  <2>2. SocketStep(c, socket) /\ unseen' = unseen /\ ob_channel' = ob_channel
    BY <1>3, <1>5, <2>1 DEF Lookup, Joining
  <2>3. old \in SocketRecords /\ channel \in Nat  BY <1>3, <2>1
  <2>4. socket.step = "listening" /\ socket.channel = channel /\ Alike(socket, old)
    BY <2>1, <2>3, Retold
  <2>5. Alike(socket, client[c]) /\ client[c].step = "opened"  BY <1>1, <1>3, <2>4
  <2> QED  BY <2>2, <2>3, <2>4, <2>5, JoinKeeps
<1> QED  BY <1>4, <1>5

LEMMA CreateKeeps ==
  ASSUME FeedInv, NEW c \in Clients, Create(c)
  PROVE  FeedInv'
<1>1. PICK channel, old : channel = NewChannel /\ old = client[c]  OBVIOUS
<1>2. channel \in Nat  BY <1>1, NewChannelIs
<1>3. PICK socket : socket = Joining(old, channel)
  OBVIOUS
<1>4. /\ SocketStep(c, socket) /\ unseen' = unseen /\ ob_channel' = NewChannel
      /\ client[c].step = "create"
  BY <1>1, <1>3 DEF Create, Joining
<1>5. old \in SocketRecords  BY <1>1 DEF FeedInv, SocketsInv, SocketInv, SocketTypes
<1>6. socket.step = "listening" /\ socket.channel = channel /\ Alike(socket, old)
  BY <1>2, <1>3, <1>5, Retold
<1> QED  BY <1>1, <1>2, <1>4, <1>6, JoinKeeps

\* A socket that ends has nothing and misses nothing.
LEMMA GoneKeeps ==
  ASSUME FeedInv, NEW c \in Clients, SocketStep(c, GoneSocket), ob_channel' = ob_channel,
         unseen' = [unseen EXCEPT ![c] = {}]
  PROVE  FeedInv'
<1>1. PICK gone : gone = GoneSocket  OBVIOUS
<1>2. /\ client'[c] = gone /\ inserted' = inserted /\ orderbook' = orderbook
      /\ backend' = backend /\ unseen = [k \in Clients |-> unseen[k]]
      /\ KnownBook(NoBook) => KnownBook(NoBook)'
      /\ Fresh(NoBook) => Fresh(NoBook)'
  BY <1>1, AroundSocket
<1>3. PICK book : book = NoBook  OBVIOUS
<1>4. book \in States /\ book.slot = 0 /\ InPriceOrder(book) /\ Entries(book) = {}
  BY <1>3, NewStateProperties DEF NoBook, States
<1>5. gone = [step |-> "gone", channel |-> 0, rx |-> << >>, lagged |-> FALSE,
              repeats |-> 0, view |-> book]
  <2>1. PICK away : away = [step |-> "away", channel |-> 0, rx |-> << >>, lagged |-> FALSE,
                            repeats |-> 0, view |-> book]
    OBVIOUS
  <2>2. NewSocket = away  BY <1>3, <2>1 DEF NewSocket
  <2>3. gone = [away EXCEPT !.step = "gone"]  BY <1>1, <2>2 DEF GoneSocket
  <2> QED  BY <2>1, <2>3
<1>6. /\ gone \in SocketRecords /\ gone.step = "gone" /\ gone.channel = 0
      /\ gone.rx = << >> /\ gone.lagged = FALSE /\ gone.repeats = 0 /\ gone.view = NoBook
  <2>1. << >> \in Seq(Diffs) /\ "gone" \in SocketSteps  BY DEF SocketSteps
  <2> QED  BY <1>3, <1>4, <1>5, <2>1 DEF SocketRecords
<1>7. KnownBook(NoBook)' /\ Fresh(NoBook)'
  <2>1. commits \in Nat  BY DEF FeedInv, TableInv
  <2>2. KnownBook(book)  BY <1>4, <2>1 DEF KnownBook, Home
  <2>3. \A id : EntriesOf(book, id) = {}  BY <1>4 DEF EntriesOf
  <2>4. Fresh(book)  BY <2>3 DEF Fresh
  <2> QED  BY <1>2, <1>3, <2>2, <2>4
<1>8. ToSet(gone.rx) = {} /\ Len(gone.rx) = 0 /\ Rises(gone.rx)  BY <1>6, QueueNone
<1>9. unseen'[c] = {}  BY <1>2
<1>10. SocketTypes(c)'
  <2>1. Cap \in Nat  BY FeedAssumption DEF FeedAssumption
  <2>2. 0 <= Cap  BY <2>1
  <2>3. Len(gone.rx) <= Cap /\ gone.repeats <= Cap  BY <1>6, <1>8, <2>2
  <2>4. unseen'[c] \subseteq OrderIds  BY <1>9
  <2> QED  BY <1>2, <1>6, <2>3, <2>4 DEF SocketTypes
<1>11. SocketOrder(c)'  BY <1>2, <1>6, <1>8 DEF SocketOrder
<1>12. ~Joined(c)'  BY <1>2, <1>6 DEF Joined, Subscribed
<1>13. CatchesUp(c)' /\ Shows(c)'  BY <1>12 DEF CatchesUp, Shows
<1>14. KnownBook(client[c].view)' /\ Fresh(client[c].view)'  BY <1>2, <1>6, <1>7
<1>15. SocketInv(c)'  BY <1>10, <1>11, <1>13, <1>14 DEF SocketInv
<1>16. ToSet(GoneSocket.rx) \subseteq ToSet(client[c].rx)  BY <1>1, <1>8
<1> QED  BY <1>15, <1>16, OneSocketKeeps

\* After a lag the browser gets the book that is there: the diffs still queued say
\* in the end what the book says.
LEMMA DeliverLaggedKeeps ==
  ASSUME FeedInv, NEW c \in Clients, DeliverLagged(c)
  PROVE  FeedInv'
<1>1. PICK n, book : n = Len(client[c].rx) /\ book = orderbook  OBVIOUS
<1>2. PICK socket : socket = [client[c] EXCEPT !.lagged = FALSE, !.repeats = n, !.view = book]
  OBVIOUS
<1>3. /\ client[c].step = "listening" /\ SocketStep(c, socket)
      /\ unseen' = [unseen EXCEPT ![c] = {}] /\ ob_channel' = ob_channel
  BY <1>1, <1>2 DEF DeliverLagged
<1>4. /\ client'[c] = socket /\ inserted' = inserted /\ orderbook' = orderbook
      /\ backend' = backend /\ unseen = [k \in Clients |-> unseen[k]]
      /\ client[c] \in SocketRecords /\ SocketTypes(c) /\ SocketOrder(c) /\ CatchesUp(c)
      /\ KnownBook(orderbook) => KnownBook(orderbook)'
      /\ Fresh(orderbook) => Fresh(orderbook)'
  BY <1>3, AroundSocket
<1>5. BookInv  BY DEF FeedInv
<1>6. KnownBook(orderbook)' /\ Fresh(orderbook)' /\ orderbook \in States
  BY <1>4, <1>5 DEF BookInv, KnownBook
<1>7. PICK old : old = client[c] /\ old \in SocketRecords /\ old.step = "listening"
  BY <1>3, <1>4
<1>8. PICK channel \in Nat, rx \in Seq(Diffs), lagged \in BOOLEAN,
           repeats \in Nat, view \in States :
        old = [step |-> "listening", channel |-> channel, rx |-> rx, lagged |-> lagged,
               repeats |-> repeats, view |-> view]
  <2>1. old \in SocketRecords  BY <1>7
  <2>2. PICK step \in SocketSteps, channel \in Nat, rx \in Seq(Diffs), lagged \in BOOLEAN,
             repeats \in Nat, view \in States :
          old = [step |-> step, channel |-> channel, rx |-> rx, lagged |-> lagged,
                 repeats |-> repeats, view |-> view]
    BY <2>1, SocketIs
  <2> QED  BY <1>7, <2>2
<1>9. old.rx = rx /\ old.channel = channel  BY <1>8
<1>10. n = Len(rx) /\ n \in Nat /\ n <= Cap
  <2>1. n = Len(rx)  BY <1>1, <1>7, <1>9
  <2>2. n <= Cap  BY <1>1, <1>4 DEF SocketTypes
  <2> QED  BY <2>1, <2>2, LenProperties
<1>11. socket = [step |-> "listening", channel |-> channel, rx |-> rx, lagged |-> FALSE,
                repeats |-> n, view |-> book]
  <2>1. socket = [old EXCEPT !.lagged = FALSE, !.repeats = n, !.view = book]  BY <1>2, <1>7
  <2>2. PICK x : x = [old EXCEPT !.lagged = FALSE]  OBVIOUS
  <2>3. x = [step |-> "listening", channel |-> channel, rx |-> rx, lagged |-> FALSE,
             repeats |-> repeats, view |-> view]
    BY <1>8, <2>2
  <2>4. PICK y : y = [x EXCEPT !.repeats = n]  OBVIOUS
  <2>5. y = [step |-> "listening", channel |-> channel, rx |-> rx, lagged |-> FALSE,
             repeats |-> n, view |-> view]
    BY <2>3, <2>4
  <2>6. socket = [y EXCEPT !.view = book]  BY <2>1, <2>2, <2>4
  <2> QED  BY <2>5, <2>6
<1>12. /\ socket \in SocketRecords /\ socket.step = "listening" /\ socket.rx = client[c].rx
       /\ socket.lagged = FALSE /\ socket.repeats = n /\ socket.view = orderbook
       /\ socket.channel = client[c].channel
  <2>1. "listening" \in SocketSteps  BY DEF SocketSteps
  <2> QED  BY <1>1, <1>6, <1>7, <1>10, <1>11, <1>9, <2>1 DEF SocketRecords
<1>13. unseen'[c] = {}  BY <1>3, <1>4
<1>14. SocketTypes(c)'
  <2>1. Len(socket.rx) <= Cap /\ socket.repeats <= Cap  BY <1>1, <1>10, <1>12
  <2>2. unseen'[c] \subseteq OrderIds /\ backend # "boot"  BY <1>3, <1>4, <1>13 DEF SocketTypes
  <2> QED  BY <1>4, <1>12, <2>1, <2>2 DEF SocketTypes
<1>15. SocketOrder(c)'  BY <1>4, <1>12 DEF SocketOrder
<1>16. Joined(c)' => Joined(c)  BY <1>3, <1>4, <1>12 DEF Joined, Subscribed
<1>17. Coming(c)' = Coming(c)  BY <1>4, <1>12 DEF Coming
<1>18. CatchesUp(c)'  BY <1>4, <1>16, <1>17 DEF CatchesUp
<1>19. Shows(c)'  BY <1>4, <1>12, <1>16, <1>17 DEF Shows, CatchesUp
<1>20. KnownBook(client[c].view)' /\ Fresh(client[c].view)'
  <2>1. client'[c].view = orderbook'  BY <1>4, <1>12
  <2> QED  BY <1>4, <1>6, <2>1
<1>21. SocketInv(c)'  BY <1>14, <1>15, <1>18, <1>19, <1>20 DEF SocketInv
<1>22. ToSet(socket.rx) \subseteq ToSet(client[c].rx)  BY <1>12
<1> QED  BY <1>3, <1>21, <1>22, OneSocketKeeps

\* The first diff of the queue is taken over.
LEMMA DeliverKeeps ==
  ASSUME FeedInv, NEW c \in Clients, Deliver(c)
  PROVE  FeedInv'
<1>1. PICK old : old = client[c]  OBVIOUS
<1>2. PICK h, book, less, socket :
        /\ h = Head(old.rx) /\ book = Apply(h, old.view)
        /\ less = (IF old.repeats = 0 THEN 0 ELSE old.repeats - 1)
        /\ socket = [old EXCEPT !.rx = Tail(@), !.repeats = less, !.view = book]
  OBVIOUS
<1>3. /\ old.step = "listening" /\ old.lagged = FALSE /\ old.rx # << >>
      /\ SocketStep(c, socket) /\ unseen' = unseen /\ ob_channel' = ob_channel
  <2>1. old.step = "listening" /\ ~old.lagged /\ old.rx # << >> /\ unseen' = unseen
        /\ ob_channel' = ob_channel
    BY <1>1 DEF Deliver
  <2>2. SocketStep(c, [old EXCEPT !.rx = Tail(@), !.repeats = IF @ = 0 THEN 0 ELSE @ - 1,
                                  !.view = Apply(Head(old.rx), @)])
    BY <1>1 DEF Deliver
  <2>3. old.lagged \in BOOLEAN
    BY <1>1 DEF FeedInv, SocketsInv, SocketInv, SocketTypes, SocketRecords
  <2> QED  BY <1>2, <2>1, <2>2, <2>3
<1>4. /\ client'[c] = socket /\ inserted' = inserted /\ orderbook' = orderbook
      /\ backend' = backend /\ old \in SocketRecords
      /\ SocketTypes(c) /\ KnownBook(old.view) /\ Fresh(old.view)
      /\ SocketOrder(c) /\ CatchesUp(c) /\ Shows(c)
  BY <1>1, <1>3, AroundSocket
<1>5. PICK channel \in Nat, rx \in Seq(Diffs), repeats \in Nat, view \in States :
        old = [step |-> "listening", channel |-> channel, rx |-> rx, lagged |-> FALSE,
               repeats |-> repeats, view |-> view]
  BY <1>3, <1>4, SocketIs
<1>6. /\ old.rx = rx /\ old.view = view /\ old.repeats = repeats /\ old.channel = channel
      /\ old.step = "listening" /\ old.lagged = FALSE
  BY <1>5
<1>7. PICK rest : rest = Tail(rx)  OBVIOUS
<1>8. Rises(rx) /\ rx # << >> /\ h = Head(rx) /\ book = Apply(h, view)
  BY <1>1, <1>2, <1>3, <1>4, <1>6 DEF SocketOrder
<1>9. /\ h \in ToSet(rx) /\ rest \in Seq(Diffs) /\ Len(rest) = Len(rx) - 1 /\ Rises(rest)
      /\ ToSet(rx) = {h} \cup ToSet(rest) /\ \A e \in ToSet(rest) : h.slot < e.slot
  BY <1>7, <1>8, QueueTail
<1>10. less \in Nat /\ less <= Cap
  <2>1. repeats <= Cap /\ Cap \in Nat
    BY <1>1, <1>4, <1>6, FeedAssumption DEF SocketTypes, FeedAssumption
  <2>2. less = IF repeats = 0 THEN 0 ELSE repeats - 1  BY <1>2, <1>6
  <2> QED  BY <2>1, <2>2
<1>11. /\ \A e \in ToSet(rx) : e.slot \in Nat /\ KnownDiff(e) /\ e.slot <= orderbook.slot /\ e \in InFlight
       /\ \A e \in Unreceived \cup ToSet(inserted) : e.slot \in Nat /\ e \in InFlight
       /\ \A e \in ToSet(rx), f \in ToSet(inserted) : e.slot < f.slot
       /\ orderbook.slot \in Nat
  <2>1. \A e \in ToSet(rx) : e \in InFlight  BY <1>1, <1>6 DEF InFlight
  <2>2. \A e \in Unreceived \cup ToSet(inserted) : e \in InFlight  BY DEF InFlight
  <2>3. /\ \A e \in InFlight : e.slot \in Nat /\ KnownDiff(e)
        /\ orderbook.slot \in Nat
    BY SlotsAre
  <2>4. /\ \A e \in ToSet(rx) : e.slot <= orderbook.slot
        /\ \A e \in ToSet(rx), f \in ToSet(inserted) : e.slot < f.slot
    BY <1>1, <1>4, <1>6 DEF SocketOrder
  <2> QED  BY <2>1, <2>2, <2>3, <2>4
<1>12. DiffInv /\ BookInv  BY DEF FeedInv
<1>13. /\ KnownBook(book)
       /\ \A id : id \notin Touched(h) => EntriesOf(book, id) = EntriesOf(view, id)
       /\ \A id \in Touched(h) :
            Takes(h, id) \/ EntriesOf(view, id) \subseteq AddedOf(h, id)
              => EntriesOf(book, id) = AddedOf(h, id)
  <2>1. KnownBook(view) /\ KnownDiff(h)  BY <1>4, <1>6, <1>9, <1>11
  <2> QED  BY <1>8, <2>1, TakesOver
\* What touches an order after the first diff takes it out.
<1>14. \A e \in InFlight : h.slot < e.slot => \A id \in Touched(h) \cap Touched(e) : Takes(e, id)
  <2> SUFFICES ASSUME NEW e \in InFlight, h.slot < e.slot, NEW id \in Touched(h) \cap Touched(e),
                      ~Takes(e, id)
               PROVE  FALSE
    OBVIOUS
  <2>1. h \in InFlight /\ h.slot \in Nat /\ e.slot \in Nat  BY <1>9, <1>11, SlotsAre
  <2>2. e.slot <= h.slot  BY <1>12, <2>1 DEF DiffInv
  <2> QED  BY <2>1, <2>2
<1>15. socket = [step |-> "listening", channel |-> channel, rx |-> rest, lagged |-> FALSE,
                 repeats |-> less, view |-> book]
  <2>1. socket = [old EXCEPT !.rx = rest, !.repeats = less, !.view = book]
    <3>1. socket = [old EXCEPT !.rx = Tail(old.rx), !.repeats = less, !.view = book]  BY <1>2
    <3> QED  BY <1>6, <1>7, <3>1
  <2>2. PICK x : x = [old EXCEPT !.rx = rest]  OBVIOUS
  <2>3. x = [step |-> "listening", channel |-> channel, rx |-> rest, lagged |-> FALSE,
             repeats |-> repeats, view |-> view]
    BY <1>5, <2>2
  <2>4. PICK y : y = [x EXCEPT !.repeats = less]  OBVIOUS
  <2>5. y = [step |-> "listening", channel |-> channel, rx |-> rest, lagged |-> FALSE,
             repeats |-> less, view |-> view]
    BY <2>3, <2>4
  <2>6. socket = [y EXCEPT !.view = book]  BY <2>1, <2>2, <2>4
  <2> QED  BY <2>5, <2>6
<1>16. /\ socket \in SocketRecords /\ socket.step = "listening" /\ socket.channel = old.channel
       /\ socket.rx = rest /\ socket.lagged = FALSE /\ socket.repeats = less
       /\ socket.view = book
  <2>1. "listening" \in SocketSteps /\ book \in States  BY <1>13 DEF SocketSteps, KnownBook
  <2> QED  BY <1>6, <1>9, <1>10, <1>15, <2>1 DEF SocketRecords
<1>17. SocketTypes(c)'
  <2>1. Len(rest) <= Cap
    <3>1. Len(rx) <= Cap /\ Cap \in Nat
      BY <1>1, <1>4, <1>6, FeedAssumption DEF SocketTypes, FeedAssumption
    <3>2. Len(rx) \in Nat  BY LenProperties
    <3> QED  BY <1>9, <3>1, <3>2
  <2>2. unseen'[c] \subseteq OrderIds /\ backend # "boot"
    BY <1>1, <1>3, <1>4 DEF SocketTypes
  <2> QED  BY <1>4, <1>10, <1>16, <2>1, <2>2 DEF SocketTypes
<1>18. SocketOrder(c)'  BY <1>4, <1>9, <1>11, <1>16 DEF SocketOrder
<1>19. Joined(c)' => Joined(c)  BY <1>1, <1>3, <1>4, <1>16 DEF Joined, Subscribed
<1>20. /\ Coming(c) = ToSet(rx) \cup ToSet(inserted)
       /\ Coming(c)' = ToSet(rest) \cup ToSet(inserted)
  BY <1>1, <1>4, <1>6, <1>16 DEF Coming
<1>21. /\ Coming(c) = {h} \cup Coming(c)'
       /\ \A e \in Coming(c)' : h.slot < e.slot /\ e.slot \in Nat /\ h.slot \in Nat /\ e \in InFlight
  <2>1. Coming(c) = {h} \cup Coming(c)'  BY <1>9, <1>20
  <2>2. \A e \in ToSet(rest) : h.slot < e.slot /\ e.slot \in Nat /\ e \in InFlight  BY <1>9, <1>11
  <2>3. \A e \in ToSet(inserted) : h.slot < e.slot /\ e.slot \in Nat /\ e \in InFlight
    BY <1>9, <1>11
  <2>4. h.slot \in Nat  BY <1>9, <1>11
  <2> QED  BY <1>20, <2>1, <2>2, <2>3, <2>4
<1>22. \A id, e : Latest(Coming(c)', id, e) => e \in Coming(c)' /\ Latest(Coming(c), id, e)
  <2> SUFFICES ASSUME NEW id, NEW e, Latest(Coming(c)', id, e)
               PROVE  e \in Coming(c)' /\ Latest(Coming(c), id, e)
    OBVIOUS
  <2>1. e \in Coming(c)' /\ id \in Touched(e)
        /\ \A f \in Coming(c)' : id \in Touched(f) => f.slot <= e.slot
    BY DEF Latest
  <2>2. h.slot <= e.slot  BY <1>21, <2>1
  <2> QED  BY <1>21, <2>1, <2>2 DEF Latest
<1>23. CatchesUp(c)'
  <2> SUFFICES ASSUME Joined(c), NEW id \in OrderIds, NEW e \in Coming(c)', Latest(Coming(c)', id, e)
               PROVE  AddedOf(e, id) = EntriesOf(orderbook, id)
    BY <1>4, <1>19 DEF CatchesUp
  <2>1. e \in Coming(c) /\ Latest(Coming(c), id, e)  BY <1>21, <1>22
  <2> QED  BY <1>4, <2>1 DEF CatchesUp
<1>24. Shows(c)'
  <2> SUFFICES ASSUME Joined(c), NEW id \in OrderIds
               PROVE  /\ id \notin unseen[c] /\ NoneOf(Coming(c)', id) =>
                           EntriesOf(book, id) = EntriesOf(orderbook, id)
                      /\ \A e \in Coming(c)' : Latest(Coming(c)', id, e) /\ ~Takes(e, id) =>
                           EntriesOf(book, id) \subseteq AddedOf(e, id)
    BY <1>3, <1>4, <1>16, <1>19 DEF Shows
  <2>1. /\ id \notin unseen[c] /\ NoneOf(Coming(c), id) =>
             EntriesOf(view, id) = EntriesOf(orderbook, id)
        /\ \A e \in Coming(c) : Latest(Coming(c), id, e) /\ ~Takes(e, id) =>
             EntriesOf(view, id) \subseteq AddedOf(e, id)
    BY <1>1, <1>4, <1>6 DEF Shows
  <2>2. ASSUME id \notin unseen[c], NoneOf(Coming(c)', id)
        PROVE  EntriesOf(book, id) = EntriesOf(orderbook, id)
    <3>1. CASE id \in Touched(h)
      <4>1. h \in Coming(c) /\ Latest(Coming(c), id, h)
        BY <1>9, <1>11, <1>21, <2>2, <3>1 DEF Latest, NoneOf
      <4>2. AddedOf(h, id) = EntriesOf(orderbook, id)  BY <1>4, <4>1 DEF CatchesUp
      <4>3. EntriesOf(book, id) = AddedOf(h, id)  BY <1>13, <2>1, <3>1, <4>1
      <4> QED  BY <4>2, <4>3
    <3>2. CASE id \notin Touched(h)
      <4>1. NoneOf(Coming(c), id)  BY <1>21, <2>2, <3>2 DEF NoneOf
      <4> QED  BY <1>13, <2>1, <2>2, <3>2, <4>1
    <3> QED  BY <3>1, <3>2
  <2>3. ASSUME NEW e \in Coming(c)', Latest(Coming(c)', id, e), ~Takes(e, id)
        PROVE  EntriesOf(book, id) \subseteq AddedOf(e, id)
    <3>1. e \in Coming(c) /\ Latest(Coming(c), id, e) /\ id \in Touched(e)
      BY <1>21, <1>22, <2>3 DEF Latest
    <3>2. id \notin Touched(h)  BY <1>14, <1>21, <2>3, <3>1
    <3> QED  BY <1>13, <2>1, <2>3, <3>1, <3>2
  <2> QED  BY <2>2, <2>3
<1>25. Fresh(book)
  <2> SUFFICES ASSUME NEW e \in Unreceived \cup ToSet(inserted), NEW id \in Touched(e), ~Takes(e, id)
               PROVE  EntriesOf(book, id) \subseteq AddedOf(e, id)
    BY DEF Fresh
  <2>1. e \in InFlight /\ e.slot \in Nat  BY <1>11
  <2>2. h.slot < e.slot
    <3>1. CASE e \in ToSet(inserted)  BY <1>9, <1>11, <3>1
    <3>2. CASE e \in Unreceived
      <4>1. h.slot <= orderbook.slot /\ h.slot \in Nat  BY <1>9, <1>11
      <4>2. orderbook.slot < e.slot  BY <1>12, <3>2 DEF BookInv, OrderInv
      <4> QED  BY <1>11, <2>1, <4>1, <4>2
    <3> QED  BY <3>1, <3>2
  <2>3. id \notin Touched(h)  BY <1>14, <2>1, <2>2
  <2>4. EntriesOf(view, id) \subseteq AddedOf(e, id)
    <3>1. Fresh(view)  BY <1>4, <1>6
    <3> QED  BY <3>1 DEF Fresh
  <2> QED  BY <1>13, <2>3, <2>4
<1>26. KnownBook(client[c].view)' /\ Fresh(client[c].view)'
  <2>1. KnownBook(book)' /\ Fresh(book)'  BY <1>3, <1>13, <1>25, AroundSocket
  <2> QED  BY <1>4, <1>16, <2>1
<1>27. SocketInv(c)'  BY <1>17, <1>18, <1>23, <1>24, <1>26 DEF SocketInv
<1>28. ToSet(socket.rx) \subseteq ToSet(client[c].rx)  BY <1>1, <1>6, <1>9, <1>16
<1> QED  BY <1>3, <1>27, <1>28, OneSocketKeeps

-----------------------------------------------------------------------------
(* The invariant is inductive *)

LEMMA MaxFillIs ==
  ASSUME OrderIds # {}
  PROVE  MaxFill \in Nat
<1> DEFINE S == {Menu[id].quantity : id \in OrderIds}
           f == [id \in OrderIds |-> Menu[id].quantity]
<1>1. Len(Menu) \in Nat  BY FeedAssumption, LenProperties DEF FeedAssumption
<1>2. IsFiniteSet(OrderIds)  BY <1>1, FS_Interval DEF OrderIds
<1>3. f \in Surjection(OrderIds, S)  BY DEF Surjection
<1>4. IsFiniteSet(S)
  <2> HIDE DEF f, S
  <2> QED  BY <1>2, <1>3, FS_Surjection
<1>5. S \subseteq Nat /\ S # {}  BY MenuOf
<1>6. Max(S) \in S
  <2> HIDE DEF S
  <2> QED  BY <1>4, <1>5, LatestExists
<1> QED  BY <1>5, <1>6 DEF MaxFill

LEMMA EventsKeep ==
  ASSUME FeedInv, Events
  PROVE  FeedInv'
<1>1. commits \in Nat /\ market \in {"none", "active", "settled"} /\ TableInv
  BY DEF FeedInv, TableInv
<1>2. CASE InitMarket \/ Settle
  <2>1. /\ market' \in {"none", "active", "settled"} /\ commits' = commits + 1
        /\ UNCHANGED <<live_orders, outbox, server, sockets>>
    BY <1>2 DEF InitMarket, Settle, Commit
  <2>2. commits' \in Nat /\ commits <= commits'  BY <1>1, <2>1
  <2> QED  BY <2>1, <2>2, MarketKeeps
<1>3. CASE PlaceOrder  BY <1>3, PlaceStores, StoreKeeps
<1>4. ASSUME NEW maker \in Listed(live_orders), NEW quantity \in 1..MaxFill, NEW taker,
             Match(maker, taker, quantity)
      PROVE  FeedInv'
  <2>1. maker \in OrderIds  BY <1>1, RowsAre DEF Listed
  <2>2. MaxFill \in Nat  BY <2>1, MaxFillIs
  <2>3. quantity \in Nat  BY <2>2
  <2> QED  BY <1>4, <2>3, MatchStores, StoreKeeps
<1>5. ASSUME NEW id \in Listed(live_orders), Cancel(id)
      PROVE  FeedInv'
  BY <1>5, CancelStores, StoreKeeps
<1> QED  BY <1>2, <1>3, <1>4, <1>5 DEF Events

LEMMA TasksKeep ==
  ASSUME FeedInv, Tasks
  PROVE  FeedInv'
<1>1. CASE Publish  BY <1>1, PublishKeeps
<1>2. CASE Bootstrap  BY <1>2, BootstrapKeeps
<1>3. CASE Subscribe  BY <1>3, SubscribeKeeps
<1>4. CASE Receive  BY <1>4, ReceiveKeeps
<1>5. CASE Send  BY <1>5, SendKeeps
<1>6. ASSUME NEW c \in Clients, Socket(c)
      PROVE  FeedInv'
  <2>1. CASE Lookup(c)  BY <2>1, LookupKeeps
  <2>2. CASE Create(c)  BY <2>2, CreateKeeps
  <2>3. CASE Deliver(c)  BY <2>3, DeliverKeeps
  <2>4. CASE DeliverLagged(c)  BY <2>4, DeliverLaggedKeeps
  <2>5. CASE EndOrphan(c)
    <3>1. /\ SocketStep(c, GoneSocket) /\ unseen' = [unseen EXCEPT ![c] = {}]
          /\ ob_channel' = ob_channel
      BY <2>5 DEF EndOrphan
    <3> QED  BY <3>1, GoneKeeps
  <2> QED  BY <1>6, <2>1, <2>2, <2>3, <2>4, <2>5 DEF Socket
<1> QED  BY <1>1, <1>2, <1>3, <1>4, <1>5, <1>6 DEF Tasks, Backend

LEMMA FeedStep == FeedInv /\ [Next]_vars => FeedInv'
<1> SUFFICES ASSUME FeedInv, [Next]_vars PROVE FeedInv'
  OBVIOUS
<1>1. CASE Events  BY <1>1, EventsKeep
<1>2. CASE Tasks  BY <1>2, TasksKeep
<1>3. ASSUME NEW c \in Clients, Open(c)
      PROVE  FeedInv'
  BY <1>3, OpenKeeps
<1>4. ASSUME NEW c \in Clients, Leave(c)
      PROVE  FeedInv'
  <2>1. /\ SocketStep(c, GoneSocket) /\ unseen' = [unseen EXCEPT ![c] = {}]
        /\ ob_channel' = ob_channel
    BY <1>4 DEF Leave
  <2> QED  BY <2>1, GoneKeeps
<1>5. CASE Unpublished  BY <1>5, UnpublishedKeeps
<1>6. CASE Disconnect  BY <1>6, DisconnectKeeps
<1>7. CASE Restart  BY <1>7, RestartKeeps
<1>8. CASE UNCHANGED vars
  <2>1. commits' = commits /\ market' = market
        /\ UNCHANGED <<live_orders, outbox, server, sockets>>
    BY <1>8 DEF vars, chain
  <2>2. /\ market' \in {"none", "active", "settled"}
        /\ commits' \in Nat /\ commits <= commits'
    BY <2>1 DEF FeedInv, TableInv
  <2> QED  BY <2>1, <2>2, MarketKeeps
<1> QED  BY <1>1, <1>2, <1>3, <1>4, <1>5, <1>6, <1>7, <1>8 DEF Next

THEOREM FeedCorrect == Spec => []FeedInv
BY FeedInit, FeedStep, PTL DEF Spec

-----------------------------------------------------------------------------
(* What the invariant says *)

LEMMA BooksAre ==
  ASSUME NEW book, KnownBook(book), commits \in Nat
  PROVE  book \in Books
<1>1. book \in [slot : Nat, orders : [Sides -> Seq(Orders)]] /\ book.slot <= commits
      /\ InPriceOrder(book)
  BY DEF KnownBook, States, StatesOf
<1>2. book.slot \in 0..commits  BY <1>1
<1>3. book \in [slot : 0..commits, orders : [Sides -> Seq(Orders)]]  BY <1>1, <1>2
<1> QED  BY <1>1, <1>3 DEF Books, Orders

LEMMA FeedTypes ==
  ASSUME FeedInv, twice \subseteq OrderIds, \A c \in Clients : again[c] \subseteq OrderIds
  PROVE  FeedTypeOK
<1>1. TableInv /\ ServerTypes /\ commits \in Nat  BY DEF FeedInv, TableInv
<1>2. DOMAIN live_orders \subseteq OrderIds  BY <1>1, RowsAre
<1>3. orderbook \in Books  BY <1>1, BooksAre DEF FeedInv, BookInv
<1>4. ASSUME NEW c \in Clients
      PROVE  /\ client[c].step \in {"away", "opened", "create", "listening", "gone"}
             /\ client[c].view \in Books /\ Len(client[c].rx) <= Cap
             /\ client[c].repeats \in 0..Cap /\ unseen[c] \subseteq OrderIds
  <2>1. SocketTypes(c) /\ KnownBook(client[c].view)  BY DEF FeedInv, SocketsInv, SocketInv
  <2>2. client[c].view \in Books  BY <1>1, <2>1, BooksAre
  <2>3. client[c].step \in SocketSteps /\ client[c].repeats \in Nat
    BY <2>1 DEF SocketTypes, SocketRecords
  <2>4. client[c].repeats <= Cap /\ Cap \in Nat
    BY <2>1, FeedAssumption DEF SocketTypes, FeedAssumption
  <2> QED  BY <2>1, <2>2, <2>3, <2>4 DEF SocketTypes, SocketSteps
<1> QED  BY <1>1, <1>2, <1>3, <1>4 DEF FeedTypeOK, TableInv, ServerTypes

LEMMA QueueJoin ==
  ASSUME NEW s \in Seq(Diffs), NEW t \in Seq(Diffs), Rises(s), Rises(t),
         \A d \in ToSet(s), e \in ToSet(t) : d.slot < e.slot
  PROVE  s \o t \in Seq(Diffs) /\ ToSet(s \o t) = ToSet(s) \cup ToSet(t) /\ Rises(s \o t)
<1> DEFINE n == Len(s)
           m == Len(t)
           u == s \o t
<1>1. n \in Nat /\ m \in Nat /\ DOMAIN s = 1..n /\ DOMAIN t = 1..m  BY LenProperties
<1>2. /\ u \in Seq(Diffs) /\ Len(u) = n + m
      /\ \A i \in 1..(n + m) : u[i] = IF i <= n THEN s[i] ELSE t[i - n]
  BY ConcatProperties
<1>3. DOMAIN u = 1..(n + m)  BY <1>2, LenProperties
<1> HIDE DEF n, m, u
<1>4. \A i \in 1..n : i \in 1..(n + m) /\ u[i] = s[i]  BY <1>1, <1>2
<1>5. \A i \in 1..m : i + n \in 1..(n + m) /\ ~(i + n <= n) /\ (i + n) - n = i  BY <1>1
<1>6. \A i \in 1..m : u[i + n] = t[i]  BY <1>2, <1>5
<1>7. \A i \in 1..(n + m) : i \in 1..n \/ (i - n \in 1..m /\ ~(i <= n))  BY <1>1
<1>8. \A i \in 1..(n + m) : u[i] = (IF i \in 1..n THEN s[i] ELSE t[i - n])
  <2> TAKE i \in 1..(n + m)
  <2>1. i \in 1..n <=> i <= n  BY <1>1
  <2> QED  BY <1>2, <2>1
<1>9. \A d : d \in ToSet(u) <=> \E i \in 1..(n + m) : d = u[i]  BY <1>3 DEF ToSet
<1>10. \A d : d \in ToSet(s) <=> \E i \in 1..n : d = s[i]  BY <1>1 DEF ToSet
<1>11. \A d : d \in ToSet(t) <=> \E i \in 1..m : d = t[i]  BY <1>1 DEF ToSet
<1>12. \A d : d \in ToSet(u) <=> d \in ToSet(s) \/ d \in ToSet(t)
  BY <1>4, <1>5, <1>6, <1>7, <1>8, <1>9, <1>10, <1>11
<1>13. ASSUME NEW i \in 1..(n + m), NEW j \in 1..(n + m), i < j
       PROVE  u[i].slot < u[j].slot
  <2>1. CASE i \in 1..n /\ j \in 1..n  BY <1>1, <1>4, <1>13, <2>1 DEF Rises
  <2>2. CASE i \in 1..n /\ j \notin 1..n
    <3>1. u[i] \in ToSet(s)  BY <1>4, <1>10, <2>2
    <3>2. u[j] \in ToSet(t)  BY <1>7, <1>8, <1>11, <2>2
    <3> QED  BY <3>1, <3>2
  <2>3. CASE i \notin 1..n
    <3>1. j \notin 1..n /\ i - n \in 1..m /\ j - n \in 1..m /\ i - n < j - n
      BY <1>1, <1>13, <2>3
    <3>2. u[i] = t[i - n] /\ u[j] = t[j - n]  BY <1>8, <2>3, <3>1
    <3> QED  BY <1>1, <3>1, <3>2 DEF Rises
  <2> QED  BY <2>1, <2>2, <2>3
<1>14. Rises(u)  BY <1>3, <1>13 DEF Rises
<1> QED  BY <1>2, <1>12, <1>14 DEF u

LEMMA RisesOne ==
  ASSUME NEW s \in Seq(Diffs), Len(s) <= 1
  PROVE  Rises(s)
<1>1. Len(s) \in Nat /\ DOMAIN s = 1..Len(s)  BY LenProperties
<1>2. \A i, j \in 1..Len(s) : ~(i < j)  BY <1>1
<1> QED  BY <1>1, <1>2 DEF Rises

\* A book that gets all of the diffs says of an order in the end what the last one
\* says that touches it.
LEMMA CatchesUpTells ==
  ASSUME FeedInv, NEW book, KnownBook(book), NEW diffs \in Seq(Diffs), Rises(diffs),
         ToSet(diffs) \subseteq InFlight, NEW id, NEW entries,
         NoneOf(ToSet(diffs), id) => EntriesOf(book, id) = entries,
         \A d \in ToSet(diffs) : Latest(ToSet(diffs), id, d) =>
           /\ AddedOf(d, id) = entries
           /\ Takes(d, id) \/ EntriesOf(book, id) \subseteq entries
  PROVE  EntriesOf(Applied(diffs, book), id) = entries
<1>1. book \in States /\ Home(Entries(book))  BY DEF KnownBook
<1>2. \A i \in DOMAIN diffs : diffs[i] \in ToSet(diffs)  BY DEF ToSet
<1>3. \A i \in DOMAIN diffs : /\ diffs[i] \in InFlight /\ diffs[i].slot \in Nat
                              /\ HomeDiff(diffs[i])
  <2>1. \A d \in InFlight : d.slot \in Nat /\ HomeDiff(d)  BY SlotsAre DEF KnownDiff
  <2> QED  BY <1>2, <2>1
<1>4. DOMAIN diffs \subseteq Nat
  <2>1. DOMAIN diffs = 1..Len(diffs) /\ Len(diffs) \in Nat  BY LenProperties
  <2> QED  BY <2>1
<1>5. ASSUME NEW i \in DOMAIN diffs, NEW j \in DOMAIN diffs, i < j,
             id \in Touched(diffs[i]), id \in Touched(diffs[j])
      PROVE  Takes(diffs[j], id)
  <2> SUFFICES ASSUME ~Takes(diffs[j], id) PROVE FALSE
    OBVIOUS
  <2>1. diffs[j].slot <= diffs[i].slot  BY <1>3, <1>5 DEF FeedInv, DiffInv
  <2>2. diffs[i].slot < diffs[j].slot  BY <1>5 DEF Rises
  <2> QED  BY <1>3, <2>1, <2>2
<1>6. Untold(diffs, id) => EntriesOf(book, id) = entries  BY DEF Untold, NoneOf, ToSet
<1>7. ASSUME NEW i \in DOMAIN diffs, LastOf(diffs, id, i)
      PROVE  /\ AddedOf(diffs[i], id) = entries
             /\ Takes(diffs[i], id) \/ EntriesOf(book, id) \subseteq entries
  <2>1. ASSUME NEW e \in ToSet(diffs), id \in Touched(e)
        PROVE  e.slot <= diffs[i].slot
    <3>1. PICK j \in DOMAIN diffs : e = diffs[j]  BY DEF ToSet
    <3>2. ~(i < j)  BY <1>7, <2>1, <3>1 DEF LastOf
    <3>3. j = i \/ j < i  BY <1>4, <3>2
    <3>4. j < i => diffs[j].slot < diffs[i].slot  BY DEF Rises
    <3> QED  BY <1>3, <3>1, <3>3, <3>4
  <2>2. Latest(ToSet(diffs), id, diffs[i])  BY <1>2, <1>7, <2>1 DEF Latest, LastOf
  <2> QED  BY <1>2, <2>2
<1> QED  BY <1>1, <1>3, <1>5, <1>6, <1>7, AppliedTells

LEMMA AppliedIsState ==
  ASSUME NEW book \in States, NEW diffs \in Seq(Diffs)
  PROVE  Applied(diffs, book) \in States
<1>1. PICK steps : AppliedBy(steps, diffs, book)  BY AppliedSteps
<1>2. Len(diffs) \in Nat  BY LenProperties
<1>3. Len(diffs) \in 0..Len(diffs)  BY <1>2
<1> QED  BY <1>1, <1>3 DEF AppliedBy

\* The entries of a book are about orders of the menu.
LEMMA EntriesKnown ==
  ASSUME NEW book \in States, NEW e \in Entries(book)
  PROVE  e.order.order_id \in OrderIds
<1>1. PICK side \in Sides : \E i \in DOMAIN book.orders[side] :
        e = [side |-> side, order |-> book.orders[side][i]]
  BY DEF Entries
<1>2. PICK i \in DOMAIN book.orders[side] : e = [side |-> side, order |-> book.orders[side][i]]
  BY <1>1
<1>3. book.orders[side] \in Seq(Orders)  BY DEF States, StatesOf
<1>4. book.orders[side][i] \in Orders  BY <1>3, LenProperties
<1> QED  BY <1>2, <1>4 DEF Orders

LEMMA FeedMemory ==
  ASSUME FeedInv, Serving
  PROVE  EntriesBut(Applied(stream \o outbox, orderbook), lost) = ListedBut(lost)
<1>1. TableInv /\ ServerTypes /\ BookInv /\ MemoryInv  BY DEF FeedInv
<1>2. PICK diffs : diffs = stream \o outbox  OBVIOUS
<1>3. diffs \in Seq(Diffs) /\ ToSet(diffs) = Unreceived /\ Rises(diffs)
  <2>1. stream \in Seq(Diffs) /\ outbox \in Seq(Diffs) /\ Len(outbox) <= 1
    BY <1>1 DEF ServerTypes
  <2>2. Rises(stream) /\ \A d \in ToSet(stream), e \in ToSet(outbox) : d.slot < e.slot
    BY <1>1 DEF BookInv, OrderInv
  <2>3. Rises(outbox)  BY <2>1, RisesOne
  <2> QED  BY <1>2, <2>1, <2>2, <2>3, QueueJoin DEF Unreceived
<1>4. PICK book : book = Applied(diffs, orderbook)  OBVIOUS
<1>5. KnownBook(orderbook) /\ orderbook \in States /\ Fresh(orderbook)
  BY <1>1 DEF BookInv, KnownBook
<1>6. book \in States  BY <1>3, <1>4, <1>5, AppliedIsState
<1>7. ASSUME NEW id \in OrderIds \ lost
      PROVE  EntriesOf(book, id) = TableOf(id)
  <2>1. /\ NoneOf(Unreceived, id) => EntriesOf(orderbook, id) = TableOf(id)
        /\ \A d \in Unreceived : Latest(Unreceived, id, d) => AddedOf(d, id) = TableOf(id)
    BY <1>1 DEF MemoryInv
  <2>2. \A d \in Unreceived : Latest(Unreceived, id, d) =>
          Takes(d, id) \/ EntriesOf(orderbook, id) \subseteq AddedOf(d, id)
    BY <1>5 DEF Fresh, Latest
  <2>3. ToSet(diffs) \subseteq InFlight  BY <1>3 DEF InFlight
  <2>4. \A d \in ToSet(diffs) : Latest(ToSet(diffs), id, d) =>
          /\ AddedOf(d, id) = TableOf(id)
          /\ Takes(d, id) \/ EntriesOf(orderbook, id) \subseteq TableOf(id)
    BY <1>3, <2>1, <2>2
  <2>5. NoneOf(ToSet(diffs), id) => EntriesOf(orderbook, id) = TableOf(id)  BY <1>3, <2>1
  <2> QED  BY <1>3, <1>4, <1>5, <2>3, <2>4, <2>5, CatchesUpTells
<1>8. Listed(live_orders) \subseteq OrderIds  BY <1>1, RowsAre DEF Listed
<1>9. \A e : e \in ListedBut(lost) <=> \E id \in OrderIds \ lost : e \in TableOf(id)
  BY <1>8 DEF ListedBut, TableOf
<1>10. \A e : e \in EntriesBut(book, lost) <=> \E id \in OrderIds \ lost : e \in EntriesOf(book, id)
  BY <1>6, EntriesKnown DEF EntriesBut, EntriesOf
<1>11. \A e : e \in EntriesBut(book, lost) <=> e \in ListedBut(lost)
  BY <1>7, <1>9, <1>10
<1>12. EntriesBut(book, lost) = ListedBut(lost)
  <2>1. EntriesBut(book, lost) \subseteq ListedBut(lost)  BY <1>11
  <2>2. ListedBut(lost) \subseteq EntriesBut(book, lost)  BY <1>11
  <2> QED  BY <2>1, <2>2
<1> QED  BY <1>2, <1>4, <1>12

LEMMA FeedClients ==
  ASSUME FeedInv, NEW c \in Clients, Subscribed(c),
         NEW view, view = (IF client[c].lagged THEN orderbook ELSE client[c].view)
  PROVE  EntriesBut(Applied(client[c].rx \o inserted, view), unseen[c])
           = EntriesBut(orderbook, unseen[c])
<1>1. TableInv /\ ServerTypes /\ BookInv  BY DEF FeedInv
<1>2. /\ SocketTypes(c) /\ KnownBook(client[c].view) /\ SocketOrder(c)
      /\ CatchesUp(c) /\ Shows(c) /\ Joined(c)
  BY DEF FeedInv, SocketsInv, SocketInv, Joined
<1>3. PICK diffs : diffs = client[c].rx \o inserted  OBVIOUS
<1>4. diffs \in Seq(Diffs) /\ ToSet(diffs) = Coming(c) /\ Rises(diffs)
  <2>1. client[c].rx \in Seq(Diffs)  BY <1>2 DEF SocketTypes, SocketRecords
  <2>2. inserted \in Seq(Diffs) /\ Len(inserted) <= 1  BY <1>1 DEF ServerTypes
  <2>3. Rises(client[c].rx) /\ \A d \in ToSet(client[c].rx), e \in ToSet(inserted) : d.slot < e.slot
    BY <1>2 DEF SocketOrder
  <2>4. Rises(inserted)  BY <2>2, RisesOne
  <2> QED  BY <1>3, <2>1, <2>2, <2>3, <2>4, QueueJoin DEF Coming
<1>5. PICK old, book : old = view /\ book = Applied(diffs, old)  OBVIOUS
<1>6. KnownBook(orderbook) /\ KnownBook(old) /\ old \in States /\ orderbook \in States
  <2>1. KnownBook(orderbook)  BY <1>1 DEF BookInv
  <2>2. KnownBook(old)  BY <1>2, <1>5, <2>1
  <2> QED  BY <2>1, <2>2 DEF KnownBook
<1>7. book \in States  BY <1>4, <1>5, <1>6, AppliedIsState
<1>8. ASSUME NEW id \in OrderIds \ unseen[c]
      PROVE  EntriesOf(book, id) = EntriesOf(orderbook, id)
  <2>1. \A d \in Coming(c) : Latest(Coming(c), id, d) => AddedOf(d, id) = EntriesOf(orderbook, id)
    BY <1>2 DEF CatchesUp
  <2>2. /\ NoneOf(Coming(c), id) => EntriesOf(view, id) = EntriesOf(orderbook, id)
        /\ \A d \in Coming(c) : Latest(Coming(c), id, d) =>
             Takes(d, id) \/ EntriesOf(view, id) \subseteq AddedOf(d, id)
    <3>1. CASE client[c].lagged  BY <2>1, <3>1
    <3>2. CASE ~client[c].lagged  BY <1>2, <3>2 DEF Shows
    <3> QED  BY <3>1, <3>2
  <2>3. ToSet(diffs) \subseteq InFlight  BY <1>4 DEF InFlight, Coming
  <2>4. PICK entries : entries = EntriesOf(orderbook, id)  OBVIOUS
  <2>5. \A d \in ToSet(diffs) : Latest(ToSet(diffs), id, d) =>
          /\ AddedOf(d, id) = entries
          /\ Takes(d, id) \/ EntriesOf(old, id) \subseteq entries
    BY <1>4, <1>5, <2>1, <2>2, <2>4
  <2>6. NoneOf(ToSet(diffs), id) => EntriesOf(old, id) = entries
    BY <1>4, <1>5, <2>2, <2>4
  <2>7. EntriesOf(Applied(diffs, old), id) = entries
    BY <1>4, <1>6, <2>3, <2>5, <2>6, CatchesUpTells
  <2> QED  BY <1>5, <2>4, <2>7
<1>9. /\ \A e : e \in EntriesBut(orderbook, unseen[c])
                  <=> \E id \in OrderIds \ unseen[c] : e \in EntriesOf(orderbook, id)
      /\ \A e : e \in EntriesBut(book, unseen[c])
                  <=> \E id \in OrderIds \ unseen[c] : e \in EntriesOf(book, id)
  BY <1>6, <1>7, EntriesKnown DEF EntriesBut, EntriesOf
<1>10. \A e : e \in EntriesBut(book, unseen[c]) <=> e \in EntriesBut(orderbook, unseen[c])
  BY <1>8, <1>9
<1>11. EntriesBut(book, unseen[c]) = EntriesBut(orderbook, unseen[c])
  <2>1. EntriesBut(book, unseen[c]) \subseteq EntriesBut(orderbook, unseen[c])  BY <1>10
  <2>2. EntriesBut(orderbook, unseen[c]) \subseteq EntriesBut(book, unseen[c])  BY <1>10
  <2> QED  BY <2>1, <2>2
<1> QED  BY <1>3, <1>5, <1>11

LEMMA FeedDiffs == FeedInv => DiffExact
<1> SUFFICES ASSUME FeedInv, NEW c \in Clients, NEW view, view = client[c].view,
                    Doubled(view) = {}, Doubled(orderbook) = {}
             PROVE  /\ Entries(Apply(Diff(view, orderbook), view)) = Entries(orderbook)
                    /\ Doubled(Apply(Diff(view, orderbook), view)) = {}
                    /\ IsEmpty(Diff(view, orderbook)) <=> Entries(view) = Entries(orderbook)
  BY DEF DiffExact
<1>1. KnownBook(orderbook) /\ KnownBook(view)
  BY DEF FeedInv, BookInv, SocketsInv, SocketInv
<1>2. view \in StatesOf(Orders) /\ orderbook \in StatesOf(Orders)
  BY <1>1 DEF KnownBook, States
<1>3. \A o \in Orders : o.order_id \in OrderIds  BY DEF Orders
<1>4. ASSUME NEW side \in Sides
      PROVE  SamePrice(view.orders[side], orderbook.orders[side])
  <2> SUFFICES ASSUME NEW o \in ToSet(view.orders[side]), NEW p \in ToSet(orderbook.orders[side]),
                      o.order_id = p.order_id
               PROVE  o.price = p.price
    BY DEF SamePrice
  <2>1. PICK e, f : e = [side |-> side, order |-> o] /\ f = [side |-> side, order |-> p]
    OBVIOUS
  <2>2. e \in Entries(view) /\ f \in Entries(orderbook)  BY <2>1, EntryIn
  <2>3. /\ e.order.price = Menu[e.order.order_id].price
        /\ f.order.price = Menu[f.order.order_id].price
    BY <1>1, <2>2 DEF KnownBook, Home
  <2> QED  BY <2>1, <2>3
<1> QED  BY <1>2, <1>3, <1>4, OrdersArePriced, DiffIsExact

\* The diff of a browser's book and the backend's makes the one of the other.
THEOREM DiffCorrect == Spec => []DiffExact
BY FeedCorrect, FeedDiffs, PTL

-----------------------------------------------------------------------------
(* What is left of the orders *)

\* Of what two sets of entries tell, the one of `new' has no more left.
AtMost(old, new) ==
  \A e \in old, f \in new : f.order.remaining_quantity <= e.order.remaining_quantity

\* What comes later, as a diff, from the table or in the backend's book, is no more
\* than what the book says.
Bounds(book) ==
  \A id \in OrderIds :
    /\ \A e \in EntriesOf(book, id) :
         live_orders[id].remaining_quantity <= e.order.remaining_quantity
    /\ \A d \in Unreceived \cup ToSet(inserted) : AtMost(EntriesOf(book, id), AddedOf(d, id))
    /\ AtMost(EntriesOf(book, id), EntriesOf(orderbook, id))

\* The same of what a diff says.
DiffsShrink ==
  \A d \in InFlight : \A id \in OrderIds :
    /\ \A e \in AddedOf(d, id) :
         live_orders[id].remaining_quantity <= e.order.remaining_quantity
    /\ \A e \in InFlight : d.slot <= e.slot => AtMost(AddedOf(d, id), AddedOf(e, id))
    /\ d.slot <= orderbook.slot => AtMost(AddedOf(d, id), EntriesOf(orderbook, id))

\* In a queue, the diffs after those that the browser's book already holds.
LessComes(c) ==
  LET socket == client[c]
  IN ~socket.lagged =>
       /\ socket.repeats <= Len(socket.rx)
       /\ \A i \in DOMAIN socket.rx : socket.repeats < i => \A id \in OrderIds :
            AtMost(EntriesOf(socket.view, id), AddedOf(socket.rx[i], id))

\* Once the browser has got again what its book holds, the book says one thing of
\* the order, and no other than a diff that follows and says that it is there.
Agrees(view, rx, repeats, id) ==
  /\ (\A i \in DOMAIN rx : i <= repeats => id \notin Touched(rx[i]))
       => AtMost(EntriesOf(view, id), EntriesOf(view, id))
  /\ \A i \in DOMAIN rx :
       /\ id \in Touched(rx[i]) /\ ~Takes(rx[i], id)
       /\ \A k \in DOMAIN rx : i < k /\ k <= repeats => id \notin Touched(rx[k])
       => EntriesOf(view, id) \subseteq AddedOf(rx[i], id)

\* The first diff that is not a repetition takes the order out.
TakenNext(c, id) ==
  LET socket == client[c]
  IN \/ /\ socket.repeats < Len(socket.rx)
        /\ Takes(socket.rx[socket.repeats + 1], id)
     \/ /\ socket.repeats = Len(socket.rx) /\ Subscribed(c)
        /\ \E d \in ToSet(inserted) : Takes(d, id)

\* Of a book that a diff can still reach which is not a repetition.
EvensOut(c) ==
  LET socket == client[c]
  IN ~socket.lagged /\ (Joined(c) \/ socket.repeats < Len(socket.rx)) =>
       \A id \in OrderIds :
         TakenNext(c, id) \/ Agrees(socket.view, socket.rx, socket.repeats, id)

SocketShrinks(c) == Bounds(client[c].view) /\ LessComes(c) /\ EvensOut(c)

ShrinkInv == DiffsShrink /\ Bounds(orderbook) /\ \A c \in Clients : SocketShrinks(c)

\* What a step may not do to the books: OrdersOnlyShrink is [][Shrinking]_vars.
Shrinking ==
  /\ ~Grows(orderbook, orderbook')
  /\ \A c \in Clients : Grows(client[c].view, client'[c].view) => client[c].repeats > 0

LEMMA BookNumbers ==
  ASSUME NEW book, KnownBook(book), NEW id, NEW e \in EntriesOf(book, id)
  PROVE  id \in DOMAIN live_orders /\ e.order.remaining_quantity \in Nat
<1>1. e \in Entries(book) /\ e.order.order_id = id  BY DEF EntriesOf
<1>2. book \in States /\ id \in DOMAIN live_orders  BY <1>1 DEF KnownBook
<1>3. e.side \in Sides /\ e.order \in ToSet(book.orders[e.side])  BY <1>1, EntryIs
<1>4. book.orders[e.side] \in Seq(Orders)  BY <1>2, <1>3 DEF States, StatesOf
<1>5. e.order \in Orders  BY <1>3, <1>4, QueueOf
<1> QED  BY <1>2, <1>5 DEF Orders

LEMMA DiffNumbers ==
  ASSUME NEW d \in Diffs, NEW id, NEW e \in AddedOf(d, id)
  PROVE  id \in Touched(d) /\ e.order.remaining_quantity \in Nat
<1>1. e \in AddedBy(d) /\ e.order.order_id = id  BY DEF AddedOf
<1>2. e.side \in Sides /\ e.order \in ToSet(d.added[e.side])  BY <1>1, AddedIs
<1>3. d.added[e.side] \in Seq(Orders)  BY <1>2 DEF Diffs, DiffsOf
<1>4. e.order \in Orders  BY <1>2, <1>3, QueueOf
<1>5. id \in Touched(d)  BY Untouching
<1> QED  BY <1>4, <1>5 DEF Orders

LEMMA RowNumbers ==
  ASSUME NEW table, table \in [DOMAIN table -> Rows], NEW id \in DOMAIN table
  PROVE  table[id].remaining_quantity \in Nat
<1>1. table[id] \in Rows  OBVIOUS
<1> QED  BY <1>1 DEF Rows

\* A book whose entries are bounded by what they were does not grow.
LEMMA NoGrowth ==
  ASSUME NEW old \in States, NEW new \in States,
         \A id \in OrderIds : AtMost(EntriesOf(old, id), EntriesOf(new, id))
  PROVE  ~Grows(old, new)
<1> SUFFICES ASSUME NEW e \in Entries(old), NEW f \in Entries(new),
                    e.order.order_id = f.order.order_id,
                    e.order.remaining_quantity < f.order.remaining_quantity
             PROVE  FALSE
  BY DEF Grows
<1>1. PICK id : id = e.order.order_id  OBVIOUS
<1>2. id \in OrderIds /\ e \in EntriesOf(old, id) /\ f \in EntriesOf(new, id)
  BY <1>1, EntriesKnown DEF EntriesOf
<1>3. ASSUME NEW book \in States, NEW g \in Entries(book)
      PROVE  g.order.remaining_quantity \in Nat
  <2>1. g.side \in Sides /\ g.order \in ToSet(book.orders[g.side])  BY EntryIs
  <2>2. book.orders[g.side] \in Seq(Orders)  BY <2>1 DEF States, StatesOf
  <2>3. g.order \in Orders  BY <2>1, <2>2, QueueOf
  <2> QED  BY <2>3 DEF Orders
<1>4. e.order.remaining_quantity \in Nat /\ f.order.remaining_quantity \in Nat  BY <1>3
<1>5. f.order.remaining_quantity <= e.order.remaining_quantity  BY <1>2 DEF AtMost
<1> QED  BY <1>4, <1>5

\* An order that nothing has an entry of has not grown.
LEMMA NothingGrows ==
  ASSUME NEW old, NEW new, old = new \/ Entries(old) = {} \/ Entries(new) = {}
  PROVE  ~Grows(old, new)
BY DEF Grows

LEMMA ShrinkInit == Init => ShrinkInv
<1> SUFFICES ASSUME Init PROVE ShrinkInv
  OBVIOUS
<1>1. Entries(NoBook) = {}  BY NewStateProperties DEF NoBook
<1>2. /\ outbox = << >> /\ stream = << >> /\ inserted = << >> /\ orderbook = NoBook
      /\ \A c \in Clients : client[c] = NewSocket
  BY DEF Init
<1>3. ASSUME NEW c \in Clients
      PROVE  /\ client[c].step = "away" /\ client[c].rx = << >>
             /\ client[c].repeats = 0 /\ client[c].view = NoBook
  BY <1>2 DEF NewSocket
<1>4. ToSet(outbox) = {} /\ ToSet(stream) = {} /\ ToSet(inserted) = {}
      /\ \A c \in Clients : ToSet(client[c].rx) = {}
  BY <1>2, <1>3, QueueNone
<1>5. InFlight = {}  BY <1>4 DEF Unreceived, InFlight
<1>6. Bounds(NoBook)  BY <1>1 DEF Bounds, EntriesOf, AtMost
<1>7. DiffsShrink  BY <1>5 DEF DiffsShrink
<1>8. ASSUME NEW c \in Clients PROVE SocketShrinks(c)
  <2>1. Bounds(client[c].view)  BY <1>3, <1>6
  <2>2. DOMAIN client[c].rx = {} /\ Len(client[c].rx) = 0  BY <1>3
  <2>3. LessComes(c)  BY <1>3, <2>2 DEF LessComes
  <2>4. EvensOut(c)  BY <1>3, <2>2 DEF EvensOut, Joined, Subscribed
  <2> QED  BY <2>1, <2>3, <2>4 DEF SocketShrinks
<1> QED  BY <1>2, <1>6, <1>7, <1>8 DEF ShrinkInv

-----------------------------------------------------------------------------
(* The steps of the indexer and of Redis *)

\* A socket that does not move: the diff in hand still comes if it did.
LEMMA Unmoved ==
  ASSUME NEW c \in Clients, SocketTypes(c), LessComes(c), EvensOut(c), client'[c] = client[c],
         Subscribed(c)' => Subscribed(c) /\ ToSet(inserted) \subseteq ToSet(inserted')
  PROVE  LessComes(c)' /\ EvensOut(c)'
<1>1. LessComes(c)'  BY DEF LessComes
<1>2. PICK socket : socket = client[c] /\ socket = client'[c]  OBVIOUS
<1>3. socket.repeats \in Nat /\ Len(socket.rx) \in Nat
  <2>1. client[c] \in SocketRecords  BY DEF SocketTypes
  <2>2. socket.repeats \in Nat /\ socket.rx \in Seq(Diffs)  BY <1>2, <2>1 DEF SocketRecords
  <2> QED  BY <2>2, LenProperties
<1>4. EvensOut(c)'
  <2> SUFFICES ASSUME ~socket.lagged, Joined(c)' \/ socket.repeats < Len(socket.rx),
                      NEW id \in OrderIds, ~TakenNext(c, id)'
               PROVE  Agrees(socket.view, socket.rx, socket.repeats, id)
    BY <1>2 DEF EvensOut
  <2>1. Joined(c)' => Joined(c)  BY <1>2 DEF Joined
  <2>2. ~TakenNext(c, id)
    <3>1. ~(socket.repeats < Len(socket.rx) /\ Takes(socket.rx[socket.repeats + 1], id))
      BY <1>2 DEF TakenNext
    <3>2. ~(/\ socket.repeats = Len(socket.rx) /\ Subscribed(c)
            /\ \E d \in ToSet(inserted) : Takes(d, id))
      <4> SUFFICES ASSUME socket.repeats = Len(socket.rx), Subscribed(c),
                          NEW d \in ToSet(inserted), Takes(d, id)
                   PROVE  FALSE
        OBVIOUS
      <4>1. Joined(c)'  BY <1>3
      <4>2. Subscribed(c)'  BY <1>2, <4>1 DEF Joined, Subscribed
      <4> QED  BY <1>2, <4>2 DEF TakenNext
    <3> QED  BY <1>2, <3>1, <3>2 DEF TakenNext
  <2> QED  BY <1>2, <2>1, <2>2 DEF EvensOut
<1> QED  BY <1>1, <1>4

\* A row that stays has no more left than before.
RowsShrink ==
  \A id \in DOMAIN live_orders :
    /\ id \in DOMAIN live_orders'
    /\ live_orders'[id].remaining_quantity <= live_orders[id].remaining_quantity

\* The diffs that are new tell what the table says.
DiffsTell(old, new) ==
  \A d \in new \ old : \A id \in OrderIds : AddedOf(d, id) \subseteq TableOf(id)'

LEMMA BoundsStay ==
  ASSUME TableInv, TableInv', RowsShrink, orderbook' = orderbook,
         NEW book, KnownBook(book), Bounds(book),
         DiffsTell(Unreceived \cup ToSet(inserted), (Unreceived \cup ToSet(inserted))')
  PROVE  Bounds(book)'
<1> SUFFICES ASSUME NEW id \in OrderIds
             PROVE  /\ \A e \in EntriesOf(book, id) :
                         live_orders'[id].remaining_quantity <= e.order.remaining_quantity
                    /\ \A d \in (Unreceived \cup ToSet(inserted))' :
                         AtMost(EntriesOf(book, id), AddedOf(d, id))
                    /\ AtMost(EntriesOf(book, id), EntriesOf(orderbook, id))
  BY DEF Bounds
<1>1. ASSUME NEW e \in EntriesOf(book, id)
      PROVE  live_orders'[id].remaining_quantity <= e.order.remaining_quantity
  <2>1. id \in DOMAIN live_orders /\ e.order.remaining_quantity \in Nat  BY BookNumbers
  <2>2. id \in DOMAIN live_orders'
        /\ live_orders'[id].remaining_quantity <= live_orders[id].remaining_quantity
    BY <2>1 DEF RowsShrink
  <2>3. live_orders[id].remaining_quantity \in Nat  BY <2>1, RowNumbers DEF TableInv
  <2>4. live_orders'[id].remaining_quantity \in Nat  BY <2>2, RowNumbers DEF TableInv
  <2>5. live_orders[id].remaining_quantity <= e.order.remaining_quantity  BY DEF Bounds
  <2> QED  BY <2>1, <2>2, <2>3, <2>4, <2>5
<1>2. ASSUME NEW d \in (Unreceived \cup ToSet(inserted))'
      PROVE  AtMost(EntriesOf(book, id), AddedOf(d, id))
  <2>1. CASE d \in Unreceived \cup ToSet(inserted)  BY <2>1 DEF Bounds
  <2>2. CASE d \notin Unreceived \cup ToSet(inserted)
    <3>1. AddedOf(d, id) \subseteq TableOf(id)'  BY <2>2 DEF DiffsTell
    <3>2. \A f \in AddedOf(d, id) :
            f.order.remaining_quantity = live_orders'[id].remaining_quantity
      BY <3>1 DEF TableOf, LiveOrder
    <3> QED  BY <1>1, <3>2 DEF AtMost
  <2> QED  BY <2>1, <2>2
<1>3. AtMost(EntriesOf(book, id), EntriesOf(orderbook, id))  BY DEF Bounds
<1> QED  BY <1>1, <1>2, <1>3

\* Where the books and the sockets stay, and what is new of the diffs is newer.
LEMMA DiffsStay ==
  ASSUME FeedInv, FeedInv', DiffsShrink, RowsShrink, orderbook' = orderbook,
         DiffsTell(InFlight, InFlight'),
         \A d \in InFlight' \ InFlight : \A e \in InFlight' : e.slot <= d.slot,
         \A d \in InFlight' \ InFlight : orderbook.slot < d.slot
  PROVE  DiffsShrink'
<1>1. /\ TableInv /\ TableInv' /\ orderbook.slot \in Nat
      /\ \A d \in InFlight' : d \in Diffs /\ d.slot \in Nat
      /\ \A d \in InFlight : d \in Diffs /\ Touched(d) \subseteq DOMAIN live_orders
  BY SlotsAre DEF FeedInv, DiffInv, KnownDiff, Diffs, DiffsOf
<1> SUFFICES ASSUME NEW d \in InFlight', NEW id \in OrderIds
             PROVE  /\ \A e \in AddedOf(d, id) :
                         live_orders'[id].remaining_quantity <= e.order.remaining_quantity
                    /\ \A e \in InFlight' : d.slot <= e.slot =>
                         AtMost(AddedOf(d, id), AddedOf(e, id))
                    /\ d.slot <= orderbook.slot =>
                         AtMost(AddedOf(d, id), EntriesOf(orderbook, id))
  BY DEF DiffsShrink
<1>2. ASSUME NEW f \in InFlight' \ InFlight, NEW e \in AddedOf(f, id)
      PROVE  /\ e.order.remaining_quantity = live_orders'[id].remaining_quantity
             /\ e.order.remaining_quantity \in Nat
  <2>1. e \in TableOf(id)'  BY DEF DiffsTell
  <2>2. e.order.remaining_quantity \in Nat  BY <1>1, DiffNumbers
  <2> QED  BY <2>1, <2>2 DEF TableOf, LiveOrder
<1>3. ASSUME NEW e \in AddedOf(d, id)
      PROVE  live_orders'[id].remaining_quantity <= e.order.remaining_quantity
  <2>1. CASE d \in InFlight
    <3>1. id \in Touched(d) /\ e.order.remaining_quantity \in Nat  BY <1>1, DiffNumbers
    <3>2. id \in DOMAIN live_orders  BY <1>1, <2>1, <3>1
    <3>3. id \in DOMAIN live_orders'
          /\ live_orders'[id].remaining_quantity <= live_orders[id].remaining_quantity
      BY <3>2 DEF RowsShrink
    <3>4. live_orders[id].remaining_quantity \in Nat  BY <1>1, <3>2, RowNumbers DEF TableInv
    <3>5. live_orders'[id].remaining_quantity \in Nat  BY <1>1, <3>3, RowNumbers DEF TableInv
    <3>6. live_orders[id].remaining_quantity <= e.order.remaining_quantity
      BY <2>1 DEF DiffsShrink
    <3> QED  BY <3>1, <3>3, <3>4, <3>5, <3>6
  <2>2. CASE d \notin InFlight  BY <1>2, <2>2
  <2> QED  BY <2>1, <2>2
<1>4. ASSUME NEW e \in InFlight', d.slot <= e.slot
      PROVE  AtMost(AddedOf(d, id), AddedOf(e, id))
  <2>1. CASE e \notin InFlight  BY <1>2, <1>3, <2>1 DEF AtMost
  <2>2. CASE e \in InFlight /\ d \in InFlight  BY <1>4, <2>2 DEF DiffsShrink
  <2>3. CASE e \in InFlight /\ d \notin InFlight
    <3>1. e.slot <= d.slot  BY <2>3
    <3>2. e = d  BY <1>1, <1>4, <3>1 DEF FeedInv, DiffInv
    <3> QED  BY <2>3, <3>2
  <2> QED  BY <2>1, <2>2, <2>3
<1>5. ASSUME d.slot <= orderbook.slot
      PROVE  AtMost(AddedOf(d, id), EntriesOf(orderbook, id))
  <2>1. d \in InFlight  BY <1>1, <1>5
  <2> QED  BY <1>5, <2>1 DEF DiffsShrink
<1> QED  BY <1>3, <1>4, <1>5

\* So the books and the sockets stay as they are.
LEMMA AroundShrinks ==
  ASSUME FeedInv, FeedInv', ShrinkInv, RowsShrink,
         UNCHANGED <<stream, inserted, orderbook, ob_channel, client>>
  PROVE  ShrinkInv' /\ Shrinking
<1>1. /\ TableInv /\ TableInv' /\ BookInv /\ BookInv'
      /\ \A c \in Clients : /\ SocketTypes(c) /\ KnownBook(client[c].view)
                            /\ SocketOrder(c)
  BY DEF FeedInv, SocketsInv, SocketInv
<1>2. Unreceived \subseteq InFlight /\ ToSet(inserted) \subseteq InFlight
      /\ Unreceived' \subseteq InFlight'
  BY DEF InFlight
<1>3. /\ \A d \in Unreceived' \ Unreceived : d \in ToSet(outbox') \ ToSet(outbox)
      /\ \A d \in InFlight' \ InFlight : d \in ToSet(outbox') \ ToSet(outbox)
  BY DEF Unreceived, InFlight
<1>4. ASSUME NEW d \in ToSet(outbox'), NEW id \in OrderIds
      PROVE  AddedOf(d, id) \subseteq TableOf(id)'
  <2>1. CASE id \in Touched(d)
    <3>1. AddedOf(d, id) = TableOf(id)'  BY <1>1, <2>1 DEF BookInv, Tells
    <3> QED  BY <3>1
  <2>2. CASE id \notin Touched(d)
    <3>1. d \in InFlight'  BY DEF InFlight, Unreceived
    <3>2. d \in Diffs  BY <3>1 DEF FeedInv, DiffInv, KnownDiff
    <3> QED  BY <2>2, <3>2, Untouching
  <2> QED  BY <2>1, <2>2
<1>5. /\ DiffsTell(Unreceived \cup ToSet(inserted), (Unreceived \cup ToSet(inserted))')
      /\ DiffsTell(InFlight, InFlight')
  BY <1>3, <1>4 DEF DiffsTell
<1>6. ASSUME NEW d \in InFlight' \ InFlight
      PROVE  orderbook.slot < d.slot /\ \A e \in InFlight' : e.slot <= d.slot
  <2>1. d \in ToSet(outbox') /\ d \in Unreceived'  BY <1>3 DEF Unreceived
  <2>2. orderbook.slot < d.slot  BY <1>1, <2>1 DEF BookInv, OrderInv
  <2>3. orderbook.slot \in Nat /\ \A e \in InFlight' : e.slot \in Nat
    BY SlotsAre DEF FeedInv, DiffInv, KnownDiff, Diffs, DiffsOf
  <2>4. ASSUME NEW e \in InFlight'
        PROVE  e.slot <= d.slot
    <3>1. CASE e \in ToSet(stream')  BY <1>1, <2>1, <2>3, <3>1 DEF BookInv, OrderInv
    <3>2. CASE e \in ToSet(outbox')
      <4>1. outbox' \in Seq(Diffs) /\ Len(outbox') <= 1  BY DEF FeedInv, ServerTypes
      <4>2. e = d
        <5>1. outbox' # << >>  BY <2>1, QueueNone
        <5>2. ToSet(outbox') = {Head(outbox')}  BY <4>1, <5>1, QueueOne
        <5> QED  BY <2>1, <3>2, <5>2
      <4> QED  BY <2>3, <4>2
    <3>3. CASE e \in ToSet(inserted)
      <4>1. e.slot = orderbook.slot  BY <1>1, <3>3 DEF BookInv, OrderInv
      <4> QED  BY <2>2, <2>3, <4>1
    <3>4. ASSUME NEW c \in Clients, e \in ToSet(client[c].rx)
          PROVE  e.slot <= d.slot
      <4>1. e.slot <= orderbook.slot  BY <1>1, <3>4 DEF SocketOrder
      <4> QED  BY <2>2, <2>3, <4>1
    <3> QED  BY <3>1, <3>2, <3>3, <3>4 DEF InFlight, Unreceived
  <2> QED  BY <2>2, <2>4
<1>7. DiffsShrink'  BY <1>5, <1>6, DiffsStay DEF ShrinkInv
<1>8. \A book : KnownBook(book) /\ Bounds(book) => Bounds(book)'
  BY <1>1, <1>5, BoundsStay
<1>9. Bounds(orderbook)'
  <2>1. PICK book : book = orderbook  OBVIOUS
  <2>2. Bounds(book)'  BY <1>1, <1>8, <2>1 DEF BookInv, ShrinkInv
  <2> QED  BY <2>1, <2>2
<1>10. ASSUME NEW c \in Clients PROVE SocketShrinks(c)'
  <2>1. PICK view : view = client[c].view  OBVIOUS
  <2>2. Bounds(view)'  BY <1>1, <1>8, <2>1 DEF ShrinkInv, SocketShrinks
  <2>3. Bounds(client[c].view)'  BY <2>1, <2>2
  <2>4. Subscribed(c)' => Subscribed(c)  BY DEF Subscribed
  <2>5. LessComes(c)' /\ EvensOut(c)'
    BY <1>1, <2>4, Unmoved DEF ShrinkInv, SocketShrinks
  <2> QED  BY <2>3, <2>5 DEF SocketShrinks
<1>11. Shrinking  BY NothingGrows DEF Shrinking
<1> QED  BY <1>7, <1>9, <1>10, <1>11 DEF ShrinkInv

\* A match takes from its orders.
LEMMA MatchedLess ==
  ASSUME TableInv, NEW maker \in Listed(live_orders), NEW taker, NEW quantity \in Nat,
         quantity <= live_orders[maker].remaining_quantity,
         taker # 0 => /\ taker \in Listed(live_orders) /\ taker # maker
                      /\ quantity <= live_orders[taker].remaining_quantity,
         NEW table, table = Matched(live_orders, maker, taker, quantity, taker # 0)
  PROVE  \A k \in DOMAIN live_orders :
           /\ k \in DOMAIN table
           /\ table[k].remaining_quantity <= live_orders[k].remaining_quantity
<1>1. PICK D : D = DOMAIN live_orders  OBVIOUS
<1>2. maker \in D /\ (taker # 0 => taker \in D) /\ live_orders \in [D -> Rows]
  BY <1>1 DEF Listed, TableInv
<1>3. PICK reduced : reduced = Reduced(live_orders, maker, quantity)  OBVIOUS
<1>4. /\ reduced \in [D -> Rows]
      /\ reduced[maker].remaining_quantity <= live_orders[maker].remaining_quantity
      /\ \A k \in D : k # maker => reduced[k] = live_orders[k]
  BY <1>2, <1>3, ReducedRow
<1>5. \A k \in D : live_orders[k].remaining_quantity \in Nat
  BY <1>1, RowNumbers DEF TableInv
<1>6. \A k \in D : reduced[k].remaining_quantity <= live_orders[k].remaining_quantity
  <2> TAKE k \in D
  <2>1. CASE k = maker  BY <1>4, <2>1
  <2>2. CASE k # maker  BY <1>4, <1>5, <2>2
  <2> QED  BY <2>1, <2>2
<1>7. CASE taker = 0
  <2>1. table = reduced  BY <1>3, <1>7 DEF Matched
  <2> QED  BY <1>1, <1>4, <1>6, <2>1
<1>8. CASE taker # 0
  <2>1. table = Reduced(reduced, taker, quantity)  BY <1>3, <1>8 DEF Matched
  <2>2. reduced[taker] = live_orders[taker] /\ taker \in D  BY <1>2, <1>4, <1>8
  <2>3. /\ table \in [D -> Rows]
        /\ table[taker].remaining_quantity <= reduced[taker].remaining_quantity
        /\ \A k \in D : k # taker => table[k] = reduced[k]
    BY <1>4, <1>8, <2>1, <2>2, ReducedRow
  <2>4. \A k \in D : table[k].remaining_quantity <= live_orders[k].remaining_quantity
    <3> TAKE k \in D
    <3>1. CASE k = taker  BY <2>2, <2>3, <3>1
    <3>2. CASE k # taker
      <4>1. table[k] = reduced[k]  BY <2>3, <3>2
      <4> QED  BY <1>6, <4>1
    <3> QED  BY <3>1, <3>2
  <2> QED  BY <1>1, <2>3, <2>4
<1> QED  BY <1>7, <1>8

\* No event gives an order back what it had.
LEMMA EventsShrink ==
  ASSUME FeedInv, FeedInv', ShrinkInv, Events
  PROVE  ShrinkInv' /\ Shrinking
<1>1. TableInv  BY DEF FeedInv
<1>2. \A k \in DOMAIN live_orders : live_orders[k].remaining_quantity \in Nat
  BY <1>1, RowNumbers DEF TableInv
<1>3. UNCHANGED <<stream, inserted, orderbook, ob_channel, client>>
  <2>1. InitMarket \/ Settle \/ PlaceOrder
          => UNCHANGED <<stream, inserted, orderbook, ob_channel, client>>
    BY DEF InitMarket, Settle, PlaceOrder, server, sockets
  <2>2. \A maker, quantity, taker : Match(maker, taker, quantity)
          => UNCHANGED <<stream, inserted, orderbook, ob_channel, client>>
    BY DEF Match, server, sockets
  <2>3. \A id : Cancel(id) => UNCHANGED <<stream, inserted, orderbook, ob_channel, client>>
    BY DEF Cancel, server, sockets
  <2> QED  BY <2>1, <2>2, <2>3 DEF Events
<1>4. CASE InitMarket \/ Settle
  <2>1. live_orders' = live_orders  BY <1>4 DEF InitMarket, Settle
  <2> QED  BY <1>2, <1>3, <2>1, AroundShrinks DEF RowsShrink
<1>5. CASE PlaceOrder
  <2>1. PICK id, order, quantity : live_orders' = Placed(live_orders, id, order, quantity)
    BY <1>5 DEF PlaceOrder, Store
  <2>2. \A k \in DOMAIN live_orders : /\ k \in DOMAIN live_orders'
                                      /\ live_orders'[k] = live_orders[k]
    BY <2>1 DEF Placed, Inserted
  <2>3. RowsShrink
    <3> SUFFICES ASSUME NEW k \in DOMAIN live_orders
                 PROVE  /\ k \in DOMAIN live_orders'
                        /\ live_orders'[k].remaining_quantity <= live_orders[k].remaining_quantity
      BY DEF RowsShrink
    <3>1. live_orders[k].remaining_quantity <= live_orders[k].remaining_quantity  BY <1>2
    <3> QED  BY <2>2, <3>1
  <2> QED  BY <1>3, <2>3, AroundShrinks
<1>6. ASSUME NEW maker \in Listed(live_orders), NEW quantity \in 1..MaxFill, NEW taker,
             Match(maker, taker, quantity)
      PROVE  ShrinkInv' /\ Shrinking
  <2>1. maker \in DOMAIN live_orders  BY DEF Listed
  <2>2. OrderIds # {}  BY <1>1, <2>1, RowsAre
  <2>3. quantity \in Nat  BY <2>2, MaxFillIs
  <2>4. live_orders' = Matched(live_orders, maker, taker, quantity, taker # 0)
    BY <1>6 DEF Match, Store
  <2>5. /\ quantity <= live_orders[maker].remaining_quantity
        /\ taker # 0 =>
             /\ taker \in Listed(live_orders)
             /\ live_orders[taker].order.side = Opposite(live_orders[maker].order.side)
             /\ quantity <= live_orders[taker].remaining_quantity
    BY <1>6 DEF Match
  <2>6. PICK side : side = live_orders[maker].order.side  OBVIOUS
  <2>7. side \in Sides  BY <1>1, <2>1, <2>6, RowsAre
  <2>8. Opposite(side) # side
    <3>1. PICK t \in TokenType, o \in OrderSide : side = <<t, o>>  BY <2>7 DEF Sides
    <3> QED  BY <3>1 DEF Opposite, OrderSide
  <2>9. taker # 0 => taker # maker  BY <2>5, <2>6, <2>8
  <2>10. PICK table : table = Matched(live_orders, maker, taker, quantity, taker # 0)  OBVIOUS
  <2>11. \A k \in DOMAIN live_orders :
           /\ k \in DOMAIN table
           /\ table[k].remaining_quantity <= live_orders[k].remaining_quantity
    BY <1>1, <2>3, <2>5, <2>9, <2>10, MatchedLess
  <2>12. RowsShrink  BY <2>4, <2>10, <2>11 DEF RowsShrink
  <2> QED  BY <1>3, <2>12, AroundShrinks
<1>7. ASSUME NEW id \in Listed(live_orders), Cancel(id)
      PROVE  ShrinkInv' /\ Shrinking
  <2>1. id \in DOMAIN live_orders  BY DEF Listed
  <2>2. live_orders' = [live_orders EXCEPT ![id].status = "cancelled"]
    BY <1>7, <2>1 DEF Cancel, Store, Cancelled
  <2>3. live_orders'[id] = [live_orders[id] EXCEPT !.status = "cancelled"]
        /\ DOMAIN live_orders' = DOMAIN live_orders
        /\ \A k \in DOMAIN live_orders : k # id => live_orders'[k] = live_orders[k]
    BY <1>1, <2>1, <2>2 DEF TableInv
  <2>4. live_orders'[id].remaining_quantity = live_orders[id].remaining_quantity
    <3>1. live_orders[id] \in Rows  BY <1>1, <2>1 DEF TableInv
    <3> QED  BY <2>3, <3>1 DEF Rows
  <2>5. RowsShrink
    <3> SUFFICES ASSUME NEW k \in DOMAIN live_orders
                 PROVE  live_orders'[k].remaining_quantity <= live_orders[k].remaining_quantity
      BY <2>3 DEF RowsShrink
    <3>1. live_orders[k].remaining_quantity <= live_orders[k].remaining_quantity  BY <1>2
    <3> QED  BY <2>3, <2>4, <3>1
  <2> QED  BY <1>3, <2>5, AroundShrinks
<1> QED  BY <1>4, <1>5, <1>6, <1>7 DEF Events

\* Fewer diffs than before are as harmless.
LEMMA FewerBounds ==
  ASSUME UNCHANGED <<live_orders, orderbook>>, NEW book, Bounds(book),
         (Unreceived \cup ToSet(inserted))' \subseteq Unreceived \cup ToSet(inserted)
  PROVE  Bounds(book)'
BY DEF Bounds

LEMMA FewerDiffs ==
  ASSUME UNCHANGED <<live_orders, orderbook>>, DiffsShrink, InFlight' \subseteq InFlight
  PROVE  DiffsShrink'
BY DEF DiffsShrink

LEMMA FewerShrinks ==
  ASSUME FeedInv, ShrinkInv, UNCHANGED <<live_orders, inserted, orderbook, ob_channel, client>>,
         Unreceived' \subseteq Unreceived
  PROVE  ShrinkInv' /\ Shrinking
<1>1. InFlight' \subseteq InFlight
      /\ (Unreceived \cup ToSet(inserted))' \subseteq Unreceived \cup ToSet(inserted)
  BY DEF InFlight
<1>2. DiffsShrink'  BY <1>1, FewerDiffs DEF ShrinkInv
<1>3. \A book : Bounds(book) => Bounds(book)'  BY <1>1, FewerBounds
<1>4. Bounds(orderbook)'
  <2>1. PICK book : book = orderbook  OBVIOUS
  <2>2. Bounds(book)'  BY <1>3, <2>1 DEF ShrinkInv
  <2> QED  BY <2>1, <2>2
<1>5. ASSUME NEW c \in Clients PROVE SocketShrinks(c)'
  <2>1. PICK view : view = client[c].view  OBVIOUS
  <2>2. Bounds(view)'  BY <1>3, <2>1 DEF ShrinkInv, SocketShrinks
  <2>3. Bounds(client[c].view)'  BY <2>1, <2>2
  <2>4. Subscribed(c)' => Subscribed(c)  BY DEF Subscribed
  <2>5. SocketTypes(c)  BY DEF FeedInv, SocketsInv, SocketInv
  <2>6. LessComes(c)' /\ EvensOut(c)'
    BY <2>4, <2>5, Unmoved DEF ShrinkInv, SocketShrinks
  <2> QED  BY <2>3, <2>6 DEF SocketShrinks
<1>6. Shrinking  BY NothingGrows DEF Shrinking
<1> QED  BY <1>2, <1>4, <1>5, <1>6 DEF ShrinkInv

LEMMA RedisShrinks ==
  ASSUME FeedInv, ShrinkInv, Publish \/ Unpublished \/ Subscribe \/ Disconnect
  PROVE  ShrinkInv' /\ Shrinking
<1>1. UNCHANGED <<live_orders, inserted, orderbook, ob_channel, client>>
  BY DEF Publish, Unpublished, Subscribe, Disconnect, chain, sockets
<1>2. ToSet(outbox') \subseteq ToSet(outbox) /\ ToSet(stream') \subseteq Unreceived
  <2>1. CASE Publish
    <3>1. outbox # << >> /\ outbox' = << >>
          /\ (stream' = Append(stream, Head(outbox)) \/ stream' = stream)
      BY <2>1 DEF Publish
    <3>2. Head(outbox) \in Diffs /\ Head(outbox) \in ToSet(outbox) /\ stream \in Seq(Diffs)
      BY <3>1, QueueTail DEF FeedInv, ServerTypes
    <3>3. ToSet(Append(stream, Head(outbox))) = ToSet(stream) \cup {Head(outbox)}
      BY <3>2, QueueAppend
    <3> QED  BY <3>1, <3>2, <3>3, QueueNone DEF Unreceived
  <2>2. CASE Unpublished  BY <2>2, QueueNone DEF Unpublished, Unreceived
  <2>3. CASE Subscribe  BY <2>3 DEF Subscribe, Unreceived
  <2>4. CASE Disconnect  BY <2>4, QueueNone DEF Disconnect, Unreceived
  <2> QED  BY <2>1, <2>2, <2>3, <2>4
<1>3. Unreceived' \subseteq Unreceived  BY <1>2 DEF Unreceived
<1> QED  BY <1>1, <1>3, FewerShrinks

\* A socket that has no book and no diffs.
LEMMA AwayShrinks ==
  ASSUME NEW c \in Clients, client'[c].step \in {"away", "gone"}, client'[c].rx = << >>,
         client'[c].repeats = 0, client'[c].view = NoBook
  PROVE  SocketShrinks(c)'
<1>1. Entries(NoBook) = {}  BY NewStateProperties DEF NoBook
<1>2. DOMAIN client'[c].rx = {} /\ Len(client'[c].rx) = 0  OBVIOUS
<1>3. Bounds(client[c].view)'  BY <1>1 DEF Bounds, EntriesOf, AtMost
<1>4. LessComes(c)'  BY <1>2 DEF LessComes
<1>5. EvensOut(c)'  BY <1>2 DEF EvensOut, Joined, Subscribed
<1> QED  BY <1>3, <1>4, <1>5 DEF SocketShrinks

\* What the table says is one number.
LEMMA OneRow ==
  ASSUME TableInv, NEW id
  PROVE  /\ \A e \in TableOf(id) : /\ e.order.remaining_quantity = live_orders[id].remaining_quantity
                                   /\ e.order.remaining_quantity \in Nat
         /\ AtMost(TableOf(id), TableOf(id))
<1>1. \A e \in TableOf(id) : id \in DOMAIN live_orders
        /\ e.order.remaining_quantity = live_orders[id].remaining_quantity
  BY DEF TableOf, LiveOrder, Listed
<1>2. \A e \in TableOf(id) : e.order.remaining_quantity \in Nat
  BY <1>1, RowNumbers DEF TableInv
<1>3. AtMost(TableOf(id), TableOf(id))
  <2> SUFFICES ASSUME NEW e \in TableOf(id), NEW f \in TableOf(id)
               PROVE  f.order.remaining_quantity <= e.order.remaining_quantity
    BY DEF AtMost
  <2>1. PICK m, n : m = e.order.remaining_quantity /\ n = f.order.remaining_quantity  OBVIOUS
  <2>2. m \in Nat /\ n = m  BY <1>1, <1>2, <2>1
  <2>3. n <= m  BY <2>2
  <2> QED  BY <2>1, <2>3
<1> QED  BY <1>1, <1>2, <1>3

LEMMA BootstrapShrinks ==
  ASSUME FeedInv, FeedInv', ShrinkInv, Bootstrap
  PROVE  ShrinkInv' /\ Shrinking
<1>1. TableInv /\ DiffInv /\ ServerTypes /\ BookInv /\ SocketsInv /\ commits \in Nat
  BY DEF FeedInv, TableInv
<1>2. /\ backend = "boot"
      /\ UNCHANGED <<live_orders, outbox, stream, inserted, client>>
  BY DEF Bootstrap, chain, sockets
<1>3. orderbook = NoBook /\ receiver = "connecting" /\ stream = << >> /\ inserted = << >>
  BY <1>1, <1>2 DEF ServerTypes
<1>4. ASSUME NEW c \in Clients
      PROVE  /\ client[c].step \in {"away", "gone"} /\ client[c].rx = << >>
             /\ client[c].repeats = 0 /\ client[c].view = NoBook
  BY <1>1, <1>2 DEF SocketsInv, SocketInv, SocketTypes
<1>5. ToSet(stream') = {} /\ ToSet(inserted') = {}
      /\ \A c \in Clients : ToSet(client'[c].rx) = {}
  BY <1>2, <1>3, <1>4, QueueNone
<1>6. /\ (Unreceived \cup ToSet(inserted))' = ToSet(outbox) /\ InFlight' = ToSet(outbox)
      /\ \A d \in ToSet(outbox) : d \in InFlight
  BY <1>2, <1>5 DEF Unreceived, InFlight
<1>7. PICK book : book = orderbook'  OBVIOUS
<1>8. \A id : EntriesOf(book, id) \subseteq TableOf(id)
  <2>1. \/ book = PushSnapshot(NewState(0), get_orderbook(live_orders))
        \/ book = NewState(0)
    BY <1>3, <1>7 DEF Bootstrap, NoBook
  <2>2. CASE book = PushSnapshot(NewState(0), get_orderbook(live_orders))
    <3>1. \A id : EntriesOf(book, id) = TableOf(id)  BY <1>1, <2>2, SnapshotTells
    <3> QED  BY <3>1
  <2>3. CASE book = NewState(0)
    <3>1. Entries(book) = {}  BY <2>3, NewStateProperties
    <3> QED  BY <3>1 DEF EntriesOf
  <2> QED  BY <2>1, <2>2, <2>3
<1>9. ASSUME NEW d \in ToSet(outbox), NEW id
      PROVE  AddedOf(d, id) \subseteq TableOf(id)
  <2>1. CASE id \in Touched(d)
    <3>1. AddedOf(d, id) = TableOf(id)  BY <1>1, <2>1 DEF BookInv, Tells
    <3> QED  BY <3>1
  <2>2. CASE id \notin Touched(d)
    <3>1. d \in Diffs  BY <1>1, <1>6 DEF DiffInv, KnownDiff
    <3> QED  BY <2>2, <3>1, Untouching
  <2> QED  BY <2>1, <2>2
<1>10. ASSUME NEW id, NEW X, X \subseteq TableOf(id), NEW Y, Y \subseteq TableOf(id)
       PROVE  AtMost(X, Y) /\ \A e \in X :
                 live_orders'[id].remaining_quantity <= e.order.remaining_quantity
  <2>1. AtMost(X, Y)  BY <1>1, <1>10, OneRow DEF AtMost
  <2>2. ASSUME NEW e \in X
        PROVE  live_orders'[id].remaining_quantity <= e.order.remaining_quantity
    <3>1. PICK n : n = e.order.remaining_quantity  OBVIOUS
    <3>2. n \in Nat /\ live_orders'[id].remaining_quantity = n
      BY <1>1, <1>2, <1>10, <3>1, OneRow
    <3>3. n <= n  BY <3>2
    <3> QED  BY <3>1, <3>2, <3>3
  <2> QED  BY <2>1, <2>2
<1>11. Bounds(orderbook)'
  <2> SUFFICES ASSUME NEW id \in OrderIds
               PROVE  /\ \A e \in EntriesOf(book, id) :
                           live_orders'[id].remaining_quantity <= e.order.remaining_quantity
                      /\ \A d \in ToSet(outbox) : AtMost(EntriesOf(book, id), AddedOf(d, id))
                      /\ AtMost(EntriesOf(book, id), EntriesOf(book, id))
    BY <1>6, <1>7 DEF Bounds
  <2> QED  BY <1>8, <1>9, <1>10
<1>12. DiffsShrink'
  <2> SUFFICES ASSUME NEW d \in ToSet(outbox), NEW id \in OrderIds
               PROVE  /\ \A e \in AddedOf(d, id) :
                           live_orders'[id].remaining_quantity <= e.order.remaining_quantity
                      /\ \A e \in ToSet(outbox) : AtMost(AddedOf(d, id), AddedOf(e, id))
                      /\ AtMost(AddedOf(d, id), EntriesOf(book, id))
    BY <1>6, <1>7 DEF DiffsShrink
  <2> QED  BY <1>8, <1>9, <1>10
<1>13. \A c \in Clients : SocketShrinks(c)'  BY <1>2, <1>4, AwayShrinks
<1>14. Shrinking
  <2>1. Entries(orderbook) = {}  BY <1>3, NewStateProperties DEF NoBook
  <2> QED  BY <1>2, <2>1, NothingGrows DEF Shrinking
<1> QED  BY <1>11, <1>12, <1>13, <1>14 DEF ShrinkInv

LEMMA RestartShrinks ==
  ASSUME FeedInv, FeedInv', ShrinkInv, Restart
  PROVE  ShrinkInv' /\ Shrinking
<1>1. /\ backend' = "boot" /\ stream' = << >> /\ inserted' = << >> /\ orderbook' = NoBook
      /\ UNCHANGED <<live_orders, outbox>>
  BY DEF Restart, chain
<1>2. ASSUME NEW c \in Clients
      PROVE  /\ client'[c].step \in {"away", "gone"} /\ client'[c].rx = << >>
             /\ client'[c].repeats = 0 /\ client'[c].view = NoBook
  BY <1>1 DEF FeedInv, SocketsInv, SocketInv, SocketTypes
<1>3. Entries(NoBook) = {}  BY NewStateProperties DEF NoBook
<1>4. ToSet(stream') = {} /\ ToSet(inserted') = {}
      /\ \A c \in Clients : ToSet(client'[c].rx) = {}
  BY <1>1, <1>2, QueueNone
<1>5. InFlight' \subseteq InFlight  BY <1>1, <1>4 DEF Unreceived, InFlight
<1>6. Bounds(orderbook)'  BY <1>1, <1>3 DEF Bounds, EntriesOf, AtMost
<1>7. DiffsShrink'
  <2>1. \A id : \A X : AtMost(X, EntriesOf(orderbook', id))
    BY <1>1, <1>3 DEF EntriesOf, AtMost
  <2>2. \A d \in InFlight : \A id \in OrderIds :
          /\ \A e \in AddedOf(d, id) :
               live_orders[id].remaining_quantity <= e.order.remaining_quantity
          /\ \A e \in InFlight : d.slot <= e.slot => AtMost(AddedOf(d, id), AddedOf(e, id))
    BY DEF ShrinkInv, DiffsShrink
  <2> QED  BY <1>1, <1>5, <2>1, <2>2 DEF DiffsShrink
<1>8. \A c \in Clients : SocketShrinks(c)'  BY <1>2, AwayShrinks
<1>9. Shrinking
  <2>1. \A c \in Clients : Entries(client'[c].view) = {}  BY <1>2, <1>3
  <2>2. Entries(orderbook') = {}  BY <1>1, <1>3
  <2> QED  BY <2>1, <2>2, NothingGrows DEF Shrinking
<1> QED  BY <1>6, <1>7, <1>8, <1>9 DEF ShrinkInv

\* The book gets what it was bound to get.
LEMMA ReceiveShrinks ==
  ASSUME FeedInv, FeedInv', ShrinkInv, Receive
  PROVE  ShrinkInv' /\ Shrinking
<1>1. TableInv /\ DiffInv /\ ServerTypes /\ BookInv /\ SocketsInv
  BY DEF FeedInv
<1>2. PICK h, book : h = Head(stream) /\ book = Apply(h, orderbook)  OBVIOUS
<1>3. /\ stream # << >> /\ inserted = << >> /\ orderbook' = book /\ inserted' = <<h>>
      /\ stream' = Tail(stream)
      /\ UNCHANGED <<live_orders, outbox, ob_channel, client>>
  BY <1>2 DEF Receive, chain, sockets
<1>4. /\ h \in Diffs /\ h \in ToSet(stream) /\ ToSet(stream) = {h} \cup ToSet(stream')
      /\ \A d \in ToSet(stream') : h.slot < d.slot
  BY <1>1, <1>2, <1>3, QueueTail DEF ServerTypes, BookInv, OrderInv
<1>5. ToSet(inserted') = {h} /\ ToSet(inserted) = {}
  BY <1>3, <1>4, QueueSingle, QueueNone
<1>6. /\ (Unreceived \cup ToSet(inserted))' = Unreceived \cup ToSet(inserted)
      /\ InFlight' = InFlight
      /\ h \in Unreceived /\ h \in InFlight
  BY <1>3, <1>4, <1>5 DEF Unreceived, InFlight
<1>7. KnownDiff(h) /\ KnownBook(orderbook) /\ Fresh(orderbook) /\ h.slot \in Nat
      /\ orderbook.slot \in Nat
  BY <1>1, <1>6, SlotsAre DEF BookInv
<1>8. /\ KnownBook(book) /\ book.slot = h.slot
      /\ \A id : id \notin Touched(h) => EntriesOf(book, id) = EntriesOf(orderbook, id)
      /\ \A id \in Touched(h) :
           Takes(h, id) \/ EntriesOf(orderbook, id) \subseteq AddedOf(h, id)
             => EntriesOf(book, id) = AddedOf(h, id)
  BY <1>2, <1>7, TakesOver
<1>9. \A id \in Touched(h) : EntriesOf(book, id) = AddedOf(h, id)
  BY <1>6, <1>7, <1>8 DEF Fresh
<1>10. ASSUME NEW b, Bounds(b)
       PROVE  Bounds(b)'
  <2> SUFFICES ASSUME NEW id \in OrderIds
               PROVE  AtMost(EntriesOf(b, id), EntriesOf(book, id))
    BY <1>3, <1>6, <1>10 DEF Bounds
  <2>1. CASE id \in Touched(h)  BY <1>6, <1>9, <1>10, <2>1 DEF Bounds
  <2>2. CASE id \notin Touched(h)  BY <1>8, <1>10, <2>2 DEF Bounds
  <2> QED  BY <2>1, <2>2
<1>11. \A d \in Unreceived \cup ToSet(inserted) : h.slot <= d.slot
  <2>1. \A d \in Unreceived : d = h \/ h.slot < d.slot
    BY <1>1, <1>4 DEF Unreceived, BookInv, OrderInv
  <2>2. \A d \in Unreceived : d.slot \in Nat  BY SlotsAre
  <2> QED  BY <1>5, <1>7, <2>1, <2>2
<1>12. Bounds(orderbook)'
  <2> SUFFICES ASSUME NEW id \in OrderIds
               PROVE  /\ \A e \in EntriesOf(book, id) :
                           live_orders[id].remaining_quantity <= e.order.remaining_quantity
                      /\ \A d \in Unreceived \cup ToSet(inserted) :
                           AtMost(EntriesOf(book, id), AddedOf(d, id))
                      /\ AtMost(EntriesOf(book, id), EntriesOf(book, id))
    BY <1>3, <1>6 DEF Bounds
  <2>1. CASE id \in Touched(h)
    <3>1. h.slot <= h.slot /\ Unreceived \cup ToSet(inserted) \subseteq InFlight
      BY <1>7 DEF InFlight
    <3> QED  BY <1>6, <1>9, <1>11, <2>1, <3>1 DEF ShrinkInv, DiffsShrink
  <2>2. CASE id \notin Touched(h)  BY <1>8, <2>2 DEF ShrinkInv, Bounds
  <2> QED  BY <2>1, <2>2
<1>13. DiffsShrink'
  <2> SUFFICES ASSUME NEW d \in InFlight, NEW id \in OrderIds, d.slot <= h.slot
               PROVE  AtMost(AddedOf(d, id), EntriesOf(book, id))
    BY <1>3, <1>6, <1>8 DEF ShrinkInv, DiffsShrink
  <2>1. CASE id \in Touched(h)  BY <1>6, <1>9, <2>1 DEF ShrinkInv, DiffsShrink
  <2>2. CASE id \notin Touched(h)
    <3>1. CASE d.slot <= orderbook.slot
      BY <1>8, <2>2, <3>1 DEF ShrinkInv, DiffsShrink
    <3>2. CASE ~(d.slot <= orderbook.slot)
      <4>1. d \in Unreceived
        <5>1. \A c \in Clients : \A e \in ToSet(client[c].rx) : e.slot <= orderbook.slot
          BY <1>1 DEF SocketsInv, SocketInv, SocketOrder
        <5> QED  BY <1>5, <3>2, <5>1 DEF InFlight
      <4>2. h.slot <= d.slot /\ d.slot \in Nat  BY <1>11, <4>1, SlotsAre
      <4>3. d.slot = h.slot  BY <1>7, <4>2
      <4>4. d = h  BY <1>1, <1>6, <4>3 DEF DiffInv
      <4>5. AddedOf(d, id) = {}  BY <1>4, <2>2, <4>4, Untouching
      <4> QED  BY <4>5 DEF AtMost
    <3> QED  BY <3>1, <3>2
  <2> QED  BY <2>1, <2>2
<1>14. ASSUME NEW c \in Clients PROVE SocketShrinks(c)'
  <2>1. PICK view : view = client[c].view  OBVIOUS
  <2>2. Bounds(view)'  BY <1>10, <2>1 DEF ShrinkInv, SocketShrinks
  <2>3. Bounds(client[c].view)'  BY <1>3, <2>1, <2>2
  <2>4. Subscribed(c)' => Subscribed(c)  BY <1>3 DEF Subscribed
  <2>5. SocketTypes(c)  BY <1>1 DEF SocketsInv, SocketInv
  <2>6. ToSet(inserted) \subseteq ToSet(inserted') /\ client'[c] = client[c]  BY <1>3, <1>5
  <2>7. LessComes(c)' /\ EvensOut(c)'
    BY <2>4, <2>5, <2>6, Unmoved DEF ShrinkInv, SocketShrinks
  <2> QED  BY <2>3, <2>7 DEF SocketShrinks
<1>15. Shrinking
  <2>1. orderbook \in States /\ book \in States  BY <1>7, <1>8 DEF KnownBook
  <2>2. \A id \in OrderIds : AtMost(EntriesOf(orderbook, id), EntriesOf(book, id))
    <3> TAKE id \in OrderIds
    <3>1. CASE id \in Touched(h)  BY <1>6, <1>9, <3>1 DEF ShrinkInv, Bounds
    <3>2. CASE id \notin Touched(h)  BY <1>8, <3>2 DEF ShrinkInv, Bounds
    <3> QED  BY <3>1, <3>2
  <2>3. ~Grows(orderbook, book)  BY <2>1, <2>2, NoGrowth
  <2> QED  BY <1>3, <2>3, NothingGrows DEF Shrinking
<1> QED  BY <1>12, <1>13, <1>14, <1>15 DEF ShrinkInv

-----------------------------------------------------------------------------
(* The steps of the sockets *)

\* The diff in hand is put into a queue that has room for it.
LEMMA PushedShrinks ==
  ASSUME FeedInv, ShrinkInv, NEW c \in Clients, NEW d \in Diffs, ToSet(inserted) = {d},
         Subscribed(c), ~client[c].lagged, NEW rx, rx = client[c].rx, client'[c].rx = Append(rx, d),
         client'[c].repeats = client[c].repeats, client'[c].view = client[c].view
  PROVE  LessComes(c)' /\ EvensOut(c)'
<1>1. /\ SocketTypes(c) /\ Fresh(client[c].view) /\ Bounds(client[c].view) /\ LessComes(c)
      /\ EvensOut(c)
  BY DEF FeedInv, SocketsInv, SocketInv, ShrinkInv, SocketShrinks
<1>2. PICK view, repeats, n, queue :
        /\ view = client[c].view /\ repeats = client[c].repeats
        /\ n = Len(rx) /\ queue = Append(rx, d)
  OBVIOUS
<1>3. rx \in Seq(Diffs) /\ repeats \in Nat
  BY <1>1, <1>2 DEF SocketTypes, SocketRecords
<1>4. n \in Nat /\ DOMAIN rx = 1..n  BY <1>2, <1>3, LenProperties
<1>5. /\ Len(queue) = n + 1 /\ DOMAIN queue = 1..(n + 1) /\ queue[n + 1] = d
      /\ \A i \in 1..n : queue[i] = rx[i]
  BY <1>2, <1>3, AppendProperties, LenProperties
<1>6. \A i \in 1..(n + 1) : i \in 1..n \/ i = n + 1  BY <1>4
<1>7. /\ client'[c].rx = queue /\ client'[c].repeats = repeats /\ client'[c].view = view
  BY <1>2
<1>8. /\ repeats <= n
      /\ \A i \in 1..n : repeats < i => \A id \in OrderIds :
           AtMost(EntriesOf(view, id), AddedOf(rx[i], id))
  BY <1>1, <1>2, <1>4 DEF LessComes
<1>9. LessComes(c)'
  <2>1. repeats <= n + 1  BY <1>3, <1>4, <1>8
  <2>2. \A id \in OrderIds : AtMost(EntriesOf(view, id), AddedOf(d, id))
    BY <1>1, <1>2 DEF Bounds
  <2>3. \A i \in 1..(n + 1) : repeats < i => \A id \in OrderIds :
          AtMost(EntriesOf(view, id), AddedOf(queue[i], id))
    BY <1>5, <1>6, <1>8, <2>2
  <2> QED  BY <1>5, <1>7, <2>1, <2>3 DEF LessComes
<1>10. EvensOut(c)'
  <2> SUFFICES ASSUME NEW id \in OrderIds
               PROVE  TakenNext(c, id)' \/ Agrees(view, queue, repeats, id)
    BY <1>7 DEF EvensOut
  <2>1. TakenNext(c, id) \/ Agrees(view, rx, repeats, id)
    BY <1>1, <1>2 DEF EvensOut, Joined
  <2>2. CASE TakenNext(c, id)
    <3>1. CASE repeats < n /\ Takes(rx[repeats + 1], id)
      <4>1. repeats + 1 \in 1..n /\ repeats < n + 1  BY <1>3, <1>4, <3>1
      <4>2. Takes(queue[repeats + 1], id)  BY <1>5, <3>1, <4>1
      <4> QED  BY <1>5, <1>7, <4>1, <4>2 DEF TakenNext
    <3>2. CASE repeats = n /\ \E e \in ToSet(inserted) : Takes(e, id)
      <4>1. Takes(queue[repeats + 1], id) /\ repeats < n + 1  BY <1>4, <1>5, <3>2
      <4> QED  BY <1>5, <1>7, <4>1 DEF TakenNext
    <3> QED  BY <1>2, <2>2, <3>1, <3>2 DEF TakenNext
  <2>3. CASE Agrees(view, rx, repeats, id)
    <3>1. \A i \in 1..n : i \in 1..(n + 1)  BY <1>4
    <3>2. (\A i \in 1..(n + 1) : i <= repeats => id \notin Touched(queue[i]))
             => AtMost(EntriesOf(view, id), EntriesOf(view, id))
      BY <1>4, <1>5, <2>3, <3>1 DEF Agrees
    <3>3. ASSUME NEW i \in 1..(n + 1), id \in Touched(queue[i]), ~Takes(queue[i], id),
                 \A k \in 1..(n + 1) : i < k /\ k <= repeats => id \notin Touched(queue[k])
          PROVE  EntriesOf(view, id) \subseteq AddedOf(queue[i], id)
      <4>1. CASE i \in 1..n
        <5>1. \A k \in 1..n : i < k /\ k <= repeats => id \notin Touched(rx[k])
          BY <1>5, <3>1, <3>3
        <5> QED  BY <1>4, <1>5, <2>3, <3>3, <4>1, <5>1 DEF Agrees
      <4>2. CASE i = n + 1
        <5>1. id \in Touched(d) /\ ~Takes(d, id) /\ queue[i] = d  BY <1>5, <3>3, <4>2
        <5> QED  BY <1>1, <1>2, <5>1 DEF Fresh
      <4> QED  BY <1>6, <4>1, <4>2
    <3> QED  BY <1>5, <3>2, <3>3 DEF Agrees
  <2> QED  BY <2>1, <2>2, <2>3
<1> QED  BY <1>9, <1>10

LEMMA SendShrinks ==
  ASSUME FeedInv, ShrinkInv, Send
  PROVE  ShrinkInv' /\ Shrinking
<1>1. ServerTypes /\ SocketsInv  BY DEF FeedInv
<1>2. PICK d : d = Head(inserted)  OBVIOUS
<1>3. /\ inserted # << >> /\ inserted' = << >>
      /\ client' = [c \in Clients |-> IF Subscribed(c) THEN Pushed(client[c], d) ELSE client[c]]
      /\ UNCHANGED <<live_orders, outbox, stream, orderbook, ob_channel>>
  BY <1>2 DEF Send, chain
<1>4. d \in Diffs /\ ToSet(inserted) = {d} /\ ToSet(inserted') = {}
  BY <1>1, <1>2, <1>3, QueueOne, QueueNone DEF ServerTypes
<1>5. ASSUME NEW c \in Clients
      PROVE  /\ client'[c].view = client[c].view
             /\ ToSet(client'[c].rx) \subseteq ToSet(client[c].rx) \cup {d}
             /\ LessComes(c)' /\ EvensOut(c)'
  <2>1. SocketTypes(c) /\ LessComes(c) /\ EvensOut(c)
    BY <1>1 DEF SocketsInv, SocketInv, ShrinkInv, SocketShrinks
  <2>2. PICK socket, next : socket = client[c] /\ next = client'[c]  OBVIOUS
  <2>3. PICK step \in SocketSteps, channel \in Nat, rx \in Seq(Diffs), lagged \in BOOLEAN,
             repeats \in Nat, view \in States :
          socket = [step |-> step, channel |-> channel, rx |-> rx, lagged |-> lagged,
                    repeats |-> repeats, view |-> view]
    <3>1. socket \in SocketRecords  BY <2>1, <2>2 DEF SocketTypes
    <3> QED  BY <3>1, SocketIs
  <2>4. CASE Subscribed(c) /\ Len(rx) < Cap
    <3>1. next = [socket EXCEPT !.rx = Append(rx, d)]
      <4>1. next = Pushed(socket, d)  BY <1>3, <2>2, <2>4
      <4>2. socket.rx = rx  BY <2>3
      <4> QED  BY <2>4, <4>1, <4>2 DEF Pushed
    <3>2. next = [step |-> step, channel |-> channel, rx |-> Append(rx, d), lagged |-> lagged,
                  repeats |-> repeats, view |-> view]
      BY <2>3, <3>1
    <3>3. /\ client'[c].rx = Append(rx, d) /\ client'[c].lagged = lagged
          /\ client'[c].repeats = repeats /\ client'[c].view = view
          /\ client[c].rx = rx /\ client[c].lagged = lagged
          /\ client[c].repeats = repeats /\ client[c].view = view
      BY <2>2, <2>3, <3>2
    <3>4. LessComes(c)' /\ EvensOut(c)'
      <4>1. CASE lagged  BY <3>3, <4>1 DEF LessComes, EvensOut
      <4>2. CASE ~lagged  BY <1>4, <2>4, <3>3, <4>2, PushedShrinks
      <4> QED  BY <4>1, <4>2
    <3>5. ToSet(Append(rx, d)) = ToSet(rx) \cup {d}  BY <1>4, QueueAppend
    <3> QED  BY <3>3, <3>4, <3>5
  <2>5. CASE Subscribed(c) /\ ~(Len(rx) < Cap)
    <3>1. PICK rest, queue : rest = Tail(rx) /\ queue = Append(rest, d)  OBVIOUS
    <3>2. next = [socket EXCEPT !.rx = queue, !.lagged = TRUE]
      <4>1. next = Pushed(socket, d)  BY <1>3, <2>2, <2>5
      <4>2. socket.rx = rx  BY <2>3
      <4> QED  BY <2>5, <3>1, <4>1, <4>2 DEF Pushed
    <3>3. next = [step |-> step, channel |-> channel, rx |-> queue, lagged |-> TRUE,
                  repeats |-> repeats, view |-> view]
      BY <2>3, <3>2
    <3>4. /\ client'[c].rx = queue /\ client'[c].lagged = TRUE /\ client'[c].view = view
          /\ client[c].rx = rx /\ client[c].view = view
      BY <2>2, <2>3, <3>3
    <3>5. LessComes(c)' /\ EvensOut(c)'  BY <3>4 DEF LessComes, EvensOut
    <3>6. ToSet(queue) \subseteq ToSet(rx) \cup {d}
      <4>1. rx # << >>
        <5>1. Cap \in Nat \ {0}  BY FeedAssumption DEF FeedAssumption
        <5>2. 0 < Cap  BY <5>1
        <5> QED  BY <2>5, <5>2, QueueNone
      <4>2. rest \in Seq(Diffs) /\ ToSet(rx) = {Head(rx)} \cup ToSet(rest)
        BY <3>1, <4>1, QueueTail
      <4>3. rest \in Seq(Diffs) /\ d \in Diffs  BY <1>4, <4>2
      <4>4. ToSet(Append(rest, d)) = ToSet(rest) \cup {d}  BY <4>3, QueueAppend
      <4> QED  BY <3>1, <4>2, <4>4
    <3> QED  BY <3>4, <3>5, <3>6
  <2>6. CASE ~Subscribed(c)
    <3>1. client'[c] = client[c]  BY <1>3, <2>6
    <3>2. ~Subscribed(c)'  BY <1>3, <2>6, <3>1 DEF Subscribed
    <3>3. LessComes(c)' /\ EvensOut(c)'  BY <2>1, <3>1, <3>2, Unmoved
    <3> QED  BY <3>1, <3>3
  <2> QED  BY <2>4, <2>5, <2>6
<1>6. /\ (Unreceived \cup ToSet(inserted))' \subseteq Unreceived \cup ToSet(inserted)
      /\ InFlight' \subseteq InFlight
  <2>1. Unreceived' = Unreceived  BY <1>3 DEF Unreceived
  <2>2. \A c \in Clients : ToSet(client'[c].rx) \subseteq InFlight
    BY <1>4, <1>5 DEF InFlight
  <2> QED  BY <1>4, <2>1, <2>2 DEF InFlight
<1>7. DiffsShrink'  BY <1>3, <1>6, FewerDiffs DEF ShrinkInv
<1>8. \A book : Bounds(book) => Bounds(book)'  BY <1>3, <1>6, FewerBounds
<1>9. Bounds(orderbook)'
  <2>1. PICK book : book = orderbook  OBVIOUS
  <2>2. Bounds(book)'  BY <1>8, <2>1 DEF ShrinkInv
  <2> QED  BY <1>3, <2>1, <2>2
<1>10. ASSUME NEW c \in Clients PROVE SocketShrinks(c)'
  <2>1. PICK view : view = client[c].view  OBVIOUS
  <2>2. Bounds(view)'  BY <1>8, <2>1 DEF ShrinkInv, SocketShrinks
  <2>3. Bounds(client[c].view)'  BY <1>5, <2>1, <2>2
  <2> QED  BY <1>5, <2>3 DEF SocketShrinks
<1>11. Shrinking  BY <1>3, <1>5, NothingGrows DEF Shrinking
<1> QED  BY <1>7, <1>9, <1>10, <1>11 DEF ShrinkInv

\* A step of one socket is of no concern to the others.
LEMMA OneSocketShrinks ==
  ASSUME FeedInv, ShrinkInv, NEW c \in Clients, NEW socket, SocketStep(c, socket),
         ob_channel' = ob_channel \/ ob_channel' = NewChannel,
         ToSet(socket.rx) \subseteq ToSet(client[c].rx),
         LessComes(c)', EvensOut(c)', Bounds(client[c].view)',
         Grows(client[c].view, socket.view) => client[c].repeats > 0
  PROVE  ShrinkInv' /\ Shrinking
<1>1. client'[c] = socket /\ \A k \in Clients : k # c => client'[k] = client[k]
  BY DEF SocketStep, FeedInv, SocketsInv
<1>2. UNCHANGED <<live_orders, outbox, stream, inserted, orderbook>>
  BY DEF SocketStep, chain
<1>3. /\ (Unreceived \cup ToSet(inserted))' = Unreceived \cup ToSet(inserted)
      /\ InFlight' \subseteq InFlight
  <2>1. Unreceived' = Unreceived  BY <1>2 DEF Unreceived
  <2>2. \A k \in Clients : ToSet(client'[k].rx) \subseteq ToSet(client[k].rx)
    BY <1>1
  <2> QED  BY <1>2, <2>1, <2>2 DEF InFlight
<1>4. DiffsShrink'  BY <1>2, <1>3, FewerDiffs DEF ShrinkInv
<1>5. \A book : Bounds(book) => Bounds(book)'  BY <1>2, <1>3, FewerBounds
<1>6. Bounds(orderbook)'
  <2>1. PICK book : book = orderbook  OBVIOUS
  <2>2. Bounds(book)'  BY <1>5, <2>1 DEF ShrinkInv
  <2> QED  BY <1>2, <2>1, <2>2
<1>7. ASSUME NEW k \in Clients PROVE SocketShrinks(k)'
  <2>1. CASE k = c  BY <2>1 DEF SocketShrinks
  <2>2. CASE k # c
    <3>1. client'[k] = client[k]  BY <1>1, <2>2
    <3>2. PICK view : view = client[k].view  OBVIOUS
    <3>3. Bounds(view)'  BY <1>5, <3>2 DEF ShrinkInv, SocketShrinks
    <3>4. Bounds(client[k].view)'  BY <3>1, <3>2, <3>3
    <3>5. client[k].channel # NewChannel  BY NewChannelIs
    <3>6. Subscribed(k)' => Subscribed(k)  BY <3>1, <3>5 DEF Subscribed
    <3>7. SocketTypes(k)  BY DEF FeedInv, SocketsInv, SocketInv
    <3>8. LessComes(k)' /\ EvensOut(k)'
      BY <1>2, <3>1, <3>6, <3>7, Unmoved DEF ShrinkInv, SocketShrinks
    <3> QED  BY <3>4, <3>8 DEF SocketShrinks
  <2> QED  BY <2>1, <2>2
<1>8. Shrinking
  <2>1. \A k \in Clients : Grows(client[k].view, client'[k].view) => client[k].repeats > 0
    <3> TAKE k \in Clients
    <3>1. CASE k = c  BY <1>1, <3>1
    <3>2. CASE k # c  BY <1>1, <3>2, NothingGrows
    <3> QED  BY <3>1, <3>2
  <2> QED  BY <1>2, <2>1, NothingGrows DEF Shrinking
<1> QED  BY <1>4, <1>6, <1>7, <1>8 DEF ShrinkInv

\* What comes of a book at a socket's step.
LEMMA AroundBounds ==
  ASSUME NEW c \in Clients, NEW socket, SocketStep(c, socket), NEW book, Bounds(book)
  PROVE  Bounds(book)'
<1>1. UNCHANGED <<live_orders, outbox, stream, inserted, orderbook>>
  BY DEF SocketStep, chain
<1>2. (Unreceived \cup ToSet(inserted))' = Unreceived \cup ToSet(inserted)
  BY <1>1 DEF Unreceived
<1> QED  BY <1>1, <1>2, FewerBounds

\* A socket that has nothing in its queue, and a book that says one thing of each
\* order.
LEMMA IdleShrinks ==
  ASSUME NEW c \in Clients, client'[c].rx = << >>, client'[c].repeats = 0,
         NEW view, client'[c].view = view,
         \A id \in OrderIds : AtMost(EntriesOf(view, id), EntriesOf(view, id))
  PROVE  LessComes(c)' /\ EvensOut(c)'
<1>1. DOMAIN client'[c].rx = {} /\ Len(client'[c].rx) = 0  OBVIOUS
<1>2. LessComes(c)'  BY <1>1 DEF LessComes
<1>3. \A id \in OrderIds : Agrees(view, client'[c].rx, client'[c].repeats, id)
  BY <1>1 DEF Agrees
<1>4. EvensOut(c)'  BY <1>3 DEF EvensOut
<1> QED  BY <1>2, <1>4

LEMMA OpenShrinks ==
  ASSUME FeedInv, FeedInv', ShrinkInv, NEW c \in Clients, Open(c)
  PROVE  ShrinkInv' /\ Shrinking
<1>1. PICK book, old : book = orderbook /\ old = client[c]  OBVIOUS
<1>2. PICK socket : socket = [old EXCEPT !.step = "opened", !.view = book]  OBVIOUS
<1>3. /\ old.step = "away" /\ SocketStep(c, socket) /\ ob_channel' = ob_channel
  BY <1>1, <1>2 DEF Open
<1>4. client'[c] = socket /\ orderbook' = orderbook /\ SocketTypes(c)
  BY <1>3, AroundSocket
<1>5. old \in SocketRecords /\ old.view = NoBook  BY <1>1, <1>3, <1>4 DEF SocketTypes
<1>6. socket.step = "opened" /\ socket.view = book
  <2>1. PICK step \in SocketSteps, channel \in Nat, rx \in Seq(Diffs), lagged \in BOOLEAN,
             repeats \in Nat, view \in States :
          old = [step |-> step, channel |-> channel, rx |-> rx, lagged |-> lagged,
                 repeats |-> repeats, view |-> view]
    BY <1>5, SocketIs
  <2>2. socket = [step |-> "opened", channel |-> channel, rx |-> rx, lagged |-> lagged,
                  repeats |-> repeats, view |-> book]
    BY <1>2, <2>1
  <2> QED  BY <2>2
<1>7. socket.rx = << >> /\ socket.repeats = 0
  BY <1>4, <1>6 DEF FeedInv, SocketsInv, SocketInv, SocketTypes
<1>8. Bounds(book)  BY <1>1 DEF ShrinkInv
<1>9. Bounds(client[c].view)'
  <2>1. Bounds(book)'  BY <1>3, <1>8, AroundBounds
  <2> QED  BY <1>4, <1>6, <2>1
<1>10. \A id \in OrderIds : AtMost(EntriesOf(book, id), EntriesOf(book, id))
  BY <1>1, <1>8 DEF Bounds
<1>11. LessComes(c)' /\ EvensOut(c)'  BY <1>4, <1>6, <1>7, <1>10, IdleShrinks
<1>12. ~Grows(client[c].view, socket.view)
  <2>1. Entries(client[c].view) = {}  BY <1>1, <1>5, NewStateProperties DEF NoBook
  <2> QED  BY <2>1, NothingGrows
<1>13. ToSet(socket.rx) \subseteq ToSet(client[c].rx)  BY <1>7, QueueNone
<1> QED  BY <1>3, <1>9, <1>11, <1>12, <1>13, OneSocketShrinks

LEMMA JoinShrinks ==
  ASSUME FeedInv, ShrinkInv, NEW c \in Clients, client[c].step \in {"opened", "create"},
         NEW socket, Alike(socket, client[c]), SocketStep(c, socket),
         ob_channel' = ob_channel \/ ob_channel' = NewChannel
  PROVE  ShrinkInv' /\ Shrinking
<1>1. client'[c] = socket /\ SocketTypes(c) /\ LessComes(c) /\ EvensOut(c)
      /\ Bounds(client[c].view)
  BY AroundSocket DEF ShrinkInv, SocketShrinks
<1>2. client[c].rx = << >> /\ client[c].repeats = 0 /\ client[c].lagged = FALSE
      /\ ~Subscribed(c) /\ Joined(c)
  BY <1>1 DEF SocketTypes, SocketRecords, Subscribed, Joined
<1>3. PICK view : view = client[c].view  OBVIOUS
<1>4. client'[c].rx = << >> /\ client'[c].repeats = 0 /\ client'[c].view = view
      /\ socket.rx = << >> /\ socket.view = view
  BY <1>1, <1>2, <1>3 DEF Alike
<1>5. ASSUME NEW id \in OrderIds
      PROVE  AtMost(EntriesOf(view, id), EntriesOf(view, id))
  <2>1. ~TakenNext(c, id)
    <3>1. Len(client[c].rx) = 0  BY <1>2
    <3> QED  BY <1>2, <3>1 DEF TakenNext
  <2>2. Agrees(view, << >>, 0, id)  BY <1>1, <1>2, <1>3, <2>1 DEF EvensOut
  <2>3. \A i : i \notin DOMAIN << >>  OBVIOUS
  <2> QED  BY <2>2, <2>3 DEF Agrees
<1>6. LessComes(c)' /\ EvensOut(c)'  BY <1>4, <1>5, IdleShrinks
<1>7. Bounds(client[c].view)'
  <2>1. Bounds(view)'  BY <1>1, <1>3, AroundBounds
  <2> QED  BY <1>4, <2>1
<1>8. ~Grows(client[c].view, socket.view)  BY <1>3, <1>4, NothingGrows
<1>9. ToSet(socket.rx) \subseteq ToSet(client[c].rx)  BY <1>4, QueueNone
<1> QED  BY <1>6, <1>7, <1>8, <1>9, OneSocketShrinks

LEMMA LookupShrinks ==
  ASSUME FeedInv, ShrinkInv, NEW c \in Clients, Lookup(c)
  PROVE  ShrinkInv' /\ Shrinking
<1>1. client[c] \in SocketRecords /\ client[c].step = "opened"
  BY DEF Lookup, FeedInv, SocketsInv, SocketInv, SocketTypes
<1>2. ob_channel \in Nat  BY DEF FeedInv, ServerTypes
<1>3. PICK old : old = client[c] /\ old \in SocketRecords  BY <1>1
<1>4. CASE ob_channel = 0
  <2>1. PICK socket : socket = Creating(old)  OBVIOUS
  <2>2. SocketStep(c, socket) /\ ob_channel' = ob_channel
    BY <1>3, <1>4, <2>1 DEF Lookup, Creating
  <2>3. Alike(socket, old)  BY <1>3, <2>1, Retold
  <2> QED  BY <1>1, <1>3, <2>2, <2>3, JoinShrinks
<1>5. CASE ob_channel # 0
  <2>1. PICK channel, socket :
          /\ channel = ob_channel /\ channel \in Nat
          /\ socket = Joining(old, channel)
    BY <1>2
  <2>2. SocketStep(c, socket) /\ ob_channel' = ob_channel
    BY <1>3, <1>5, <2>1 DEF Lookup, Joining
  <2>3. Alike(socket, old)  BY <1>3, <2>1, Retold
  <2> QED  BY <1>1, <1>3, <2>2, <2>3, JoinShrinks
<1> QED  BY <1>4, <1>5

LEMMA CreateShrinks ==
  ASSUME FeedInv, ShrinkInv, NEW c \in Clients, Create(c)
  PROVE  ShrinkInv' /\ Shrinking
<1>1. PICK channel, old : channel = NewChannel /\ old = client[c]  OBVIOUS
<1>2. channel \in Nat  BY <1>1, NewChannelIs
<1>3. PICK socket : socket = Joining(old, channel)
  OBVIOUS
<1>4. /\ SocketStep(c, socket) /\ ob_channel' = NewChannel /\ client[c].step = "create"
  BY <1>1, <1>3 DEF Create, Joining
<1>5. old \in SocketRecords  BY <1>1 DEF FeedInv, SocketsInv, SocketInv, SocketTypes
<1>6. Alike(socket, old)  BY <1>2, <1>3, <1>5, Retold
<1> QED  BY <1>1, <1>4, <1>6, JoinShrinks

LEMMA GoneShrinks ==
  ASSUME FeedInv, FeedInv', ShrinkInv, NEW c \in Clients, SocketStep(c, GoneSocket),
         ob_channel' = ob_channel
  PROVE  ShrinkInv' /\ Shrinking
<1>1. client'[c] = GoneSocket  BY AroundSocket
<1>2. client'[c].step = "gone"  BY <1>1 DEF GoneSocket, NewSocket
<1>3. client'[c].rx = << >> /\ client'[c].repeats = 0 /\ client'[c].view = NoBook
  BY <1>2 DEF FeedInv, SocketsInv, SocketInv, SocketTypes
<1>4. SocketShrinks(c)'  BY <1>2, <1>3, AwayShrinks
<1>5. ~Grows(client[c].view, GoneSocket.view)
  <2>1. Entries(GoneSocket.view) = {}  BY <1>1, <1>3, NewStateProperties DEF NoBook
  <2> QED  BY <2>1, NothingGrows
<1>6. ToSet(GoneSocket.rx) \subseteq ToSet(client[c].rx)  BY <1>1, <1>3, QueueNone
<1> QED  BY <1>4, <1>5, <1>6, OneSocketShrinks DEF SocketShrinks

\* After a lag the browser's book is the backend's, and what is queued comes again.
LEMMA LaggedShrinks ==
  ASSUME FeedInv, ShrinkInv, NEW c \in Clients, DeliverLagged(c)
  PROVE  ShrinkInv' /\ Shrinking
<1>1. PICK n, book, old : n = Len(client[c].rx) /\ book = orderbook /\ old = client[c]
  OBVIOUS
<1>2. PICK socket : socket = [old EXCEPT !.lagged = FALSE, !.repeats = n, !.view = book]
  OBVIOUS
<1>3. client[c].step = "listening" /\ SocketStep(c, socket) /\ ob_channel' = ob_channel
  BY <1>1, <1>2 DEF DeliverLagged
<1>4. /\ client'[c] = socket /\ inserted' = inserted
      /\ SocketTypes(c) /\ SocketOrder(c) /\ CatchesUp(c)
      /\ KnownBook(client[c].view) /\ BookInv /\ DiffInv
  BY <1>3, AroundSocket DEF FeedInv
<1>5. PICK step \in SocketSteps, channel \in Nat, rx \in Seq(Diffs), lagged \in BOOLEAN,
           repeats \in Nat, view \in States :
        old = [step |-> step, channel |-> channel, rx |-> rx, lagged |-> lagged,
               repeats |-> repeats, view |-> view]
  <2>1. old \in SocketRecords  BY <1>1, <1>4 DEF SocketTypes
  <2> QED  BY <2>1, SocketIs
<1>6. socket = [step |-> step, channel |-> channel, rx |-> rx, lagged |-> FALSE,
                repeats |-> n, view |-> book]
  <2>1. PICK x : x = [old EXCEPT !.lagged = FALSE]  OBVIOUS
  <2>2. x = [step |-> step, channel |-> channel, rx |-> rx, lagged |-> FALSE,
             repeats |-> repeats, view |-> view]
    BY <1>5, <2>1
  <2>3. PICK y : y = [x EXCEPT !.repeats = n]  OBVIOUS
  <2>4. y = [step |-> step, channel |-> channel, rx |-> rx, lagged |-> FALSE,
             repeats |-> n, view |-> view]
    BY <2>2, <2>3
  <2>5. socket = [y EXCEPT !.view = book]  BY <1>2, <2>1, <2>3
  <2> QED  BY <2>4, <2>5
<1>7. /\ socket.step = step /\ socket.channel = channel /\ socket.rx = rx
      /\ socket.repeats = n /\ socket.view = book
      /\ old.step = step /\ old.channel = channel /\ old.rx = rx /\ old.view = view
  BY <1>5, <1>6
<1> HIDE <1>5, <1>6
<1>8. n = Len(rx) /\ n \in Nat /\ DOMAIN rx = 1..n /\ Rises(rx)
  <2>1. n = Len(rx) /\ Rises(rx)  BY <1>1, <1>4, <1>7 DEF SocketOrder
  <2> QED  BY <2>1, LenProperties
<1>9. Bounds(book) /\ Bounds(book)'
  <2>1. Bounds(book)  BY <1>1 DEF ShrinkInv
  <2> QED  BY <1>3, <2>1, AroundBounds
<1>10. Bounds(client[c].view)'  BY <1>4, <1>7, <1>9
<1>11. LessComes(c)'
  <2>1. n <= n /\ \A i \in 1..n : ~(n < i)  BY <1>8
  <2> QED  BY <1>4, <1>7, <1>8, <2>1 DEF LessComes
<1>12. EvensOut(c)'
  <2> SUFFICES ASSUME Joined(c)', NEW id \in OrderIds, ~TakenNext(c, id)'
               PROVE  Agrees(book, rx, n, id)
    <3>1. ~(n < Len(rx))  BY <1>8
    <3> QED  BY <1>4, <1>7, <3>1 DEF EvensOut
  <2>1. Subscribed(c)' /\ Joined(c)
    BY <1>1, <1>3, <1>4, <1>7 DEF Joined, Subscribed
  <2>2. \A d \in ToSet(inserted) : ~Takes(d, id)
    BY <1>4, <1>7, <1>8, <2>1 DEF TakenNext
  <2>3. AtMost(EntriesOf(book, id), EntriesOf(book, id))  BY <1>1, <1>9 DEF Bounds
  <2>4. ASSUME NEW i \in 1..n, id \in Touched(rx[i]),
               \A k \in 1..n : i < k /\ k <= n => id \notin Touched(rx[k])
        PROVE  EntriesOf(book, id) \subseteq AddedOf(rx[i], id)
    <3>1. PICK e : e = rx[i]  OBVIOUS
    <3>2. e \in ToSet(rx) /\ ToSet(rx) \subseteq Coming(c)
      BY <1>1, <1>7, <1>8, <3>1 DEF ToSet, Coming
    <3>3. e \in InFlight /\ ToSet(inserted) \subseteq InFlight
      BY <1>1, <1>7, <3>2 DEF InFlight
    <3>4. \A d \in InFlight : d.slot \in Nat  BY SlotsAre
    <3>5. \A d \in ToSet(inserted) : id \notin Touched(d)
      <4> SUFFICES ASSUME NEW d \in ToSet(inserted), id \in Touched(d) PROVE FALSE
        OBVIOUS
      <4>1. e.slot < d.slot  BY <1>1, <1>4, <1>7, <3>2 DEF SocketOrder
      <4>2. d.slot <= e.slot  BY <1>4, <2>2, <2>4, <3>1, <3>3 DEF DiffInv
      <4> QED  BY <3>3, <3>4, <4>1, <4>2
    <3>6. ASSUME NEW d \in ToSet(rx), id \in Touched(d)
          PROVE  d.slot <= e.slot
      <4>1. PICK j \in 1..n : d = rx[j]  BY <1>8 DEF ToSet
      <4>2. ~(i < j)
        <5>1. j <= n  BY <1>8
        <5> QED  BY <2>4, <3>6, <4>1, <5>1
      <4>3. CASE j = i  BY <3>1, <3>3, <3>4, <4>1, <4>3
      <4>4. CASE j # i
        <5>1. j < i  BY <1>8, <4>2, <4>4
        <5>2. d.slot < e.slot  BY <1>8, <3>1, <4>1, <5>1 DEF Rises
        <5>3. d \in InFlight  BY <1>1, <1>7 DEF InFlight
        <5> QED  BY <3>3, <3>4, <5>2, <5>3
      <4> QED  BY <4>3, <4>4
    <3>7. Coming(c) = ToSet(rx) \cup ToSet(inserted)  BY <1>1, <1>7 DEF Coming
    <3>8. Latest(Coming(c), id, e)  BY <2>4, <3>1, <3>2, <3>5, <3>6, <3>7 DEF Latest
    <3>9. AddedOf(e, id) = EntriesOf(orderbook, id)  BY <1>4, <2>1, <3>2, <3>8 DEF CatchesUp
    <3> QED  BY <1>1, <3>1, <3>9
  <2> QED  BY <1>8, <2>3, <2>4 DEF Agrees
<1>13. ~Grows(client[c].view, socket.view)
  <2>1. client[c].view \in States /\ book \in States
    BY <1>1, <1>4 DEF BookInv, KnownBook
  <2>2. \A id \in OrderIds : AtMost(EntriesOf(client[c].view, id), EntriesOf(book, id))
    BY <1>1 DEF ShrinkInv, SocketShrinks, Bounds
  <2> QED  BY <1>7, <2>1, <2>2, NoGrowth
<1>14. ToSet(socket.rx) \subseteq ToSet(client[c].rx)  BY <1>1, <1>7
<1> QED  BY <1>3, <1>10, <1>11, <1>12, <1>13, <1>14, OneSocketShrinks

\* The browser gets the first diff of its queue.
LEMMA DeliverShrinks ==
  ASSUME FeedInv, ShrinkInv, NEW c \in Clients, Deliver(c)
  PROVE  ShrinkInv' /\ Shrinking
<1>1. PICK old : old = client[c]  OBVIOUS
<1>2. PICK h, book, less, socket :
        /\ h = Head(old.rx) /\ book = Apply(h, old.view)
        /\ less = (IF old.repeats = 0 THEN 0 ELSE old.repeats - 1)
        /\ socket = [old EXCEPT !.rx = Tail(@), !.repeats = less, !.view = book]
  OBVIOUS
<1>3. /\ ~old.lagged /\ old.rx # << >> /\ SocketStep(c, socket) /\ ob_channel' = ob_channel
  <2>1. ~old.lagged /\ old.rx # << >> /\ ob_channel' = ob_channel
    BY <1>1 DEF Deliver
  <2>2. SocketStep(c, [old EXCEPT !.rx = Tail(@), !.repeats = IF @ = 0 THEN 0 ELSE @ - 1,
                                  !.view = Apply(Head(old.rx), @)])
    BY <1>1 DEF Deliver
  <2> QED  BY <1>2, <2>1, <2>2
<1>4. /\ client'[c] = socket /\ inserted' = inserted
      /\ SocketTypes(c) /\ SocketOrder(c) /\ KnownBook(old.view) /\ DiffInv
  BY <1>1, <1>3, AroundSocket DEF FeedInv
<1>5. PICK step \in SocketSteps, channel \in Nat, rx \in Seq(Diffs), lagged \in BOOLEAN,
           repeats \in Nat, view \in States :
        old = [step |-> step, channel |-> channel, rx |-> rx, lagged |-> lagged,
               repeats |-> repeats, view |-> view]
  <2>1. old \in SocketRecords  BY <1>1, <1>4 DEF SocketTypes
  <2> QED  BY <2>1, SocketIs
<1>6. PICK rest : rest = Tail(rx)  OBVIOUS
<1>7. socket = [step |-> step, channel |-> channel, rx |-> rest, lagged |-> lagged,
                repeats |-> less, view |-> book]
  <2>1. old.rx = rx  BY <1>5
  <2>2. PICK x : x = [old EXCEPT !.rx = rest]  OBVIOUS
  <2>3. x = [step |-> step, channel |-> channel, rx |-> rest, lagged |-> lagged,
             repeats |-> repeats, view |-> view]
    BY <1>5, <2>2
  <2>4. PICK y : y = [x EXCEPT !.repeats = less]  OBVIOUS
  <2>5. y = [step |-> step, channel |-> channel, rx |-> rest, lagged |-> lagged,
             repeats |-> less, view |-> view]
    BY <2>3, <2>4
  <2>6. socket = [y EXCEPT !.view = book]
    <3>1. socket = [old EXCEPT !.rx = Tail(old.rx), !.repeats = less, !.view = book]  BY <1>2
    <3>2. socket = [old EXCEPT !.rx = rest, !.repeats = less, !.view = book]
      BY <1>6, <2>1, <3>1
    <3> QED  BY <2>2, <2>4, <3>2
  <2> QED  BY <2>5, <2>6
<1>8. /\ socket.step = step /\ socket.channel = channel /\ socket.rx = rest
      /\ socket.repeats = less /\ socket.view = book /\ socket.lagged = lagged
      /\ old.step = step /\ old.channel = channel /\ old.rx = rx /\ old.view = view
      /\ old.repeats = repeats /\ old.lagged = lagged
  BY <1>5, <1>7
<1> HIDE <1>5, <1>7
<1>9. PICK n : n = Len(rx) - 1  OBVIOUS
<1>10. /\ rx # << >> /\ h = rx[1] /\ rest \in Seq(Diffs) /\ Len(rest) = n /\ Len(rx) = n + 1
       /\ n \in Nat /\ DOMAIN rx = 1..(n + 1) /\ DOMAIN rest = 1..n
       /\ \A i \in 1..n : rest[i] = rx[i + 1]
       /\ h \in ToSet(rx) /\ ToSet(rx) = {h} \cup ToSet(rest)
       /\ \A e \in ToSet(rest) : h.slot < e.slot
  <2>1. rx # << >> /\ h = Head(rx) /\ Rises(rx)  BY <1>1, <1>2, <1>3, <1>4, <1>8 DEF SocketOrder
  <2>2. /\ h \in ToSet(rx) /\ rest \in Seq(Diffs) /\ Len(rest) = Len(rx) - 1
        /\ ToSet(rx) = {h} \cup ToSet(rest) /\ \A e \in ToSet(rest) : h.slot < e.slot
    BY <1>6, <2>1, QueueTail
  <2>3. Len(rx) \in Nat /\ DOMAIN rx = 1..Len(rx)  BY LenProperties
  <2>4. DOMAIN rest = 1..n /\ n \in Nat  BY <1>9, <2>2, LenProperties
  <2>5. h = rx[1] /\ \A i \in 1..n : rest[i] = rx[i + 1]
    BY <1>6, <1>9, <2>1, HeadTailProperties
  <2>6. Len(rx) = n + 1  BY <1>9, <2>3
  <2> QED  BY <1>9, <2>1, <2>2, <2>3, <2>4, <2>5, <2>6
<1>11. /\ h \in InFlight /\ ToSet(rx) \subseteq InFlight /\ h \in Diffs /\ KnownDiff(h)
       /\ h.slot \in Nat /\ \A e \in InFlight : e.slot \in Nat
       /\ h.slot <= orderbook.slot
  <2>1. ToSet(rx) \subseteq InFlight  BY <1>1, <1>8 DEF InFlight
  <2>2. h.slot <= orderbook.slot  BY <1>1, <1>4, <1>8, <1>10 DEF SocketOrder
  <2>3. \A e \in InFlight : e.slot \in Nat /\ KnownDiff(e)  BY SlotsAre
  <2> QED  BY <1>10, <2>1, <2>2, <2>3 DEF KnownDiff
<1>12. \A i \in 1..n : rest[i] \in InFlight /\ h.slot < rest[i].slot /\ rest[i] \in Diffs
  <2> TAKE i \in 1..n
  <2>1. rest[i] \in ToSet(rest)  BY <1>10 DEF ToSet
  <2>2. rest[i] \in Diffs
    <3>1. ToSet(rest) \subseteq Diffs  BY <1>10, QueueOf
    <3> QED  BY <2>1, <3>1
  <2> QED  BY <1>10, <1>11, <2>1, <2>2
\* What touches an order after the first diff takes it out.
<1>13. \A i \in 1..n : \A id \in Touched(h) \cap Touched(rest[i]) : Takes(rest[i], id)
  <2> SUFFICES ASSUME NEW i \in 1..n, NEW id \in Touched(h) \cap Touched(rest[i]),
                      ~Takes(rest[i], id)
               PROVE  FALSE
    OBVIOUS
  <2>1. rest[i].slot <= h.slot  BY <1>4, <1>11, <1>12 DEF DiffInv
  <2> QED  BY <1>11, <1>12, <2>1
<1>14. /\ book \in States
       /\ \A id : EntriesOf(book, id)
                    = (IF Takes(h, id) THEN {} ELSE EntriesOf(view, id)) \cup AddedOf(h, id)
  <2>1. view \in States /\ Home(Entries(view)) /\ HomeDiff(h) /\ book = Apply(h, view)
    BY <1>2, <1>4, <1>8, <1>11 DEF KnownBook, KnownDiff
  <2> QED  BY <1>11, <2>1, ApplyTells
<1>15. /\ Bounds(view) /\ DiffsShrink
       /\ repeats <= n + 1
       /\ \A i \in 1..(n + 1) : repeats < i => \A id \in OrderIds :
            AtMost(EntriesOf(view, id), AddedOf(rx[i], id))
  <2>1. Bounds(view) /\ DiffsShrink /\ LessComes(c)
    BY <1>1, <1>8 DEF ShrinkInv, SocketShrinks
  <2> QED  BY <1>1, <1>3, <1>8, <1>10, <2>1 DEF LessComes
<1>16. ASSUME NEW id \in OrderIds, NEW Y, AtMost(EntriesOf(view, id), Y), AtMost(AddedOf(h, id), Y)
       PROVE  AtMost(EntriesOf(book, id), Y)
  BY <1>14, <1>16 DEF AtMost
<1>17. Bounds(book)
  <2> SUFFICES ASSUME NEW id \in OrderIds
               PROVE  /\ \A e \in EntriesOf(book, id) :
                           live_orders[id].remaining_quantity <= e.order.remaining_quantity
                      /\ \A d \in Unreceived \cup ToSet(inserted) :
                           AtMost(EntriesOf(book, id), AddedOf(d, id))
                      /\ AtMost(EntriesOf(book, id), EntriesOf(orderbook, id))
    BY DEF Bounds
  <2>1. \A e \in EntriesOf(book, id) :
          live_orders[id].remaining_quantity <= e.order.remaining_quantity
    <3>1. \A e \in EntriesOf(book, id) : e \in EntriesOf(view, id) \/ e \in AddedOf(h, id)
      BY <1>14
    <3> QED  BY <1>11, <1>15, <3>1 DEF Bounds, DiffsShrink
  <2>2. ASSUME NEW d \in Unreceived \cup ToSet(inserted)
        PROVE  AtMost(EntriesOf(book, id), AddedOf(d, id))
    <3>1. d \in InFlight /\ d.slot \in Nat  BY <1>11 DEF InFlight
    <3>2. h.slot <= d.slot
      <4>1. orderbook.slot \in Nat  BY SlotsAre
      <4>2. CASE d \in Unreceived
        <5>1. orderbook.slot < d.slot  BY <4>2 DEF FeedInv, BookInv, OrderInv
        <5> QED  BY <1>11, <3>1, <4>1, <5>1
      <4>3. CASE d \in ToSet(inserted)
        <5>1. d.slot = orderbook.slot  BY <4>3 DEF FeedInv, BookInv, OrderInv
        <5> QED  BY <1>11, <5>1
      <4> QED  BY <4>2, <4>3
    <3>3. AtMost(AddedOf(h, id), AddedOf(d, id))  BY <1>11, <1>15, <3>1, <3>2 DEF DiffsShrink
    <3>4. AtMost(EntriesOf(view, id), AddedOf(d, id))  BY <1>15 DEF Bounds
    <3> QED  BY <1>16, <3>3, <3>4
  <2>3. AtMost(EntriesOf(book, id), EntriesOf(orderbook, id))
    <3>1. AtMost(AddedOf(h, id), EntriesOf(orderbook, id))  BY <1>11, <1>15 DEF DiffsShrink
    <3>2. AtMost(EntriesOf(view, id), EntriesOf(orderbook, id))  BY <1>15 DEF Bounds
    <3> QED  BY <1>16, <3>1, <3>2
  <2> QED  BY <2>1, <2>2, <2>3
<1>18. Bounds(client[c].view)'
  <2>1. Bounds(book)'  BY <1>3, <1>17, AroundBounds
  <2> QED  BY <1>4, <1>8, <2>1
<1>19. /\ less \in Nat /\ less <= n /\ repeats \in Nat
       /\ repeats = 0 => less = 0
       /\ repeats > 0 => less + 1 = repeats
  <2>1. less = IF repeats = 0 THEN 0 ELSE repeats - 1  BY <1>2, <1>8
  <2> QED  BY <1>10, <1>15, <2>1
<1>20. \A i \in 1..n : /\ i + 1 \in 1..(n + 1)
                       /\ less < i => repeats < i + 1
                       /\ i <= less => i + 1 <= repeats
  BY <1>10, <1>19
<1>21. LessComes(c)'
  <2> SUFFICES ASSUME NEW i \in 1..n, less < i, NEW id \in OrderIds
               PROVE  AtMost(EntriesOf(book, id), AddedOf(rest[i], id))
    BY <1>4, <1>8, <1>10, <1>19 DEF LessComes
  <2>1. AtMost(EntriesOf(view, id), AddedOf(rest[i], id))  BY <1>10, <1>15, <1>20
  <2>2. AtMost(AddedOf(h, id), AddedOf(rest[i], id))
    <3>1. h.slot <= rest[i].slot  BY <1>11, <1>12
    <3> QED  BY <1>11, <1>12, <1>15, <3>1 DEF DiffsShrink
  <2> QED  BY <1>16, <2>1, <2>2
<1>22. \A id \in OrderIds : AtMost(AddedOf(h, id), AddedOf(h, id))
  <2>1. h.slot <= h.slot  BY <1>11
  <2> QED  BY <1>11, <1>15, <2>1 DEF DiffsShrink
\* A diff that tells all the book says of its order.
<1>23. ASSUME NEW id \in OrderIds, Takes(h, id) \/ EntriesOf(view, id) \subseteq AddedOf(h, id)
       PROVE  AtMost(EntriesOf(book, id), EntriesOf(book, id))
  <2>1. EntriesOf(book, id) = AddedOf(h, id)  BY <1>14, <1>23
  <2> QED  BY <1>22, <2>1
<1>24. ASSUME Joined(c) \/ repeats < n + 1, NEW id \in OrderIds
       PROVE  TakenNext(c, id) \/ Agrees(view, rx, repeats, id)
  BY <1>1, <1>3, <1>8, <1>10, <1>24 DEF ShrinkInv, SocketShrinks, EvensOut
<1>25. ASSUME NEW id \in OrderIds, ~Takes(h, id), TakenNext(c, id)
       PROVE  repeats > 0
  <2>1. ~(repeats = 0)
    <3> SUFFICES ASSUME repeats = 0 PROVE FALSE
      OBVIOUS
    <3>1. repeats # n + 1 /\ repeats + 1 = 1  BY <1>10
    <3>2. Takes(rx[repeats + 1], id)  BY <1>1, <1>8, <1>10, <1>25, <3>1 DEF TakenNext
    <3> QED  BY <1>10, <1>25, <3>1, <3>2
  <2> QED  BY <1>19, <2>1
<1>26. EvensOut(c)'
  <2> SUFFICES ASSUME Joined(c)' \/ less < n, NEW id \in OrderIds
               PROVE  TakenNext(c, id)' \/ Agrees(book, rest, less, id)
    BY <1>4, <1>8, <1>10 DEF EvensOut
  <2>1. Subscribed(c)' <=> Subscribed(c)  BY <1>1, <1>3, <1>4, <1>8 DEF Subscribed
  <2>2. Joined(c) \/ repeats < n + 1
    <3>1. Joined(c)' => Joined(c)  BY <1>1, <1>4, <1>8, <2>1 DEF Joined
    <3>2. less < n => repeats < n + 1  BY <1>10, <1>19
    <3> QED  BY <3>1, <3>2
  <2>3. CASE Takes(h, id)
    <3>1. AtMost(EntriesOf(book, id), EntriesOf(book, id))  BY <1>23, <2>3
    <3>2. id \in Touched(h)  BY <1>11, <2>3, Untouching
    <3>3. \A i \in 1..n : id \in Touched(rest[i]) => Takes(rest[i], id)  BY <1>13, <3>2
    <3> QED  BY <1>10, <3>1, <3>3 DEF Agrees
  <2>4. CASE ~Takes(h, id) /\ TakenNext(c, id)
    <3>1. repeats > 0 /\ less + 1 = repeats  BY <1>19, <1>25, <2>4
    <3>2. CASE repeats < n + 1 /\ Takes(rx[repeats + 1], id)
      <4>1. less < n /\ less + 1 \in 1..n  BY <1>10, <1>19, <3>1, <3>2
      <4>2. rest[less + 1] = rx[repeats + 1]
        <5>1. rest[less + 1] = rx[(less + 1) + 1]  BY <1>10, <4>1
        <5> QED  BY <3>1, <5>1
      <4> QED  BY <1>4, <1>8, <1>10, <3>2, <4>1, <4>2 DEF TakenNext
    <3>3. CASE /\ repeats = n + 1 /\ Subscribed(c)
               /\ \E d \in ToSet(inserted) : Takes(d, id)
      <4>1. less = n  BY <1>10, <1>19, <3>1, <3>3
      <4> QED  BY <1>4, <1>8, <1>10, <2>1, <3>3, <4>1 DEF TakenNext
    <3> QED  BY <1>1, <1>8, <1>10, <2>4, <3>2, <3>3 DEF TakenNext
  <2>5. CASE ~Takes(h, id) /\ Agrees(view, rx, repeats, id)
    <3>1. /\ (\A k \in 1..(n + 1) : k <= repeats => id \notin Touched(rx[k]))
               => AtMost(EntriesOf(view, id), EntriesOf(view, id))
          /\ \A i \in 1..(n + 1) :
               /\ id \in Touched(rx[i]) /\ ~Takes(rx[i], id)
               /\ \A k \in 1..(n + 1) : i < k /\ k <= repeats => id \notin Touched(rx[k])
               => EntriesOf(view, id) \subseteq AddedOf(rx[i], id)
      BY <1>10, <2>5 DEF Agrees
    \* The queue is the first diff and the rest.
    <3>2. ASSUME NEW k \in 1..(n + 1)
          PROVE  \/ k = 1
                 \/ /\ k - 1 \in 1..n /\ rx[k] = rest[k - 1] /\ k > 1
                    /\ k <= repeats => k - 1 <= less
      <4>1. CASE k = 1  BY <4>1
      <4>2. CASE k # 1
        <5>1. k - 1 \in 1..n /\ (k - 1) + 1 = k /\ k > 1  BY <1>10, <4>2
        <5>2. rx[k] = rest[k - 1]
          <6>1. rest[k - 1] = rx[(k - 1) + 1]  BY <1>10, <5>1
          <6> QED  BY <5>1, <6>1
        <5>3. k <= repeats => k - 1 <= less  BY <1>10, <1>19
        <5> QED  BY <5>1, <5>2, <5>3
      <4> QED  BY <4>1, <4>2
    <3>3. CASE id \in Touched(h)
      <4>1. \A i \in 1..n : id \in Touched(rest[i]) => Takes(rest[i], id)  BY <1>13, <3>3
      <4>2. ASSUME \A i \in 1..n : i <= less => id \notin Touched(rest[i])
            PROVE  AtMost(EntriesOf(book, id), EntriesOf(book, id))
        <5>1. \A k \in 1..(n + 1) : 1 < k /\ k <= repeats => id \notin Touched(rx[k])
          BY <3>2, <4>2
        <5>2. 1 \in 1..(n + 1)  BY <1>10
        <5>3. EntriesOf(view, id) \subseteq AddedOf(h, id)
          BY <1>10, <2>5, <3>1, <3>3, <5>1, <5>2
        <5> QED  BY <1>23, <5>3
      <4> QED  BY <1>10, <4>1, <4>2 DEF Agrees
    <3>4. CASE id \notin Touched(h)
      <4>1. EntriesOf(book, id) = EntriesOf(view, id)
        BY <1>11, <1>14, <3>4, Untouching
      <4>2. ASSUME \A i \in 1..n : i <= less => id \notin Touched(rest[i])
            PROVE  AtMost(EntriesOf(book, id), EntriesOf(book, id))
        <5>1. \A k \in 1..(n + 1) : k <= repeats => id \notin Touched(rx[k])
          BY <1>10, <3>2, <3>4, <4>2
        <5> QED  BY <3>1, <4>1, <5>1
      <4>3. ASSUME NEW i \in 1..n, id \in Touched(rest[i]), ~Takes(rest[i], id),
                   \A k \in 1..n : i < k /\ k <= less => id \notin Touched(rest[k])
            PROVE  EntriesOf(book, id) \subseteq AddedOf(rest[i], id)
        <5>1. i + 1 \in 1..(n + 1) /\ rest[i] = rx[i + 1]  BY <1>10, <1>20
        <5>2. ASSUME NEW k \in 1..(n + 1), i + 1 < k, k <= repeats
              PROVE  id \notin Touched(rx[k])
          <6>1. k - 1 \in 1..n /\ rx[k] = rest[k - 1] /\ k - 1 <= less /\ i < k - 1
            BY <1>10, <3>2, <5>2
          <6> QED  BY <4>3, <6>1
        <5> QED  BY <3>1, <4>1, <4>3, <5>1, <5>2
      <4> QED  BY <1>10, <4>2, <4>3 DEF Agrees
    <3> QED  BY <3>3, <3>4
  <2> QED  BY <1>24, <2>2, <2>3, <2>4, <2>5
<1>27. ASSUME repeats = 0
       PROVE  ~Grows(view, book)
  <2> SUFFICES ASSUME NEW id \in OrderIds
               PROVE  AtMost(EntriesOf(view, id), EntriesOf(book, id))
    BY <1>14, NoGrowth
  <2>1. 1 \in 1..(n + 1) /\ repeats < 1 /\ repeats < n + 1  BY <1>10, <1>27
  <2>2. AtMost(EntriesOf(view, id), AddedOf(h, id))  BY <1>10, <1>15, <2>1
  <2>3. CASE Takes(h, id)
    <3>1. EntriesOf(book, id) = AddedOf(h, id)  BY <1>14, <2>3
    <3> QED  BY <2>2, <3>1
  <2>4. CASE ~Takes(h, id)
    <3>1. ~TakenNext(c, id)  BY <1>25, <1>27, <2>4
    <3>2. Agrees(view, rx, repeats, id)  BY <1>24, <2>1, <3>1
    <3>3. \A i \in 1..(n + 1) : ~(i <= repeats)  BY <1>10, <1>27
    <3>4. AtMost(EntriesOf(view, id), EntriesOf(view, id))  BY <1>10, <3>2, <3>3 DEF Agrees
    <3>5. EntriesOf(book, id) = EntriesOf(view, id) \cup AddedOf(h, id)  BY <1>14, <2>4
    <3> QED  BY <2>2, <3>4, <3>5 DEF AtMost
  <2> QED  BY <2>3, <2>4
<1>28. Grows(client[c].view, socket.view) => client[c].repeats > 0
  <2>1. repeats = 0 \/ repeats > 0  BY <1>19
  <2> QED  BY <1>1, <1>8, <1>27, <2>1
<1>29. ToSet(socket.rx) \subseteq ToSet(client[c].rx)  BY <1>1, <1>8, <1>10
<1> QED  BY <1>3, <1>18, <1>21, <1>26, <1>28, <1>29, OneSocketShrinks

LEMMA TasksShrink ==
  ASSUME FeedInv, FeedInv', ShrinkInv, Tasks
  PROVE  ShrinkInv' /\ Shrinking
<1>1. CASE Publish \/ Subscribe  BY <1>1, RedisShrinks
<1>2. CASE Bootstrap  BY <1>2, BootstrapShrinks
<1>3. CASE Receive  BY <1>3, ReceiveShrinks
<1>4. CASE Send  BY <1>4, SendShrinks
<1>5. ASSUME NEW c \in Clients, Socket(c)
      PROVE  ShrinkInv' /\ Shrinking
  <2>1. CASE Lookup(c)  BY <2>1, LookupShrinks
  <2>2. CASE Create(c)  BY <2>2, CreateShrinks
  <2>3. CASE Deliver(c)  BY <2>3, DeliverShrinks
  <2>4. CASE DeliverLagged(c)  BY <2>4, LaggedShrinks
  <2>5. CASE EndOrphan(c)  BY <2>5, GoneShrinks DEF EndOrphan
  <2> QED  BY <1>5, <2>1, <2>2, <2>3, <2>4, <2>5 DEF Socket
<1> QED  BY <1>1, <1>2, <1>3, <1>4, <1>5 DEF Tasks, Backend

LEMMA ShrinkStep == FeedInv /\ FeedInv' /\ ShrinkInv /\ [Next]_vars => ShrinkInv' /\ Shrinking
<1> SUFFICES ASSUME FeedInv, FeedInv', ShrinkInv, [Next]_vars PROVE ShrinkInv' /\ Shrinking
  OBVIOUS
<1>1. CASE Events  BY <1>1, EventsShrink
<1>2. CASE Tasks  BY <1>2, TasksShrink
<1>3. ASSUME NEW c \in Clients, Open(c)
      PROVE  ShrinkInv' /\ Shrinking
  BY <1>3, OpenShrinks
<1>4. ASSUME NEW c \in Clients, Leave(c)
      PROVE  ShrinkInv' /\ Shrinking
  BY <1>4, GoneShrinks DEF Leave
<1>5. CASE Unpublished \/ Disconnect  BY <1>5, RedisShrinks
<1>6. CASE Restart  BY <1>6, RestartShrinks
<1>7. CASE UNCHANGED vars
  <2>1. UNCHANGED <<live_orders, outbox, stream, inserted, orderbook, ob_channel, client>>
    BY <1>7 DEF vars, chain, server, sockets
  <2>2. Unreceived' \subseteq Unreceived  BY <2>1 DEF Unreceived
  <2> QED  BY <2>1, <2>2, FewerShrinks
<1> QED  BY <1>1, <1>2, <1>3, <1>4, <1>5, <1>6, <1>7 DEF Next

\* What is left of an order never grows in the backend's book, and in a browser only
\* while it gets the diffs again that were queued when it lagged.
THEOREM ShrinkCorrect == Spec => OrdersOnlyShrink
<1>1. FeedInv /\ FeedInv' /\ ShrinkInv /\ [Next]_vars => [Shrinking]_vars
  BY ShrinkStep
<1>2. FeedInv /\ FeedInv' /\ ShrinkInv /\ [Next]_vars => ShrinkInv'
  BY ShrinkStep
<1>3. Spec => [][Shrinking]_vars
  BY <1>1, <1>2, FeedCorrect, ShrinkInit, PTL DEF Spec
<1> QED  BY <1>3 DEF OrdersOnlyShrink, Shrinking

-----------------------------------------------------------------------------
(* How often a book has an order: the second invariant *)

\* A diff that puts an order in without taking it out, as that of an order placed.
Puts(d, id) == id \in Touched(d) /\ ~Takes(d, id)

\* The backend's book: what is put in is not there yet, but for the orders that were
\* in the snapshot; what the diff in hand, or one that is still with a browser, took
\* out is there once at most.
MemoryTwice ==
  /\ Serving => \A id \in OrderIds \ (lost \cup twice) :
       /\ NoneOf(Unreceived, id) => id \notin Doubled(orderbook)
       /\ \A d \in Unreceived : Latest(Unreceived, id, d) /\ ~Takes(d, id)
            => EntriesOf(orderbook, id) = {}
  /\ \A d \in ToSet(outbox) : \A id : Puts(d, id) => EntriesOf(orderbook, id) = {} \/ id \in twice
  /\ \A d \in Unreceived : d.slot <= upto => Doubled(orderbook) = {}
  /\ \A d \in ToSet(inserted) : \A id : Takes(d, id) => id \notin Doubled(orderbook)

TwiceTypes ==
  /\ twice \subseteq OrderIds
  /\ again = [c \in Clients |-> again[c]]
  /\ \A c \in Clients : again[c] \subseteq OrderIds

\* What a socket has not seen was placed, and is not put in any more.
UnseenOnce(c) ==
  /\ unseen[c] \subseteq DOMAIN live_orders
  /\ \A d \in Unreceived \cup ToSet(inserted) : \A id \in unseen[c] : ~Puts(d, id)

\* The browser has an order as often as the book, if no diff of it is coming; and a
\* diff that puts it in finds it there if and only if it did so in the book.
ShowsTwice(c) ==
  Joined(c) /\ ~client[c].lagged => \A id \in OrderIds \ (unseen[c] \cup again[c]) :
    /\ NoneOf(Coming(c), id) => (id \in Doubled(client[c].view) <=> id \in Doubled(orderbook))
    /\ \A d \in Coming(c) : Latest(Coming(c), id, d) /\ ~Takes(d, id)
         => (EntriesOf(client[c].view, id) # {} <=> id \in Doubled(orderbook))

SocketTwice(c) ==
  /\ \A d \in ToSet(client[c].rx) : \A id : Takes(d, id) => id \notin Doubled(orderbook)
  /\ UnseenOnce(c) /\ ShowsTwice(c)

TwiceInv == TwiceTypes /\ MemoryTwice /\ \A c \in Clients : SocketTwice(c)

LEMMA DoubledHas ==
  ASSUME NEW book, NEW id \in Doubled(book)
  PROVE  EntriesOf(book, id) # {}
<1>1. PICK side \in Sides : Twice(book.orders[side], id)  BY DoubledIs
<1>2. PICK i \in DOMAIN book.orders[side] : book.orders[side][i].order_id = id
  BY <1>1 DEF Twice
<1>3. PICK o : o = book.orders[side][i]  OBVIOUS
<1>4. PICK e : e = [side |-> side, order |-> o]  OBVIOUS
<1>5. e \in Entries(book) /\ e.order.order_id = id
  BY <1>2, <1>3, <1>4, EntryIn DEF ToSet
<1> QED  BY <1>5 DEF EntriesOf

\* What a diff says of an order that it puts in.
LEMMA PutsAdds ==
  ASSUME NEW d \in Diffs, NEW id, Puts(d, id)
  PROVE  AddedOf(d, id) # {}
<1>1. PICK side \in Sides : id \in Ids(d.added[side])  BY DEF Puts, Takes, Touched
<1>2. PICK i \in DOMAIN d.added[side] : d.added[side][i].order_id = id  BY <1>1 DEF Ids
<1>3. PICK o : o = d.added[side][i]  OBVIOUS
<1>4. PICK e : e = [side |-> side, order |-> o]  OBVIOUS
<1>5. e \in AddedBy(d) /\ e.order.order_id = id  BY <1>2, <1>3, <1>4, AddedAre DEF ToSet
<1> QED  BY <1>5 DEF AddedOf

LEMMA PutsIs ==
  ASSUME NEW d, NEW id
  PROVE  /\ id \in PutIn(d) <=> Puts(d, id)
         /\ id \in TakenOut(d) <=> Takes(d, id)
BY DEF PutIn, TakenOut, Puts, Takes

\* An order stands on its side alone.
LEMMA OwnSide ==
  ASSUME NEW book, Home(Entries(book)), NEW id
  PROVE  /\ \A side \in Sides : id \in Ids(book.orders[side])
              => side = Menu[id].side /\ EntriesOf(book, id) # {}
         /\ EntriesOf(book, id) # {}
              => Menu[id].side \in Sides /\ id \in Ids(book.orders[Menu[id].side])
<1>1. ASSUME NEW side \in Sides, id \in Ids(book.orders[side])
      PROVE  side = Menu[id].side /\ EntriesOf(book, id) # {}
  <2>1. PICK i \in DOMAIN book.orders[side] : book.orders[side][i].order_id = id
    BY <1>1 DEF Ids
  <2>2. PICK o : o = book.orders[side][i]  OBVIOUS
  <2>3. PICK e : e = [side |-> side, order |-> o]  OBVIOUS
  <2>4. e \in Entries(book) /\ e.order.order_id = id /\ e.side = side
    BY <2>1, <2>2, <2>3, EntryIn DEF ToSet
  <2> QED  BY <2>4 DEF EntriesOf, Home
<1>2. ASSUME NEW e \in EntriesOf(book, id)
      PROVE  Menu[id].side \in Sides /\ id \in Ids(book.orders[Menu[id].side])
  <2>1. e \in Entries(book) /\ e.order.order_id = id  BY DEF EntriesOf
  <2>2. e.side \in Sides /\ e.order \in ToSet(book.orders[e.side])  BY <2>1, EntryIs
  <2>3. e.side = Menu[id].side  BY <2>1 DEF Home
  <2> QED  BY <2>1, <2>2, <2>3 DEF Ids, ToSet
<1> QED  BY <1>1, <1>2

LEMMA OwnSideAdded ==
  ASSUME NEW d, HomeDiff(d), NEW id
  PROVE  /\ \A side \in Sides : id \in Ids(d.added[side])
              => side = Menu[id].side /\ AddedOf(d, id) # {}
         /\ AddedOf(d, id) # {}
              => Menu[id].side \in Sides /\ id \in Ids(d.added[Menu[id].side])
<1>1. ASSUME NEW side \in Sides, id \in Ids(d.added[side])
      PROVE  side = Menu[id].side /\ AddedOf(d, id) # {}
  <2>1. PICK i \in DOMAIN d.added[side] : d.added[side][i].order_id = id
    BY <1>1 DEF Ids
  <2>2. PICK o : o = d.added[side][i]  OBVIOUS
  <2>3. PICK e : e = [side |-> side, order |-> o]  OBVIOUS
  <2>4. e \in AddedBy(d) /\ e.order.order_id = id /\ e.side = side
    BY <2>1, <2>2, <2>3, AddedAre DEF ToSet
  <2> QED  BY <2>4 DEF AddedOf, Home, HomeDiff
<1>2. ASSUME NEW e \in AddedOf(d, id)
      PROVE  Menu[id].side \in Sides /\ id \in Ids(d.added[Menu[id].side])
  <2>1. e \in AddedBy(d) /\ e.order.order_id = id  BY DEF AddedOf
  <2>2. e.side \in Sides /\ e.order \in ToSet(d.added[e.side])  BY <2>1, AddedIs
  <2>3. e.side = Menu[id].side  BY <2>1 DEF Home, HomeDiff
  <2> QED  BY <2>1, <2>2, <2>3 DEF Ids, ToSet
<1> QED  BY <1>1, <1>2

\* A diff gives an order twice if it puts it into a book that has it, and once if it
\* takes it out first.
LEMMA ApplyDoubles ==
  ASSUME NEW book \in States, NEW d \in Diffs, Home(Entries(book)), HomeDiff(d), NEW id
  PROVE  id \in Doubled(Apply(d, book))
           <=> /\ ~Takes(d, id)
               /\ id \in Doubled(book) \/ (AddedOf(d, id) # {} /\ EntriesOf(book, id) # {})
<1>1. PICK next, m : next = Apply(d, book) /\ m = Menu[id].side  OBVIOUS
<1>2. ASSUME NEW side \in Sides
      PROVE  Twice(next.orders[side], id)
               <=> /\ id \notin d.removed[side]
                   /\ \/ Twice(book.orders[side], id)
                      \/ id \in Ids(book.orders[side]) /\ id \in Ids(d.added[side])
  <2>1. ~Twice(d.added[side], id)
    <3>1. PICK added : added = d.added[side]  OBVIOUS
    <3>2. added \in Seq(Orders) /\ Len(added) <= 1  BY <3>1 DEF Diffs, DiffsOf, HomeDiff
    <3>3. DOMAIN added = 1..Len(added) /\ Len(added) \in Nat  BY <3>2, LenProperties
    <3>4. \A i, j \in DOMAIN added : i = j  BY <3>2, <3>3
    <3> QED  BY <3>1, <3>4 DEF Twice
  <2>2. book \in StatesOf(Orders) /\ d \in DiffsOf(Orders, OrderIds)  BY DEF States, Diffs
  <2> QED  BY <1>1, <2>1, <2>2, OrdersArePriced, SideTwice
<1>3. /\ \A side \in Sides : id \in Ids(book.orders[side]) => side = m /\ EntriesOf(book, id) # {}
      /\ EntriesOf(book, id) # {} => m \in Sides /\ id \in Ids(book.orders[m])
  BY <1>1, OwnSide
<1>4. /\ \A side \in Sides : id \in Ids(d.added[side]) => side = m /\ AddedOf(d, id) # {}
      /\ AddedOf(d, id) # {} => m \in Sides /\ id \in Ids(d.added[m])
  BY <1>1, OwnSideAdded
<1>5. \A side \in Sides : id \in d.removed[side] <=> side = m /\ Takes(d, id)
  BY <1>1 DEF HomeDiff, Takes
<1>6. \A side \in Sides : Twice(book.orders[side], id) => id \in Ids(book.orders[side])
  BY DEF Twice, Ids
<1>7. /\ id \in Doubled(next) <=> \E side \in Sides : Twice(next.orders[side], id)
      /\ id \in Doubled(book) <=> \E side \in Sides : Twice(book.orders[side], id)
  BY DoubledIs
<1>8. ASSUME id \in Doubled(next)
      PROVE  /\ ~Takes(d, id)
             /\ id \in Doubled(book) \/ (AddedOf(d, id) # {} /\ EntriesOf(book, id) # {})
  <2>1. PICK side \in Sides : Twice(next.orders[side], id)  BY <1>7, <1>8
  <2>2. /\ id \notin d.removed[side]
        /\ \/ Twice(book.orders[side], id)
           \/ id \in Ids(book.orders[side]) /\ id \in Ids(d.added[side])
    BY <1>2, <2>1
  <2>3. side = m  BY <1>3, <1>6, <2>2
  <2> QED  BY <1>3, <1>4, <1>5, <1>7, <2>2, <2>3
<1>9. ASSUME ~Takes(d, id),
             id \in Doubled(book) \/ (AddedOf(d, id) # {} /\ EntriesOf(book, id) # {})
      PROVE  id \in Doubled(next)
  <2>1. \A side \in Sides : id \notin d.removed[side]  BY <1>9 DEF Takes
  <2>2. CASE id \in Doubled(book)  BY <1>2, <1>7, <2>1, <2>2
  <2>3. CASE AddedOf(d, id) # {} /\ EntriesOf(book, id) # {}
    BY <1>2, <1>3, <1>4, <1>7, <2>1, <2>3
  <2> QED  BY <1>9, <2>2, <2>3
<1> QED  BY <1>1, <1>8, <1>9

\* After the diffs a book has an order twice if it had it and none touches it, or if
\* it had it and the last that touches it puts it in.
LEMMA AppliedDoubles ==
  ASSUME NEW book \in States, NEW diffs \in Seq(Diffs), Home(Entries(book)),
         \A i \in DOMAIN diffs : HomeDiff(diffs[i]), NEW id, NEW ids,
         \A i, j \in DOMAIN diffs :
           i < j /\ id \in Touched(diffs[i]) /\ id \in Touched(diffs[j]) => Takes(diffs[j], id),
         Untold(diffs, id) => (id \in Doubled(book) <=> id \in ids),
         \A i \in DOMAIN diffs : LastOf(diffs, id, i) =>
           /\ Takes(diffs[i], id) => id \notin ids
           /\ ~Takes(diffs[i], id) => (EntriesOf(book, id) # {} <=> id \in ids)
  PROVE  id \in Doubled(Applied(diffs, book)) <=> id \in ids
<1> DEFINE n == Len(diffs)
           touches(i) == id \in Touched(diffs[i])
           taken(i) == Takes(diffs[i], id)
           had == EntriesOf(book, id) # {}
<1>1. n \in Nat /\ DOMAIN diffs = 1..n /\ \A i \in 1..n : diffs[i] \in Diffs
  BY LenProperties
<1>2. PICK steps :
        /\ steps \in [0..n -> States] /\ steps[0] = book
        /\ \A i \in 1..n : steps[i] = Apply(diffs[i], steps[i - 1])
        /\ steps[n] = Applied(diffs, book)
  <2>1. PICK steps : AppliedBy(steps, diffs, book)  BY AppliedSteps
  <2> QED  BY <2>1 DEF AppliedBy
<1> DEFINE has(i) == EntriesOf(steps[i], id) # {}
           twice_(i) == id \in Doubled(steps[i])
           A == {i \in 0..n :
                   /\ Home(Entries(steps[i]))
                   /\ (\A j \in 1..i : ~touches(j)) => /\ has(i) <=> had
                                                       /\ twice_(i) <=> id \in Doubled(book)
                   /\ \A j \in 1..i : touches(j) /\ (\A k \in (j + 1)..i : ~touches(k))
                        => (twice_(i) <=> ~taken(j) /\ had)}
<1> HIDE DEF n
<1>3. 0 \in A  BY <1>1, <1>2
<1>4. ASSUME NEW i \in 0..(n - 1), i \in A
      PROVE  i + 1 \in A
  <2>1. i + 1 \in 1..n /\ i \in 0..n /\ i + 1 \in 0..n /\ (i + 1) - 1 = i /\ i \in Nat  BY <1>1
  <2>2. steps[i + 1] = Apply(diffs[i + 1], steps[i])  BY <1>2, <2>1
  <2>3. steps[i] \in States /\ diffs[i + 1] \in Diffs /\ HomeDiff(diffs[i + 1])
        /\ Home(Entries(steps[i]))
    BY <1>1, <1>2, <1>4, <2>1
  <2>4. /\ Home(Entries(steps[i + 1]))
        /\ EntriesOf(steps[i + 1], id)
             = (IF taken(i + 1) THEN {} ELSE EntriesOf(steps[i], id)) \cup AddedOf(diffs[i + 1], id)
    BY <2>2, <2>3, ApplyTells
  <2>5. twice_(i + 1) <=> /\ ~taken(i + 1)
                          /\ twice_(i) \/ (AddedOf(diffs[i + 1], id) # {} /\ has(i))
    BY <2>2, <2>3, ApplyDoubles
  <2>6. ~touches(i + 1) => ~taken(i + 1) /\ AddedOf(diffs[i + 1], id) = {}
    BY <2>3, Untouching
  <2>7. touches(i + 1) /\ ~taken(i + 1) => AddedOf(diffs[i + 1], id) # {}
    BY <2>3, PutsAdds DEF Puts
  <2>8. twice_(i) => has(i)  BY DoubledHas
  <2>9. /\ (\A j \in 1..i : ~touches(j)) => (has(i) <=> had) /\ (twice_(i) <=> id \in Doubled(book))
        /\ \A j \in 1..i : touches(j) /\ (\A k \in (j + 1)..i : ~touches(k))
             => (twice_(i) <=> ~taken(j) /\ had)
    BY <1>4
  <2>10. /\ ~touches(i + 1) => (has(i + 1) <=> has(i)) /\ (twice_(i + 1) <=> twice_(i))
         /\ taken(i + 1) => ~twice_(i + 1)
         /\ touches(i + 1) /\ ~taken(i + 1) => (twice_(i + 1) <=> has(i))
    BY <2>4, <2>5, <2>6, <2>7, <2>8
  <2>11. \A j \in 1..(i + 1) : j \in 1..n /\ (j \in 1..i \/ j = i + 1)
    BY <1>1, <2>1
  <2>12. \A j \in 1..i : j \in 1..(i + 1) /\ j \in 1..n /\ j < i + 1
    BY <1>1, <2>1
  <2>13. i + 1 \in 1..(i + 1)  BY <2>1
  <2>14. \A j \in 1..i : touches(j) /\ touches(i + 1) => taken(i + 1)
    BY <1>1, <2>1, <2>12
  <2> HIDE DEF touches, taken, had, has, twice_
  <2>15. ASSUME \A j \in 1..(i + 1) : ~touches(j)
         PROVE  (has(i + 1) <=> had) /\ (twice_(i + 1) <=> id \in Doubled(book))
    <3>1. (has(i) <=> had) /\ (twice_(i) <=> id \in Doubled(book))  BY <2>9, <2>12, <2>15
    <3> QED  BY <2>10, <2>13, <2>15, <3>1
  <2>16. ASSUME NEW j \in 1..(i + 1), touches(j), \A k \in (j + 1)..(i + 1) : ~touches(k)
         PROVE  twice_(i + 1) <=> ~taken(j) /\ had
    <3>1. CASE j = i + 1
      <4>1. CASE taken(i + 1)  BY <2>10, <3>1, <4>1
      <4>2. CASE ~taken(i + 1)
        <5>1. \A k \in 1..i : ~touches(k)  BY <2>14, <2>16, <3>1, <4>2
        <5>2. has(i) <=> had  BY <2>9, <5>1
        <5> QED  BY <2>10, <2>16, <3>1, <4>2, <5>2
      <4> QED  BY <4>1, <4>2
    <3>2. CASE j \in 1..i
      <4>1. \A k \in (j + 1)..i : k \in (j + 1)..(i + 1)  BY <2>1
      <4>2. i + 1 \in (j + 1)..(i + 1)  BY <2>1, <3>2
      <4>3. twice_(i) <=> ~taken(j) /\ had  BY <2>9, <2>16, <3>2, <4>1
      <4> QED  BY <2>10, <2>16, <4>2, <4>3
    <3> QED  BY <2>11, <3>1, <3>2
  <2>17. Home(Entries(steps[i + 1]))  BY <2>4
  <2> QED  BY <2>1, <2>15, <2>16, <2>17
<1>5. \A i \in 0..n : i \in A
  <2> HIDE DEF A
  <2> QED  BY <1>1, <1>3, <1>4, AllSteps
<1>6. n \in 0..n /\ n \in A  BY <1>1, <1>5
<1>7. /\ (\A j \in 1..n : ~touches(j)) => (twice_(n) <=> id \in Doubled(book))
      /\ \A j \in 1..n : touches(j) /\ (\A k \in (j + 1)..n : ~touches(k))
           => (twice_(n) <=> ~taken(j) /\ had)
  BY <1>6
<1> HIDE DEF A
<1>8. CASE \A j \in 1..n : ~touches(j)  BY <1>1, <1>2, <1>7, <1>8 DEF Untold
<1>9. CASE \E j \in 1..n : touches(j)
  <2> DEFINE T == {j \in 1..n : touches(j)}
  <2>1. IsFiniteSet(T)
    <3>1. IsFiniteSet(1..n)  BY <1>1, FS_Interval
    <3> QED  BY <3>1, FS_Subset
  <2>2. T # {} /\ T \subseteq Nat  BY <1>9
  <2>3. PICK j \in T : \A y \in T : j >= y
    <3> HIDE DEF T
    <3> QED  BY <2>1, <2>2, LatestExists
  <2>4. j \in 1..n /\ touches(j)  BY <2>3
  <2>5. \A k \in 1..n : j < k => ~touches(k)  BY <1>1, <2>3
  <2>6. \A k \in (j + 1)..n : k \in 1..n /\ j < k  BY <1>1, <2>4
  <2>7. LastOf(diffs, id, j)  BY <1>1, <2>4, <2>5 DEF LastOf
  <2>8. (taken(j) => id \notin ids) /\ (~taken(j) => (had <=> id \in ids))
    BY <1>1, <2>4, <2>7
  <2>9. twice_(n) <=> ~taken(j) /\ had
    BY <1>7, <2>4, <2>5, <2>6
  <2> QED  BY <1>2, <2>8, <2>9
<1> QED  BY <1>8, <1>9

LEMMA CatchesUpTwice ==
  ASSUME FeedInv, NEW book, KnownBook(book), NEW diffs \in Seq(Diffs), Rises(diffs),
         ToSet(diffs) \subseteq InFlight, NEW id, NEW ids,
         NoneOf(ToSet(diffs), id) => (id \in Doubled(book) <=> id \in ids),
         \A d \in ToSet(diffs) : Latest(ToSet(diffs), id, d) =>
           /\ Takes(d, id) => id \notin ids
           /\ ~Takes(d, id) => (EntriesOf(book, id) # {} <=> id \in ids)
  PROVE  id \in Doubled(Applied(diffs, book)) <=> id \in ids
<1>1. book \in States /\ Home(Entries(book))  BY DEF KnownBook
<1>2. \A i \in DOMAIN diffs : diffs[i] \in ToSet(diffs)  BY DEF ToSet
<1>3. \A i \in DOMAIN diffs : /\ diffs[i] \in InFlight /\ diffs[i].slot \in Nat
                              /\ HomeDiff(diffs[i])
  <2>1. \A d \in InFlight : d.slot \in Nat /\ HomeDiff(d)  BY SlotsAre DEF KnownDiff
  <2> QED  BY <1>2, <2>1
<1>4. DOMAIN diffs \subseteq Nat
  <2>1. DOMAIN diffs = 1..Len(diffs) /\ Len(diffs) \in Nat  BY LenProperties
  <2> QED  BY <2>1
<1>5. ASSUME NEW i \in DOMAIN diffs, NEW j \in DOMAIN diffs, i < j,
             id \in Touched(diffs[i]), id \in Touched(diffs[j])
      PROVE  Takes(diffs[j], id)
  <2> SUFFICES ASSUME ~Takes(diffs[j], id) PROVE FALSE
    OBVIOUS
  <2>1. diffs[j].slot <= diffs[i].slot  BY <1>3, <1>5 DEF FeedInv, DiffInv
  <2>2. diffs[i].slot < diffs[j].slot  BY <1>5 DEF Rises
  <2> QED  BY <1>3, <2>1, <2>2
<1>6. Untold(diffs, id) => (id \in Doubled(book) <=> id \in ids)  BY DEF Untold, NoneOf, ToSet
<1>7. ASSUME NEW i \in DOMAIN diffs, LastOf(diffs, id, i)
      PROVE  /\ Takes(diffs[i], id) => id \notin ids
             /\ ~Takes(diffs[i], id) => (EntriesOf(book, id) # {} <=> id \in ids)
  <2>1. ASSUME NEW e \in ToSet(diffs), id \in Touched(e)
        PROVE  e.slot <= diffs[i].slot
    <3>1. PICK j \in DOMAIN diffs : e = diffs[j]  BY DEF ToSet
    <3>2. ~(i < j)  BY <1>7, <2>1, <3>1 DEF LastOf
    <3>3. j = i \/ j < i  BY <1>4, <3>2
    <3>4. j < i => diffs[j].slot < diffs[i].slot  BY DEF Rises
    <3> QED  BY <1>3, <3>1, <3>3, <3>4
  <2>2. Latest(ToSet(diffs), id, diffs[i])  BY <1>2, <1>7, <2>1 DEF Latest, LastOf
  <2> QED  BY <1>2, <2>2
<1> QED  BY <1>1, <1>3, <1>5, <1>6, <1>7, AppliedDoubles

\* An order that stands twice is on the menu.
LEMMA DoubledKnown ==
  ASSUME NEW book \in States, NEW id \in Doubled(book)
  PROVE  id \in OrderIds
<1>1. PICK e : e \in Entries(book) /\ e.order.order_id = id  BY DoubledHas DEF EntriesOf
<1> QED  BY <1>1, EntriesKnown

\* What is on its way to the book, and what to a socket's browser, as queues.
LEMMA MemoryIs ==
  ASSUME FeedInv
  PROVE  /\ stream \o outbox \in Seq(Diffs) /\ ToSet(stream \o outbox) = Unreceived
         /\ Rises(stream \o outbox) /\ Unreceived \subseteq InFlight
         /\ KnownBook(orderbook) /\ orderbook \in States
<1>1. stream \in Seq(Diffs) /\ outbox \in Seq(Diffs) /\ Len(outbox) <= 1
  BY DEF FeedInv, ServerTypes
<1>2. Rises(stream) /\ \A d \in ToSet(stream), e \in ToSet(outbox) : d.slot < e.slot
  BY DEF FeedInv, BookInv, OrderInv
<1>3. Rises(outbox)  BY <1>1, RisesOne
<1>4. KnownBook(orderbook) /\ orderbook \in States  BY DEF FeedInv, BookInv, KnownBook
<1> QED  BY <1>1, <1>2, <1>3, <1>4, QueueJoin DEF Unreceived, InFlight

LEMMA ComingIs ==
  ASSUME FeedInv, NEW c \in Clients
  PROVE  /\ client[c].rx \o inserted \in Seq(Diffs) /\ ToSet(client[c].rx \o inserted) = Coming(c)
         /\ Rises(client[c].rx \o inserted) /\ Coming(c) \subseteq InFlight
         /\ KnownBook(client[c].view)
<1>1. client[c].rx \in Seq(Diffs) /\ KnownBook(client[c].view) /\ Rises(client[c].rx)
      /\ \A d \in ToSet(client[c].rx), e \in ToSet(inserted) : d.slot < e.slot
  BY DEF FeedInv, SocketsInv, SocketInv, SocketTypes, SocketRecords, SocketOrder
<1>2. inserted \in Seq(Diffs) /\ Len(inserted) <= 1  BY DEF FeedInv, ServerTypes
<1>3. Rises(inserted)  BY <1>2, RisesOne
<1> QED  BY <1>1, <1>2, <1>3, QueueJoin DEF Coming, InFlight

LEMMA MemoryOnce ==
  ASSUME FeedInv, MemoryTwice, Serving
  PROVE  Doubled(Applied(stream \o outbox, orderbook)) \subseteq lost \cup twice
<1>1. PICK diffs, book : diffs = stream \o outbox /\ book = Applied(diffs, orderbook)  OBVIOUS
<1>2. /\ diffs \in Seq(Diffs) /\ ToSet(diffs) = Unreceived /\ Rises(diffs)
      /\ Unreceived \subseteq InFlight /\ KnownBook(orderbook) /\ orderbook \in States
  BY <1>1, MemoryIs
<1>3. book \in States  BY <1>1, <1>2, AppliedIsState
<1> SUFFICES ASSUME NEW id \in Doubled(book), id \notin lost \cup twice PROVE FALSE
  BY <1>1
<1>4. id \in OrderIds \ (lost \cup twice)  BY <1>3, DoubledKnown
<1>5. NoneOf(Unreceived, id) => id \notin Doubled(orderbook)  BY <1>4 DEF MemoryTwice
<1>6. \A d \in Unreceived : Latest(Unreceived, id, d) /\ ~Takes(d, id)
        => EntriesOf(orderbook, id) = {}
  BY <1>4 DEF MemoryTwice
<1>7. PICK ids : ids = {}  OBVIOUS
<1>8. NoneOf(ToSet(diffs), id) => (id \in Doubled(orderbook) <=> id \in ids)
  BY <1>2, <1>5, <1>7
<1>9. \A d \in ToSet(diffs) : Latest(ToSet(diffs), id, d) =>
        /\ Takes(d, id) => id \notin ids
        /\ ~Takes(d, id) => (EntriesOf(orderbook, id) # {} <=> id \in ids)
  BY <1>2, <1>6, <1>7
<1>10. id \in Doubled(Applied(diffs, orderbook)) <=> id \in ids
  BY <1>2, <1>8, <1>9, CatchesUpTwice
<1> QED  BY <1>1, <1>7, <1>10

LEMMA FeedMemoryConverges ==
  ASSUME FeedInv, TwiceInv
  PROVE  MemoryConverges
BY FeedMemory, MemoryOnce DEF MemoryConverges, TwiceInv

\* If the last diff that touches an order puts it in, no other touches it.
LEMMA PutsOnce ==
  ASSUME FeedInv, NEW diffs, diffs \subseteq InFlight, NEW id, NEW d, Latest(diffs, id, d),
         ~Takes(d, id)
  PROVE  \A e \in diffs : id \in Touched(e) => e = d
<1> SUFFICES ASSUME NEW e \in diffs, id \in Touched(e) PROVE e = d
  OBVIOUS
<1>1. d \in InFlight /\ e \in InFlight /\ id \in Touched(d) /\ e.slot <= d.slot
  BY DEF Latest
<1>2. d.slot <= e.slot  BY <1>1 DEF FeedInv, DiffInv
<1>3. d.slot \in Nat /\ e.slot \in Nat  BY <1>1, SlotsAre
<1>4. d.slot = e.slot  BY <1>1, <1>2, <1>3
<1> QED  BY <1>1, <1>4 DEF FeedInv, DiffInv

\* After a lag the orders that are put in last are those that are put in again.
LEMMA AgainIs ==
  ASSUME FeedInv, NEW c \in Clients, NEW id
  PROVE  /\ ~client[c].lagged => Again(c) = again[c]
         /\ client[c].lagged => \A d \in Coming(c) : Latest(Coming(c), id, d) /\ ~Takes(d, id)
              => id \in Again(c)
<1>1. ToSet(client[c].rx \o inserted) = Coming(c) /\ Coming(c) \subseteq InFlight
  BY ComingIs
<1> DEFINE In(diffs) == UNION {PutIn(d) : d \in diffs}
           Out(diffs) == UNION {TakenOut(d) : d \in diffs}
<1>2. Again(c) = IF client[c].lagged
                 THEN In(ToSet(client[c].rx \o inserted)) \ Out(ToSet(client[c].rx \o inserted))
                 ELSE again[c]
  BY DEF Again
<1> HIDE DEF In, Out
<1>3. Again(c) = IF client[c].lagged THEN In(Coming(c)) \ Out(Coming(c)) ELSE again[c]
  BY <1>1, <1>2
<1>4. ASSUME NEW d \in Coming(c), Latest(Coming(c), id, d), ~Takes(d, id)
      PROVE  id \in In(Coming(c)) /\ id \notin Out(Coming(c))
  <2>1. id \in PutIn(d)  BY <1>4, PutsIs DEF Puts, Latest
  <2>2. ASSUME NEW e \in Coming(c) PROVE id \notin TakenOut(e)
    <3> SUFFICES ASSUME Takes(e, id) PROVE FALSE
      BY PutsIs
    <3>1. id \in Touched(e)  BY DEF Takes, Touched
    <3>2. e = d  BY <1>1, <1>4, <3>1, PutsOnce
    <3> QED  BY <1>4, <3>2
  <2> QED  BY <1>4, <2>1, <2>2 DEF In, Out
<1> QED  BY <1>3, <1>4

LEMMA ClientTwice ==
  ASSUME FeedInv, TwiceInv, NEW c \in Clients, Subscribed(c),
         NEW view, view = (IF client[c].lagged THEN orderbook ELSE client[c].view),
         NEW but, but = unseen[c] \cup Again(c)
  PROVE  Doubled(Applied(client[c].rx \o inserted, view)) \ but = Doubled(orderbook) \ but
<1>1. PICK diffs, book : diffs = client[c].rx \o inserted /\ book = Applied(diffs, view)  OBVIOUS
<1>2. /\ diffs \in Seq(Diffs) /\ ToSet(diffs) = Coming(c) /\ Rises(diffs)
      /\ Coming(c) \subseteq InFlight /\ KnownBook(client[c].view)
  BY <1>1, ComingIs
<1>3. KnownBook(orderbook) /\ orderbook \in States  BY MemoryIs
<1>4. KnownBook(view) /\ view \in States  BY <1>2, <1>3 DEF KnownBook
<1>5. book \in States  BY <1>1, <1>2, <1>4, AppliedIsState
<1>6. MemoryTwice /\ SocketTwice(c) /\ ShowsTwice(c)  BY DEF TwiceInv, SocketTwice
<1>7. ASSUME NEW id \in OrderIds \ but
      PROVE  id \in Doubled(book) <=> id \in Doubled(orderbook)
  <2>1. PICK ids : ids = Doubled(orderbook)  OBVIOUS
  <2>2. \A d \in Coming(c) : Takes(d, id) => id \notin ids
    BY <1>6, <2>1 DEF MemoryTwice, SocketTwice, Coming
  <2>3. NoneOf(Coming(c), id) => (id \in Doubled(view) <=> id \in ids)
    <3>1. CASE client[c].lagged  BY <2>1, <3>1
    <3>2. CASE ~client[c].lagged
      <4>1. again[c] = Again(c) /\ Joined(c)  BY <3>2, AgainIs DEF Joined
      <4> QED  BY <1>6, <2>1, <3>2, <4>1 DEF ShowsTwice
    <3> QED  BY <3>1, <3>2
  <2>4. ASSUME NEW d \in Coming(c), Latest(Coming(c), id, d), ~Takes(d, id)
        PROVE  EntriesOf(view, id) # {} <=> id \in ids
    <3>1. CASE client[c].lagged
      <4>1. id \in Again(c)  BY <2>4, <3>1, AgainIs
      <4> QED  BY <4>1
    <3>2. CASE ~client[c].lagged
      <4>1. again[c] = Again(c) /\ Joined(c)  BY <3>2, AgainIs DEF Joined
      <4> QED  BY <1>6, <2>1, <2>4, <3>2, <4>1 DEF ShowsTwice
    <3> QED  BY <3>1, <3>2
  <2>5. id \in Doubled(Applied(diffs, view)) <=> id \in ids
    BY <1>2, <1>4, <2>2, <2>3, <2>4, CatchesUpTwice
  <2> QED  BY <1>1, <2>1, <2>5
<1>8. Doubled(book) \subseteq OrderIds /\ Doubled(orderbook) \subseteq OrderIds
  BY <1>3, <1>5, DoubledKnown
<1>9. \A id : id \in Doubled(book) \ but <=> id \in Doubled(orderbook) \ but  BY <1>7, <1>8
<1> QED  BY <1>1, <1>9

LEMMA FeedClientsConverge ==
  ASSUME FeedInv, TwiceInv
  PROVE  ClientConverges
<1> SUFFICES ASSUME NEW c \in Clients, Subscribed(c), NEW view,
                    view = (IF client[c].lagged THEN orderbook ELSE client[c].view),
                    NEW but, but = unseen[c] \cup Again(c)
             PROVE  LET book == Applied(client[c].rx \o inserted, view)
                    IN /\ EntriesBut(book, unseen[c]) = EntriesBut(orderbook, unseen[c])
                       /\ Doubled(book) \ but = Doubled(orderbook) \ but
  BY DEF ClientConverges
<1> QED  BY FeedClients, ClientTwice

LEMMA TwiceInit ==
  Init => TwiceInv
<1> SUFFICES ASSUME Init PROVE TwiceInv
  OBVIOUS
<1>1. /\ outbox = << >> /\ stream = << >> /\ inserted = << >> /\ twice = {} /\ backend = "boot"
      /\ \A c \in Clients : client[c] = NewSocket /\ unseen[c] = {} /\ again[c] = {}
      /\ again = [c \in Clients |-> again[c]]
  BY DEF Init
<1>2. ToSet(outbox) = {} /\ ToSet(stream) = {} /\ ToSet(inserted) = {} /\ Unreceived = {}
      /\ \A c \in Clients : ToSet(client[c].rx) = {}
  BY <1>1, QueueNone DEF NewSocket, Unreceived
<1>3. TwiceTypes  BY <1>1 DEF TwiceTypes
<1>4. MemoryTwice  BY <1>1, <1>2 DEF MemoryTwice, Serving
<1>5. ASSUME NEW c \in Clients PROVE SocketTwice(c)
  <2>1. ~Joined(c)  BY <1>1 DEF Joined, Subscribed, NewSocket
  <2> QED  BY <1>1, <1>2, <2>1 DEF SocketTwice, UnseenOnce, ShowsTwice
<1> QED  BY <1>3, <1>4, <1>5 DEF TwiceInv

\* What a step does not say of the sockets that it leaves alone.
LEMMA SocketsTwiceStay ==
  ASSUME TwiceInv, UNCHANGED <<inserted, orderbook, ob_channel, sockets>>,
         DOMAIN live_orders \subseteq DOMAIN live_orders',
         \A d \in Unreceived' : d \in Unreceived \/ \A id \in DOMAIN live_orders : ~Puts(d, id)
  PROVE  \A c \in Clients : SocketTwice(c)'
<1> USE DEF sockets
<1> SUFFICES ASSUME NEW c \in Clients PROVE SocketTwice(c)'
  OBVIOUS
<1>1. SocketTwice(c)  BY DEF TwiceInv
<1>2. \A d \in ToSet(client'[c].rx) : \A id : Takes(d, id) => id \notin Doubled(orderbook')
  BY <1>1 DEF SocketTwice
<1>3. unseen[c] \subseteq DOMAIN live_orders
      /\ \A d \in Unreceived \cup ToSet(inserted) : \A id \in unseen[c] : ~Puts(d, id)
  BY <1>1 DEF SocketTwice, UnseenOnce
<1>4. UnseenOnce(c)'  BY <1>3 DEF UnseenOnce
<1>5. ShowsTwice(c)'  BY <1>1 DEF SocketTwice, ShowsTwice, Joined, Subscribed, Coming
<1> QED  BY <1>2, <1>4, <1>5 DEF SocketTwice

\* The diff of an event that is stored puts in only what was not in the table.
LEMMA StoreTwice ==
  ASSUME FeedInv, TwiceInv, NEW diff, Stored(diff)
  PROVE  TwiceInv'
<1> USE DEF Stored
<1>1. KnownBook(orderbook) /\ commits \in Nat /\ upto \in 0..commits
  BY DEF FeedInv, BookInv, TableInv, ServerTypes
<1>2. diff \in Diffs /\ diff.slot = commits + 1  BY DEF KnownDiff
<1>3. ToSet(outbox') = {diff} /\ Unreceived' = Unreceived \cup {diff}
  BY <1>2, QueueSingle, QueueNone DEF Unreceived
<1>4. \A d \in Unreceived : d.slot \in Nat /\ d.slot <= commits
  BY SlotsAre DEF KnownDiff
<1>5. \A id : Puts(diff, id) => id \notin DOMAIN live_orders /\ EntriesOf(orderbook, id) = {}
  BY <1>1 DEF Puts, KnownBook, EntriesOf
<1>6. TwiceTypes'  BY DEF TwiceInv, TwiceTypes, sockets
<1>7. MemoryTwice'
  <2>1. MemoryTwice  BY DEF TwiceInv
  <2>2. ASSUME Serving, NEW id \in OrderIds \ (lost' \cup twice)
        PROVE  /\ NoneOf(Unreceived', id) => id \notin Doubled(orderbook)
               /\ \A d \in Unreceived' : Latest(Unreceived', id, d) /\ ~Takes(d, id)
                    => EntriesOf(orderbook, id) = {}
    <3>1. id \in OrderIds \ (lost \cup twice)  OBVIOUS
    <3>2. NoneOf(Unreceived', id) => NoneOf(Unreceived, id)  BY <1>3 DEF NoneOf
    <3>3. ASSUME NEW d \in Unreceived', Latest(Unreceived', id, d), ~Takes(d, id)
          PROVE  EntriesOf(orderbook, id) = {}
      <4>1. CASE d = diff  BY <1>5, <3>3, <4>1 DEF Latest, Puts
      <4>2. CASE d # diff
        <5>1. d \in Unreceived  BY <1>3, <4>2
        <5>2. Latest(Unreceived, id, d)  BY <1>3, <3>3, <5>1 DEF Latest
        <5> QED  BY <2>1, <2>2, <3>1, <3>3, <5>1, <5>2 DEF MemoryTwice
      <4> QED  BY <4>1, <4>2
    <3> QED  BY <2>1, <2>2, <3>1, <3>2, <3>3 DEF MemoryTwice
  <2>3. \A d \in ToSet(outbox') : \A id : Puts(d, id) => EntriesOf(orderbook, id) = {}
    BY <1>3, <1>5
  <2>4. \A d \in Unreceived' : d.slot <= upto => Doubled(orderbook) = {}
    <3> SUFFICES ASSUME NEW d \in Unreceived', d.slot <= upto PROVE Doubled(orderbook) = {}
      OBVIOUS
    <3>1. d # diff  BY <1>1, <1>2
    <3> QED  BY <1>3, <2>1, <3>1 DEF MemoryTwice
  <2>5. \A d \in ToSet(inserted) : \A id : Takes(d, id) => id \notin Doubled(orderbook)
    BY <2>1 DEF MemoryTwice
  <2> QED  BY <2>2, <2>3, <2>4, <2>5 DEF MemoryTwice, Serving
<1>8. \A c \in Clients : SocketTwice(c)'
  <2>1. \A d \in Unreceived' : d \in Unreceived \/ \A id \in DOMAIN live_orders : ~Puts(d, id)
    BY <1>3, <1>5
  <2> QED  BY <2>1, SocketsTwiceStay
<1> QED  BY <1>6, <1>7, <1>8 DEF TwiceInv

LEMMA MarketTwice ==
  ASSUME TwiceInv, UNCHANGED <<live_orders, outbox, server, sockets>>
  PROVE  TwiceInv'
<1> USE DEF server
<1>1. Unreceived' = Unreceived  BY DEF Unreceived
<1>2. TwiceTypes'  BY DEF TwiceInv, TwiceTypes, sockets
<1>3. MemoryTwice'  BY <1>1 DEF TwiceInv, MemoryTwice, Serving
<1>4. \A c \in Clients : SocketTwice(c)'  BY <1>1, SocketsTwiceStay
<1> QED  BY <1>2, <1>3, <1>4 DEF TwiceInv

\* A diff that the receiver does not get: what it would have put in, or taken out,
\* is counted as missed, unless it was in the snapshot.
LEMMA MissTwice ==
  ASSUME FeedInv, TwiceInv, outbox # << >>, outbox' = << >>, upto' = upto \/ upto' = 0,
         lost' = lost \cup Missed(ToSet(outbox)),
         twice' = twice \ TouchedBy(ToSet(outbox)),
         UNCHANGED <<chain, backend, receiver, stream, inserted, orderbook, ob_channel, sockets>>
  PROVE  TwiceInv'
<1> USE DEF chain
<1>1. TableInv /\ ServerTypes /\ InSnapshot /\ MemoryTwice
  BY DEF FeedInv, TwiceInv
<1>2. PICK d : d = Head(outbox)  OBVIOUS
<1>3. /\ ToSet(outbox) = {d} /\ Unreceived = ToSet(stream) \cup {d} /\ d.slot \in Nat
      /\ \A e \in ToSet(stream) : e.slot < d.slot
  BY <1>2, Outgoing
<1>4. ToSet(outbox') = {} /\ Unreceived' = ToSet(stream)  BY QueueNone DEF Unreceived
<1>5. /\ Missed(ToSet(outbox)) = IF Serving /\ d.slot > upto THEN Touched(d) ELSE {}
      /\ TouchedBy(ToSet(outbox)) = Touched(d)
  BY <1>3 DEF Missed, TouchedBy
<1>6. upto \in Nat  BY <1>1 DEF ServerTypes, TableInv
<1>7. \A e \in Unreceived : e.slot \in Nat  BY SlotsAre
<1>8. TwiceTypes'  BY DEF TwiceInv, TwiceTypes, sockets
<1>9. ASSUME Serving, NEW id \in OrderIds \ (lost' \cup twice')
      PROVE  /\ NoneOf(Unreceived', id) => id \notin Doubled(orderbook)
             /\ \A e \in Unreceived' : Latest(Unreceived', id, e) /\ ~Takes(e, id)
                  => EntriesOf(orderbook, id) = {}
  <2>1. CASE id \notin Touched(d)
    <3>1. id \in OrderIds \ (lost \cup twice)  BY <1>5, <2>1
    <3>2. NoneOf(Unreceived', id) => NoneOf(Unreceived, id)  BY <1>3, <1>4, <2>1 DEF NoneOf
    <3>3. \A e : Latest(Unreceived', id, e) => e \in Unreceived /\ Latest(Unreceived, id, e)
      BY <1>3, <1>4, <2>1 DEF Latest
    <3> QED  BY <1>1, <1>9, <3>1, <3>2, <3>3 DEF MemoryTwice
  <2>2. CASE id \in Touched(d)
    <3>1. d.slot <= upto  BY <1>3, <1>5, <1>6, <1>9, <2>2
    <3>2. d \in Unreceived /\ \A e \in Unreceived : d.slot <= e.slot
      BY <1>1, <1>3, <3>1 DEF InSnapshot
    <3>3. ToSet(stream) = {}  BY <1>3, <1>7, <3>2
    <3>4. Doubled(orderbook) = {}  BY <1>1, <3>1, <3>2 DEF MemoryTwice
    <3> QED  BY <1>4, <3>3, <3>4
  <2> QED  BY <2>1, <2>2
<1>10. \A e \in Unreceived' : e.slot <= upto' => Doubled(orderbook) = {}
  <2> SUFFICES ASSUME NEW e \in Unreceived', e.slot <= upto' PROVE Doubled(orderbook) = {}
    OBVIOUS
  <2>1. e \in Unreceived /\ e.slot <= upto  BY <1>3, <1>4, <1>6, <1>7
  <2> QED  BY <1>1, <2>1 DEF MemoryTwice
<1>11. \A e \in ToSet(inserted) : \A id : Takes(e, id) => id \notin Doubled(orderbook)
  BY <1>1 DEF MemoryTwice
<1>12. MemoryTwice'  BY <1>4, <1>9, <1>10, <1>11 DEF MemoryTwice, Serving
<1>13. \A c \in Clients : SocketTwice(c)'  BY <1>3, <1>4, SocketsTwiceStay
<1> QED  BY <1>8, <1>12, <1>13 DEF TwiceInv

LEMMA PublishTwice ==
  ASSUME FeedInv, TwiceInv, Publish
  PROVE  TwiceInv'
<1>1. CASE receiver # "listening"
  <2>1. /\ outbox # << >> /\ outbox' = << >> /\ upto' = 0
        /\ lost' = lost \cup Missed(ToSet(outbox))
        /\ twice' = twice \ TouchedBy(ToSet(outbox))
        /\ UNCHANGED <<chain, backend, receiver, stream, inserted, orderbook, ob_channel, sockets>>
    BY <1>1 DEF Publish
  <2> QED  BY <2>1, MissTwice
<1>2. CASE receiver = "listening"
  <2> USE DEF chain
  <2>1. PICK d : d = Head(outbox)  OBVIOUS
  <2>2. /\ outbox # << >> /\ outbox' = << >> /\ stream' = Append(stream, d)
        /\ lost' = lost \ Touched(d) /\ twice' = twice \ TakenOut(d)
        /\ UNCHANGED <<chain, backend, receiver, inserted, orderbook, ob_channel, sockets, upto>>
    BY <1>2, <2>1 DEF Publish
  <2>3. /\ d \in Diffs /\ ToSet(outbox) = {d} /\ Unreceived = ToSet(stream) \cup {d}
        /\ d.slot \in Nat /\ \A e \in ToSet(stream) : e.slot < d.slot
    BY <2>1, <2>2, Outgoing
  <2>4. ToSet(stream') = ToSet(stream) \cup {d}
    <3>1. stream \in Seq(Diffs)  BY DEF FeedInv, ServerTypes
    <3> QED  BY <2>2, <2>3, <3>1, QueueAppend
  <2>5. ToSet(outbox') = {} /\ Unreceived' = Unreceived
    BY <2>2, <2>3, <2>4, QueueNone DEF Unreceived
  <2>6. MemoryTwice  BY DEF TwiceInv
  <2>7. TakenOut(d) \subseteq Touched(d)  BY DEF TakenOut, Touched
  <2>8. TwiceTypes'  BY <2>2 DEF TwiceInv, TwiceTypes, sockets
  <2>9. ASSUME Serving, NEW id \in OrderIds \ (lost' \cup twice')
        PROVE  /\ NoneOf(Unreceived, id) => id \notin Doubled(orderbook)
               /\ \A e \in Unreceived : Latest(Unreceived, id, e) /\ ~Takes(e, id)
                    => EntriesOf(orderbook, id) = {}
    <3>1. CASE id \notin lost \cup twice  BY <2>6, <2>9, <3>1 DEF MemoryTwice
    <3>2. CASE id \in lost \cup twice
      <4>1. id \in Touched(d)  BY <2>2, <2>7, <2>9, <3>2
      <4>2. ~NoneOf(Unreceived, id)  BY <2>3, <4>1 DEF NoneOf
      <4>3. ASSUME NEW e \in Unreceived, Latest(Unreceived, id, e), ~Takes(e, id)
            PROVE  EntriesOf(orderbook, id) = {}
        <5>1. d.slot <= e.slot  BY <2>3, <4>1, <4>3 DEF Latest
        <5>2. \A f \in Unreceived : f.slot \in Nat  BY SlotsAre
        <5>3. e = d  BY <2>3, <5>1, <5>2
        <5>4. id \notin TakenOut(d) /\ Puts(d, id)  BY <4>1, <4>3, <5>3, PutsIs DEF Puts
        <5>5. id \notin twice  BY <2>2, <2>9, <5>4
        <5> QED  BY <2>3, <2>6, <5>4, <5>5 DEF MemoryTwice
      <4> QED  BY <4>2, <4>3
    <3> QED  BY <3>1, <3>2
  <2>10. MemoryTwice'  BY <2>2, <2>5, <2>6, <2>9 DEF MemoryTwice, Serving
  <2>11. \A c \in Clients : SocketTwice(c)'  BY <2>2, <2>5, SocketsTwiceStay
  <2> QED  BY <2>8, <2>10, <2>11 DEF TwiceInv
<1> QED  BY <1>1, <1>2

LEMMA UnpublishedTwice ==
  ASSUME FeedInv, TwiceInv, Unpublished
  PROVE  TwiceInv'
BY MissTwice DEF Unpublished

LEMMA SubscribeTwice ==
  ASSUME TwiceInv, Subscribe
  PROVE  TwiceInv'
<1>1. UNCHANGED <<chain, outbox, backend, stream, inserted, orderbook, ob_channel, upto, lost,
                  twice, sockets>>
  BY DEF Subscribe
<1> USE DEF chain
<1>2. Unreceived' = Unreceived  BY <1>1 DEF Unreceived
<1>3. TwiceTypes'  BY <1>1 DEF TwiceInv, TwiceTypes, sockets
<1>4. MemoryTwice'  BY <1>1, <1>2 DEF TwiceInv, MemoryTwice, Serving
<1>5. \A c \in Clients : SocketTwice(c)'  BY <1>1, <1>2, SocketsTwiceStay
<1> QED  BY <1>3, <1>4, <1>5 DEF TwiceInv

\* What was not yet read from Redis is counted as missed; what is put in later is in
\* none of it.
LEMMA DisconnectTwice ==
  ASSUME FeedInv, TwiceInv, Disconnect
  PROVE  TwiceInv'
<1>1. ServerTypes /\ InSnapshot /\ DiffInv /\ MemoryTwice /\ upto \in Nat
  BY DEF FeedInv, TwiceInv, ServerTypes, TableInv
<1>2. /\ receiver = "listening" /\ stream' = << >>
      /\ lost' = lost \cup Missed(ToSet(stream))
      /\ twice' = twice \ TouchedBy(ToSet(stream))
      /\ UNCHANGED <<chain, outbox, backend, inserted, orderbook, ob_channel, upto, sockets>>
  BY DEF Disconnect
<1> USE DEF chain
<1>3. Serving  BY <1>1, <1>2 DEF ServerTypes, Serving
<1>4. ToSet(stream') = {} /\ Unreceived' = ToSet(outbox)
      /\ Unreceived = ToSet(stream) \cup ToSet(outbox) /\ Unreceived \subseteq InFlight
  BY <1>2, QueueNone DEF Unreceived, InFlight
<1>5. \A d \in Unreceived : d.slot \in Nat  BY SlotsAre
<1>6. ASSUME NEW d \in ToSet(outbox), NEW id, Puts(d, id)
      PROVE  EntriesOf(orderbook, id) = {} \/ id \in twice'
  <2> SUFFICES ASSUME id \in twice, id \notin twice' PROVE FALSE
    BY <1>1, <1>6 DEF MemoryTwice
  <2>1. PICK f \in ToSet(stream) : id \in Touched(f)  BY <1>2 DEF TouchedBy
  <2>2. d \in InFlight /\ f \in InFlight /\ d.slot \in Nat /\ f.slot \in Nat  BY <1>4, <1>5
  <2>3. f.slot < d.slot  BY <2>1 DEF FeedInv, BookInv, OrderInv
  <2>4. d.slot <= f.slot  BY <1>1, <1>6, <2>1, <2>2 DEF DiffInv, Puts
  <2> QED  BY <2>2, <2>3, <2>4
<1>7. ASSUME NEW id \in OrderIds \ (lost' \cup twice')
      PROVE  /\ NoneOf(Unreceived', id) => id \notin Doubled(orderbook)
             /\ \A e \in Unreceived' : Latest(Unreceived', id, e) /\ ~Takes(e, id)
                  => EntriesOf(orderbook, id) = {}
  <2>1. ASSUME NoneOf(Unreceived', id) PROVE id \notin Doubled(orderbook)
    <3>1. CASE NoneOf(ToSet(stream), id)
      <4>1. NoneOf(Unreceived, id)  BY <1>4, <2>1, <3>1 DEF NoneOf
      <4>2. id \notin TouchedBy(ToSet(stream))  BY <3>1 DEF NoneOf, TouchedBy
      <4>3. id \in OrderIds \ (lost \cup twice)  BY <1>2, <4>2
      <4> QED  BY <1>1, <1>3, <4>1, <4>3 DEF MemoryTwice
    <3>2. CASE ~NoneOf(ToSet(stream), id)
      <4>1. PICK d \in ToSet(stream) : id \in Touched(d)  BY <3>2 DEF NoneOf
      <4>2. id \notin Missed(ToSet(stream))  BY <1>2
      <4>3. ~(d.slot > upto)  BY <1>3, <4>1, <4>2 DEF Missed
      <4>4. d \in Unreceived /\ d.slot <= upto  BY <1>1, <1>4, <1>5, <4>3
      <4> QED  BY <1>1, <4>4 DEF MemoryTwice
    <3> QED  BY <3>1, <3>2
  <2>2. ASSUME NEW e \in Unreceived', Latest(Unreceived', id, e), ~Takes(e, id)
        PROVE  EntriesOf(orderbook, id) = {}
    <3>1. e \in ToSet(outbox) /\ Puts(e, id)  BY <1>4, <2>2 DEF Latest, Puts
    <3> QED  BY <1>6, <1>7, <3>1
  <2> QED  BY <2>1, <2>2
<1>8. TwiceTypes'  BY <1>2 DEF TwiceInv, TwiceTypes, sockets
<1>9. MemoryTwice'  BY <1>1, <1>2, <1>4, <1>6, <1>7 DEF MemoryTwice, Serving
<1>10. \A c \in Clients : SocketTwice(c)'  BY <1>2, <1>4, SocketsTwiceStay
<1> QED  BY <1>8, <1>9, <1>10 DEF TwiceInv

\* The backend starts to serve, with each order once.
LEMMA ServeTwice ==
  ASSUME FeedInv, TwiceInv, backend = "boot", Doubled(orderbook') = {}, twice' \subseteq OrderIds,
         \A d \in ToSet(outbox) : \A id : Puts(d, id)
           => EntriesOf(orderbook', id) = {} \/ id \in twice',
         UNCHANGED <<chain, outbox, receiver, stream, inserted, sockets>>
  PROVE  TwiceInv'
<1>1. ServerTypes /\ SocketsInv  BY DEF FeedInv
<1> USE DEF chain, sockets
<1>2. stream = << >> /\ inserted = << >>  BY <1>1 DEF ServerTypes
<1>3. ToSet(inserted) = {} /\ Unreceived = ToSet(outbox) /\ Unreceived' = Unreceived
  BY <1>2, QueueNone DEF Unreceived
<1>4. TwiceTypes'  BY DEF TwiceInv, TwiceTypes
<1>5. MemoryTwice'
  <2> SUFFICES ASSUME NEW id \in OrderIds \ (lost' \cup twice'), NEW d \in Unreceived,
                      Latest(Unreceived, id, d), ~Takes(d, id)
               PROVE  EntriesOf(orderbook', id) = {}
    BY <1>3 DEF MemoryTwice
  <2>1. Puts(d, id)  BY DEF Latest, Puts
  <2> QED  BY <1>3, <2>1
<1>6. ASSUME NEW c \in Clients PROVE SocketTwice(c)'
  <2>1. SocketTwice(c) /\ SocketTypes(c)  BY <1>1 DEF TwiceInv, SocketsInv, SocketInv
  <2>2. client[c].step \in {"away", "gone"} /\ client[c].rx = << >>
    BY <2>1 DEF SocketTypes
  <2>3. ToSet(client'[c].rx) = {}  BY <2>2, QueueNone
  <2>4. ~Joined(c)'  BY <2>2 DEF Joined, Subscribed
  <2>5. UnseenOnce(c)'  BY <1>3, <2>1 DEF SocketTwice, UnseenOnce
  <2> QED  BY <2>3, <2>4, <2>5 DEF SocketTwice, ShowsTwice
<1> QED  BY <1>4, <1>5, <1>6 DEF TwiceInv

LEMMA BootstrapTwice ==
  ASSUME FeedInv, TwiceInv, Bootstrap
  PROVE  TwiceInv'
<1>1. TableInv /\ ServerTypes  BY DEF FeedInv
<1>2. /\ backend = "boot" /\ UNCHANGED <<chain, outbox, receiver, stream, inserted, sockets>>
  BY DEF Bootstrap
<1>3. orderbook = NewState(0)  BY <1>1, <1>2 DEF ServerTypes, NoBook
<1>4. PICK book : book = orderbook'  OBVIOUS
<1>5. \/ /\ book = PushSnapshot(NewState(0), get_orderbook(live_orders))
         /\ twice' = UNION {PutIn(d) : d \in ToSet(outbox)}
      \/ book = NewState(0) /\ twice' = {}
  BY <1>3, <1>4 DEF Bootstrap
<1>6. CASE /\ book = PushSnapshot(NewState(0), get_orderbook(live_orders))
           /\ twice' = UNION {PutIn(d) : d \in ToSet(outbox)}
  <2>1. Doubled(book) = {}  BY <1>1, <1>6, SnapshotTells
  <2>2. twice' \subseteq OrderIds
    <3> SUFFICES ASSUME NEW d \in ToSet(outbox), NEW id \in PutIn(d) PROVE id \in OrderIds
      BY <1>6
    <3>1. d \in Unreceived  BY DEF Unreceived
    <3>2. KnownDiff(d)  BY <3>1, SlotsAre
    <3>3. id \in Touched(d)  BY PutsIs DEF Puts
    <3> QED  BY <1>1, <3>2, <3>3, RowsAre DEF KnownDiff
  <2>3. \A d \in ToSet(outbox) : \A id : Puts(d, id) => id \in twice'
    BY <1>6, PutsIs
  <2> QED  BY <1>2, <1>4, <2>1, <2>2, <2>3, ServeTwice
<1>7. CASE book = NewState(0) /\ twice' = {}
  <2>1. \A id : EntriesOf(book, id) = {}  BY <1>7, NewStateProperties DEF EntriesOf
  <2>2. Doubled(book) = {}  BY <2>1, DoubledHas
  <2> QED  BY <1>2, <1>4, <1>7, <2>1, <2>2, ServeTwice
<1> QED  BY <1>5, <1>6, <1>7

LEMMA RestartTwice ==
  ASSUME FeedInv, TwiceInv, Restart
  PROVE  TwiceInv'
<1>1. /\ backend' = "boot" /\ stream' = << >> /\ inserted' = << >> /\ orderbook' = NoBook
      /\ twice' = {} /\ outbox' = outbox
      /\ client' = [c \in Clients |-> IF client[c].step = "away" THEN NewSocket ELSE GoneSocket]
      /\ unseen' = [c \in Clients |-> {}] /\ again' = [c \in Clients |-> {}]
  BY DEF Restart
<1>2. \A id : EntriesOf(orderbook', id) = {}
  BY <1>1, NewStateProperties DEF NoBook, EntriesOf
<1>3. Doubled(orderbook') = {}  BY <1>2, DoubledHas
<1>4. TwiceTypes'  BY <1>1 DEF TwiceTypes
<1>5. MemoryTwice'  BY <1>1, <1>2, <1>3 DEF MemoryTwice, Serving
<1>6. ASSUME NEW c \in Clients PROVE SocketTwice(c)'
  <2>1. /\ NewSocket.rx = << >> /\ NewSocket.step = "away"
        /\ GoneSocket.rx = << >> /\ GoneSocket.step = "gone"
    BY DEF NewSocket, GoneSocket
  <2>2. client'[c].rx = << >> /\ client'[c].step \in {"away", "gone"} /\ unseen'[c] = {}
    BY <1>1, <2>1
  <2>3. ToSet(client'[c].rx) = {}  BY <2>2, QueueNone
  <2>4. ~Joined(c)'  BY <2>2 DEF Joined, Subscribed
  <2> QED  BY <2>2, <2>3, <2>4 DEF SocketTwice, UnseenOnce, ShowsTwice
<1> QED  BY <1>4, <1>5, <1>6 DEF TwiceInv

\* What a diff makes of the orders that stand twice.
LEMMA TakesOverTwice ==
  ASSUME NEW book, KnownBook(book), NEW d, KnownDiff(d), NEW next, next = Apply(d, book)
  PROVE  \A id : /\ id \notin Touched(d) => (id \in Doubled(next) <=> id \in Doubled(book))
                 /\ Takes(d, id) => id \notin Doubled(next)
                 /\ Puts(d, id) => (id \in Doubled(next) <=> EntriesOf(book, id) # {})
<1> TAKE id
<1>1. book \in States /\ Home(Entries(book)) /\ d \in Diffs /\ HomeDiff(d)
  BY DEF KnownBook, KnownDiff
<1>2. id \in Doubled(next)
        <=> /\ ~Takes(d, id)
            /\ id \in Doubled(book) \/ (AddedOf(d, id) # {} /\ EntriesOf(book, id) # {})
  BY <1>1, ApplyDoubles
<1>3. id \notin Touched(d) => ~Takes(d, id) /\ AddedOf(d, id) = {}  BY <1>1, Untouching
<1>4. Puts(d, id) => AddedOf(d, id) # {} /\ ~Takes(d, id)  BY <1>1, PutsAdds DEF Puts
<1>5. id \in Doubled(book) => EntriesOf(book, id) # {}  BY DoubledHas
<1> QED  BY <1>2, <1>3, <1>4, <1>5

LEMMA ReceiveTwice ==
  ASSUME FeedInv, TwiceInv, Receive
  PROVE  TwiceInv'
<1>1. DiffInv /\ ServerTypes /\ BookInv /\ InSnapshot /\ SocketsInv /\ MemoryTwice
  BY DEF FeedInv, TwiceInv
<1>2. PICK d, book : d = Head(stream) /\ book = Apply(d, orderbook)  OBVIOUS
<1>3. /\ stream # << >> /\ inserted = << >> /\ orderbook' = book /\ inserted' = <<d>>
      /\ stream' = Tail(stream)
      /\ UNCHANGED <<chain, outbox, backend, receiver, ob_channel, upto, lost, twice, sockets>>
  BY <1>2 DEF Receive
<1> USE DEF chain, sockets
<1>4. d \in Diffs /\ ToSet(stream) = {d} \cup ToSet(stream')
      /\ \A e \in ToSet(stream') : d.slot < e.slot
  <2>1. stream \in Seq(Diffs) /\ Rises(stream)  BY <1>1 DEF ServerTypes, BookInv, OrderInv
  <2> QED  BY <1>2, <1>3, <2>1, QueueTail
<1>5. ToSet(inserted) = {} /\ ToSet(inserted') = {d}
  BY <1>3, <1>4, QueueNone, QueueSingle
<1>6. /\ Unreceived = Unreceived' \cup {d} /\ ToSet(outbox) \subseteq Unreceived'
      /\ \A e \in Unreceived' : d.slot < e.slot
  BY <1>1, <1>3, <1>4 DEF Unreceived, BookInv, OrderInv
<1>7. /\ \A e \in Unreceived : e.slot \in Nat /\ e \in InFlight
      /\ \A c \in Clients : \A e \in ToSet(client[c].rx) : e.slot \in Nat /\ e \in InFlight
      /\ orderbook.slot \in Nat /\ d.slot \in Nat /\ KnownDiff(d) /\ d \in InFlight
  BY <1>6, SlotsAre DEF InFlight
<1>8. orderbook.slot < d.slot  BY <1>1, <1>6 DEF BookInv, OrderInv
<1>9. \A id : /\ id \notin Touched(d) => /\ id \in Doubled(book) <=> id \in Doubled(orderbook)
                                         /\ EntriesOf(book, id) = EntriesOf(orderbook, id)
              /\ Takes(d, id) => id \notin Doubled(book)
              /\ Puts(d, id) => (id \in Doubled(book) <=> EntriesOf(orderbook, id) # {})
  <2>1. KnownBook(orderbook)  BY <1>1 DEF BookInv
  <2> QED  BY <1>2, <1>7, <2>1, TakesOver, TakesOverTwice
\* A diff that is newer takes the order out, if this one touches it.
<1>10. ASSUME NEW e \in InFlight, d.slot < e.slot, NEW id \in Touched(e), ~Takes(e, id)
       PROVE  id \notin Touched(d)
  <2> SUFFICES ASSUME id \in Touched(d) PROVE FALSE
    OBVIOUS
  <2>1. e.slot <= d.slot  BY <1>1, <1>7, <1>10 DEF DiffInv
  <2>2. e.slot \in Nat  BY <1>10, SlotsAre
  <2> QED  BY <1>7, <1>10, <2>1, <2>2
\* And this one, if an older one touches it.
<1>11. ASSUME NEW e \in InFlight, e.slot < d.slot, NEW id \in Touched(e), id \in Touched(d)
       PROVE  Takes(d, id)
  <2> SUFFICES ASSUME ~Takes(d, id) PROVE FALSE
    OBVIOUS
  <2>1. d.slot <= e.slot  BY <1>1, <1>7, <1>11 DEF DiffInv
  <2>2. e.slot \in Nat  BY <1>11, SlotsAre
  <2> QED  BY <1>7, <1>11, <2>1, <2>2
<1>12. TwiceTypes'  BY <1>3 DEF TwiceInv, TwiceTypes
<1>13. MemoryTwice'
  <2>1. ASSUME Serving, NEW id \in OrderIds \ (lost \cup twice)
        PROVE  /\ NoneOf(Unreceived', id) => id \notin Doubled(book)
               /\ \A e \in Unreceived' : Latest(Unreceived', id, e) /\ ~Takes(e, id)
                    => EntriesOf(book, id) = {}
    <3>1. /\ NoneOf(Unreceived, id) => id \notin Doubled(orderbook)
          /\ \A e \in Unreceived : Latest(Unreceived, id, e) /\ ~Takes(e, id)
               => EntriesOf(orderbook, id) = {}
      BY <1>1, <2>1 DEF MemoryTwice
    <3>2. ASSUME NoneOf(Unreceived', id) PROVE id \notin Doubled(book)
      <4>1. CASE id \in Touched(d)
        <5>1. Latest(Unreceived, id, d)  BY <1>6, <1>7, <3>2, <4>1 DEF Latest, NoneOf
        <5> QED  BY <1>6, <1>9, <3>1, <4>1, <5>1 DEF Puts
      <4>2. CASE id \notin Touched(d)
        <5>1. NoneOf(Unreceived, id)  BY <1>6, <3>2, <4>2 DEF NoneOf
        <5> QED  BY <1>9, <3>1, <4>2, <5>1
      <4> QED  BY <4>1, <4>2
    <3>3. ASSUME NEW e \in Unreceived', Latest(Unreceived', id, e), ~Takes(e, id)
          PROVE  EntriesOf(book, id) = {}
      <4>1. id \in Touched(e)  BY <3>3 DEF Latest
      <4>2. id \notin Touched(d)  BY <1>6, <1>7, <1>10, <3>3, <4>1
      <4>3. Latest(Unreceived, id, e)  BY <1>6, <3>3, <4>2 DEF Latest
      <4> QED  BY <1>6, <1>9, <3>1, <3>3, <4>2, <4>3
    <3> QED  BY <3>2, <3>3
  <2>2. ASSUME NEW e \in ToSet(outbox), NEW id, Puts(e, id)
        PROVE  EntriesOf(book, id) = {} \/ id \in twice
    <3>1. id \notin Touched(d)  BY <1>6, <1>7, <1>10, <2>2 DEF Puts
    <3>2. EntriesOf(orderbook, id) = {} \/ id \in twice  BY <1>1, <2>2 DEF MemoryTwice
    <3> QED  BY <1>9, <3>1, <3>2
  <2>3. ASSUME NEW e \in Unreceived', e.slot <= upto PROVE FALSE
    <3>1. e.slot <= d.slot  BY <1>1, <1>6, <2>3 DEF InSnapshot
    <3> QED  BY <1>6, <1>7, <3>1
  <2>4. \A e \in ToSet(inserted') : \A id : Takes(e, id) => id \notin Doubled(book)
    BY <1>5, <1>9
  <2> QED  BY <1>3, <2>1, <2>2, <2>3, <2>4 DEF MemoryTwice, Serving
<1>14. ASSUME NEW c \in Clients PROVE SocketTwice(c)'
  <2>1. SocketTwice(c) /\ SocketOrder(c) /\ Shows(c)
    BY <1>1 DEF TwiceInv, SocketsInv, SocketInv
  <2>2. Coming(c) = ToSet(client[c].rx) /\ Coming(c)' = Coming(c) \cup {d}
    BY <1>3, <1>5 DEF Coming
  <2>3. \A e \in Coming(c) : e \in InFlight /\ e.slot \in Nat /\ e.slot < d.slot
    BY <1>7, <1>8, <2>1, <2>2 DEF SocketOrder
  <2>4. ASSUME NEW e \in ToSet(client[c].rx), NEW id, Takes(e, id)
        PROVE  id \notin Doubled(book)
    <3>1. id \in Touched(e)  BY <2>4 DEF Takes, Touched
    <3>2. CASE id \in Touched(d)  BY <1>9, <1>11, <2>2, <2>3, <3>1, <3>2
    <3>3. CASE id \notin Touched(d)  BY <1>9, <2>1, <2>4, <3>3 DEF SocketTwice
    <3> QED  BY <3>2, <3>3
  <2>5. UnseenOnce(c)'  BY <1>3, <1>5, <1>6, <2>1 DEF SocketTwice, UnseenOnce
  <2>6. Joined(c)' <=> Joined(c)  BY <1>3 DEF Joined, Subscribed
  <2>7. PICK view : view = client[c].view  OBVIOUS
  <2>8. ShowsTwice(c)'
    <3> SUFFICES ASSUME Joined(c), ~client[c].lagged, NEW id \in OrderIds \ (unseen[c] \cup again[c])
                 PROVE  /\ NoneOf(Coming(c)', id) => (id \in Doubled(view) <=> id \in Doubled(book))
                        /\ \A e \in Coming(c)' : Latest(Coming(c)', id, e) /\ ~Takes(e, id)
                             => (EntriesOf(view, id) # {} <=> id \in Doubled(book))
      BY <1>3, <2>6, <2>7 DEF ShowsTwice
    <3>1. /\ NoneOf(Coming(c), id) => (id \in Doubled(view) <=> id \in Doubled(orderbook))
          /\ \A e \in Coming(c) : Latest(Coming(c), id, e) /\ ~Takes(e, id)
               => (EntriesOf(view, id) # {} <=> id \in Doubled(orderbook))
      BY <2>1, <2>7 DEF SocketTwice, ShowsTwice
    <3>2. NoneOf(Coming(c), id) => EntriesOf(view, id) = EntriesOf(orderbook, id)
      BY <2>1, <2>7 DEF Shows
    <3>3. ASSUME NoneOf(Coming(c)', id)
          PROVE  id \in Doubled(view) <=> id \in Doubled(book)
      <4>1. NoneOf(Coming(c), id) /\ id \notin Touched(d)  BY <2>2, <3>3 DEF NoneOf
      <4> QED  BY <1>9, <3>1, <4>1
    <3>4. ASSUME NEW e \in Coming(c)', Latest(Coming(c)', id, e), ~Takes(e, id)
          PROVE  EntriesOf(view, id) # {} <=> id \in Doubled(book)
      <4>1. CASE id \in Touched(d)
        <5>1. d.slot <= e.slot  BY <2>2, <3>4, <4>1 DEF Latest
        <5>2. e = d  BY <1>7, <2>2, <2>3, <5>1
        <5>3. NoneOf(Coming(c), id)  BY <1>11, <2>3, <3>4, <4>1, <5>2 DEF NoneOf
        <5>4. id \in Doubled(book) <=> EntriesOf(orderbook, id) # {}
          BY <1>9, <3>4, <4>1, <5>2 DEF Puts
        <5> QED  BY <3>2, <5>3, <5>4
      <4>2. CASE id \notin Touched(d)
        <5>1. e \in Coming(c) /\ Latest(Coming(c), id, e)  BY <2>2, <3>4, <4>2 DEF Latest
        <5> QED  BY <1>9, <3>1, <3>4, <4>2, <5>1
      <4> QED  BY <4>1, <4>2
    <3> QED  BY <3>3, <3>4
  <2> QED  BY <1>3, <2>4, <2>5, <2>8 DEF SocketTwice
<1> QED  BY <1>12, <1>13, <1>14 DEF TwiceInv

\* A socket that gets the diff next has still to show what the book has; one that does
\* not is shown the book, or has missed the diff.
LEMMA SendTwice ==
  ASSUME FeedInv, TwiceInv, Send
  PROVE  TwiceInv'
<1>1. TableInv /\ DiffInv /\ ServerTypes /\ BookInv /\ SocketsInv /\ MemoryTwice /\ TwiceTypes
  BY DEF FeedInv, TwiceInv
<1>2. PICK d : d = Head(inserted)  OBVIOUS
<1>3. /\ inserted # << >> /\ inserted' = << >>
      /\ client' = [c \in Clients |-> IF Subscribed(c) THEN Pushed(client[c], d) ELSE client[c]]
      /\ unseen' = [c \in Clients |->
             IF Subscribed(c) THEN unseen[c] \ Touched(d)
             ELSE IF client[c].step \in {"away", "gone"} \/ client[c].view.slot = d.slot
                  THEN unseen[c] ELSE unseen[c] \cup Touched(d)]
      /\ again' = [c \in Clients |->
             again[c] \ (IF Subscribed(c) THEN TakenOut(d) ELSE Touched(d))]
      /\ UNCHANGED <<chain, outbox, backend, receiver, stream, orderbook, ob_channel, upto, lost,
                     twice>>
  BY <1>2 DEF Send
<1> USE DEF chain
<1>4. d \in Diffs /\ ToSet(inserted) = {d} /\ ToSet(inserted') = {}
  BY <1>1, <1>2, <1>3, QueueOne, QueueNone DEF ServerTypes
<1>5. /\ d.slot = orderbook.slot /\ d.slot \in Nat /\ KnownDiff(d) /\ d \in InFlight
      /\ \A e \in Unreceived : e.slot \in Nat /\ orderbook.slot < e.slot /\ e \in InFlight
  BY <1>1, <1>4, SlotsAre DEF BookInv, OrderInv, InFlight
<1>6. Touched(d) \subseteq DOMAIN live_orders  BY <1>5 DEF KnownDiff
<1>7. Unreceived' = Unreceived  BY <1>3 DEF Unreceived
<1>8. \A e \in Unreceived : \A id \in Touched(d) : ~Puts(e, id)
  <2> SUFFICES ASSUME NEW e \in Unreceived, NEW id \in Touched(d), Puts(e, id) PROVE FALSE
    OBVIOUS
  <2>1. e.slot <= d.slot  BY <1>1, <1>5 DEF DiffInv, Puts
  <2> QED  BY <1>5, <2>1
<1>9. TwiceTypes'
  <2>1. \A c \in Clients : again'[c] \subseteq again[c]  BY <1>3
  <2>2. again' = [c \in Clients |-> again'[c]]  BY <1>3
  <2> QED  BY <1>1, <1>3, <2>1, <2>2 DEF TwiceTypes
<1>10. MemoryTwice'  BY <1>1, <1>3, <1>4, <1>7 DEF MemoryTwice, Serving
<1>11. ASSUME NEW c \in Clients PROVE SocketTwice(c)'
  <2>1. /\ SocketTwice(c) /\ SocketTypes(c) /\ SocketOrder(c)
    BY <1>1 DEF TwiceInv, SocketsInv, SocketInv
  <2>2. PICK socket, next, rx, view :
          socket = client[c] /\ next = client'[c] /\ rx = client[c].rx /\ view = client[c].view
    OBVIOUS
  <2>3. rx \in Seq(Diffs) /\ socket \in SocketRecords
    BY <2>1, <2>2 DEF SocketTypes, SocketRecords
  <2>4. Coming(c) = ToSet(rx) \cup {d}  BY <1>4, <2>2 DEF Coming
  <2>5. \A e \in Coming(c) : \A id : Takes(e, id) => id \notin Doubled(orderbook)
    BY <1>1, <1>4, <2>1, <2>2, <2>4 DEF MemoryTwice, SocketTwice
  <2>6. UnseenOnce(c)'
    <3>1. unseen'[c] \subseteq unseen[c] \cup Touched(d)  BY <1>3
    <3>2. UnseenOnce(c)  BY <2>1 DEF SocketTwice
    <3> QED  BY <1>3, <1>4, <1>6, <1>7, <1>8, <3>1, <3>2 DEF UnseenOnce
  <2>7. CASE Subscribed(c)
    <3>1. /\ next = Pushed(socket, d) /\ unseen'[c] = unseen[c] \ Touched(d)
          /\ again'[c] = again[c] \ TakenOut(d)
      BY <1>3, <2>2, <2>7
    <3>2. PICK rest, lagged :
            /\ next = [socket EXCEPT !.rx = Append(rest, d), !.lagged = lagged]
            /\ rest \in Seq(Diffs) /\ ToSet(rest) \subseteq ToSet(rx)
            /\ ~lagged => ~socket.lagged /\ rest = rx
      <4>1. CASE Len(rx) < Cap
        <5>1. next = [socket EXCEPT !.rx = Append(rx, d)]
          BY <2>2, <3>1, <4>1 DEF Pushed
        <5>2. [socket EXCEPT !.rx = Append(rx, d)]
                = [socket EXCEPT !.rx = Append(rx, d), !.lagged = socket.lagged]
          BY <2>3 DEF SocketRecords
        <5> QED  BY <2>3, <5>1, <5>2
      <4>2. CASE ~(Len(rx) < Cap)
        <5>1. next = [socket EXCEPT !.rx = Append(Tail(rx), d), !.lagged = TRUE]
          BY <2>2, <3>1, <4>2 DEF Pushed
        <5>2. Len(rx) \in Nat /\ Cap \in Nat /\ Cap # 0
          BY <2>3, LenProperties, FeedAssumption DEF FeedAssumption
        <5>3. rx # << >>  BY <4>2, <5>2, QueueNone
        <5>4. Tail(rx) \in Seq(Diffs) /\ ToSet(rx) = {Head(rx)} \cup ToSet(Tail(rx))
          BY <2>3, <5>3, QueueTail
        <5> QED  BY <5>1, <5>4
      <4> QED  BY <4>1, <4>2
    <3>3. PICK queue : queue = Append(rest, d)  OBVIOUS
    <3>4. ToSet(queue) = ToSet(rest) \cup {d}  BY <1>4, <3>2, <3>3, QueueAppend
    <3>5. next.rx = queue /\ next.lagged = lagged /\ next.view = view
      <4>1. PICK step, channel, was, repeats :
              socket = [step |-> step, channel |-> channel, rx |-> rx, lagged |-> was,
                        repeats |-> repeats, view |-> view]
        BY <2>2, <2>3 DEF SocketRecords
      <4>2. next = [step |-> step, channel |-> channel, rx |-> queue, lagged |-> lagged,
                    repeats |-> repeats, view |-> view]
        BY <3>2, <3>3, <4>1
      <4> QED  BY <4>2
    <3>6. \A e \in ToSet(next.rx) : \A id : Takes(e, id) => id \notin Doubled(orderbook)
      BY <2>4, <2>5, <3>2, <3>4, <3>5
    <3>7. ShowsTwice(c)'
      <4> SUFFICES ASSUME ~lagged, NEW id \in OrderIds \ (unseen'[c] \cup again'[c])
                   PROVE  /\ NoneOf(Coming(c)', id)
                               => (id \in Doubled(view) <=> id \in Doubled(orderbook))
                          /\ \A e \in Coming(c)' : Latest(Coming(c)', id, e) /\ ~Takes(e, id)
                               => (EntriesOf(view, id) # {} <=> id \in Doubled(orderbook))
        BY <1>3, <2>2, <3>5 DEF ShowsTwice
      <4>1. Coming(c)' = Coming(c)  BY <1>4, <2>2, <2>4, <3>2, <3>4, <3>5 DEF Coming
      <4>2. Joined(c) /\ ~client[c].lagged  BY <2>2, <2>7, <3>2 DEF Joined
      <4>3. CASE id \notin unseen[c] \cup again[c]
        BY <2>1, <2>2, <4>1, <4>2, <4>3 DEF SocketTwice, ShowsTwice
      <4>4. CASE id \in unseen[c] \cup again[c]
        <5>1. \A k \in unseen[c] : ~Puts(d, k)  BY <1>4, <2>1 DEF SocketTwice, UnseenOnce
        <5>2. id \in TakenOut(d) => Takes(d, id)  BY PutsIs
        <5>3. id \in Touched(d) /\ Takes(d, id)
          <6>1. Takes(d, id) => id \in Touched(d)  BY DEF Takes, Touched
          <6> QED  BY <3>1, <4>4, <5>1, <5>2, <6>1 DEF Puts
        <5>4. d \in Coming(c)  BY <2>4
        <5>5. ~NoneOf(Coming(c), id)  BY <5>3, <5>4 DEF NoneOf
        <5>6. \A e \in Coming(c) : ~(Latest(Coming(c), id, e) /\ ~Takes(e, id))
          <6>1. Coming(c) \subseteq InFlight  BY ComingIs
          <6> QED  BY <5>3, <5>4, <6>1, PutsOnce
        <5> QED  BY <4>1, <5>5, <5>6
      <4> QED  BY <4>3, <4>4
    <3> QED  BY <1>3, <2>2, <2>6, <3>6, <3>7 DEF SocketTwice
  <2>8. CASE ~Subscribed(c)
    <3>1. /\ client'[c] = client[c] /\ again'[c] = again[c] \ Touched(d)
          /\ unseen'[c] = (IF client[c].step \in {"away", "gone"} \/ client[c].view.slot = d.slot
                           THEN unseen[c] ELSE unseen[c] \cup Touched(d))
      BY <1>3, <2>8
    <3>2. ShowsTwice(c)'
      <4> SUFFICES ASSUME Joined(c)', ~client[c].lagged, NEW id \in OrderIds,
                          id \notin unseen'[c], id \notin again'[c]
                   PROVE  /\ Coming(c)' = {}
                          /\ id \in Doubled(view) <=> id \in Doubled(orderbook)
        BY <1>3, <2>2, <3>1 DEF ShowsTwice
      <4>1. Joined(c) /\ client[c].step \in {"opened", "create"}
        BY <1>3, <2>8, <3>1 DEF Joined, Subscribed
      <4>2. ToSet(rx) = {}  BY <2>1, <2>2, <4>1, QueueNone DEF SocketTypes
      <4>3. Coming(c)' = {}  BY <1>4, <2>2, <3>1, <4>2 DEF Coming
      <4>4. CASE view.slot = d.slot
        BY <1>5, <2>1, <2>2, <4>1, <4>3, <4>4 DEF SocketOrder
      <4>5. CASE view.slot # d.slot
        <5>1. unseen'[c] = unseen[c] \cup Touched(d)  BY <2>2, <3>1, <4>1, <4>5
        <5>2. id \notin Touched(d) /\ id \notin unseen[c] /\ id \notin again[c]  BY <3>1, <5>1
        <5>3. NoneOf(Coming(c), id)  BY <2>4, <4>2, <5>2 DEF NoneOf
        <5> QED  BY <2>1, <2>2, <4>1, <4>3, <5>2, <5>3 DEF SocketTwice, ShowsTwice
      <4> QED  BY <4>4, <4>5
    <3> QED  BY <1>3, <2>1, <2>6, <3>1, <3>2 DEF SocketTwice
  <2> QED  BY <2>7, <2>8
<1> QED  BY <1>9, <1>10, <1>11 DEF TwiceInv

\* What a socket's step leaves alone, once more.
LEMMA OneSocketTwice ==
  ASSUME FeedInv, TwiceInv, NEW c \in Clients, NEW socket, SocketStep(c, socket),
         ob_channel' = ob_channel \/ ob_channel' = NewChannel,
         unseen' = unseen \/ unseen' = [unseen EXCEPT ![c] = {}],
         NEW ids, ids \subseteq OrderIds, again' = again \/ again' = [again EXCEPT ![c] = ids],
         SocketTwice(c)'
  PROVE  TwiceInv'
<1>1. /\ client' = [client EXCEPT ![c] = socket]
      /\ UNCHANGED <<chain, outbox, backend, stream, inserted, orderbook, upto, lost, twice>>
  BY DEF SocketStep
<1>2. /\ client = [k \in Clients |-> client[k]] /\ unseen = [k \in Clients |-> unseen[k]]
      /\ again = [k \in Clients |-> again[k]] /\ TwiceTypes /\ MemoryTwice
  BY DEF FeedInv, SocketsInv, TwiceInv, TwiceTypes
<1> USE DEF chain
<1>3. Unreceived' = Unreceived  BY <1>1 DEF Unreceived
<1>4. again' = [k \in Clients |-> again'[k]] /\ \A k \in Clients : again'[k] \subseteq OrderIds
  <2>1. CASE again' = again  BY <1>2, <2>1 DEF TwiceTypes
  <2>2. CASE again' = [again EXCEPT ![c] = ids]  BY <1>2, <2>2 DEF TwiceTypes
  <2> QED  BY <2>1, <2>2
<1>5. TwiceTypes'  BY <1>1, <1>2, <1>4 DEF TwiceTypes
<1>6. MemoryTwice'  BY <1>1, <1>2, <1>3 DEF MemoryTwice, Serving
<1>7. ASSUME NEW k \in Clients PROVE SocketTwice(k)'
  <2>1. CASE k = c  BY <2>1
  <2>2. CASE k # c
    <3>1. SocketTwice(k)  BY DEF TwiceInv
    <3>2. client'[k] = client[k] /\ unseen'[k] = unseen[k] /\ again'[k] = again[k]
      BY <1>1, <1>2, <2>2
    <3>3. ob_channel' = client[k].channel => ob_channel = client[k].channel  BY NewChannelIs
    <3>4. Joined(k)' => Joined(k)  BY <3>2, <3>3 DEF Joined, Subscribed
    <3>5. Coming(k)' = Coming(k)  BY <1>1, <3>2 DEF Coming
    <3>6. UnseenOnce(k)'  BY <1>1, <1>3, <3>1, <3>2 DEF SocketTwice, UnseenOnce
    <3>7. ShowsTwice(k)'  BY <1>1, <3>1, <3>2, <3>4, <3>5 DEF SocketTwice, ShowsTwice
    <3> QED  BY <1>1, <3>1, <3>2, <3>6, <3>7 DEF SocketTwice
  <2> QED  BY <2>1, <2>2
<1> QED  BY <1>5, <1>6, <1>7 DEF TwiceInv

\* A socket that misses nothing more than before, and gets nothing more.
LEMMA StillOnce ==
  ASSUME FeedInv, TwiceInv, NEW c \in Clients, NEW socket, SocketStep(c, socket),
         unseen' = unseen \/ unseen' = [unseen EXCEPT ![c] = {}],
         ToSet(socket.rx) \subseteq ToSet(client[c].rx), ShowsTwice(c)'
  PROVE  SocketTwice(c)'
<1>1. UNCHANGED <<chain, outbox, stream, inserted, orderbook>> /\ client'[c] = socket
  BY AroundSocket DEF SocketStep
<1>2. SocketTwice(c)  BY DEF TwiceInv
<1>3. unseen'[c] \subseteq unseen[c]  BY AroundSocket
<1>4. Unreceived' = Unreceived  BY <1>1 DEF Unreceived
<1>5. UnseenOnce(c)'  BY <1>1, <1>2, <1>3, <1>4 DEF SocketTwice, UnseenOnce, chain
<1> QED  BY <1>1, <1>2, <1>5 DEF SocketTwice

LEMMA GoneTwice ==
  ASSUME FeedInv, TwiceInv, NEW c \in Clients, SocketStep(c, GoneSocket),
         ob_channel' = ob_channel, unseen' = [unseen EXCEPT ![c] = {}],
         again' = [again EXCEPT ![c] = {}]
  PROVE  TwiceInv'
<1>1. PICK gone : gone = GoneSocket  OBVIOUS
<1>2. gone.step = "gone" /\ ToSet(gone.rx) = {}
  BY <1>1, QueueNone DEF GoneSocket, NewSocket
<1>3. client'[c] = gone  BY <1>1, AroundSocket
<1>4. ~Joined(c)'  BY <1>2, <1>3 DEF Joined, Subscribed
<1>5. ShowsTwice(c)'  BY <1>4 DEF ShowsTwice
<1>6. ToSet(gone.rx) \subseteq ToSet(client[c].rx)  BY <1>2
<1>7. SocketTwice(c)'  BY <1>1, <1>5, <1>6, StillOnce
<1>8. PICK ids : ids = {}  OBVIOUS
<1>9. ids \subseteq OrderIds /\ again' = [again EXCEPT ![c] = ids]  BY <1>8
<1> QED  BY <1>7, <1>9, OneSocketTwice

\* The orders that diffs put in are on the menu.
LEMMA PutInKnown ==
  ASSUME FeedInv, NEW diffs, diffs \subseteq InFlight
  PROVE  UNION {PutIn(d) : d \in diffs} \subseteq OrderIds
<1> SUFFICES ASSUME NEW d \in diffs, NEW id \in PutIn(d) PROVE id \in OrderIds
  OBVIOUS
<1>1. KnownDiff(d) /\ TableInv  BY SlotsAre DEF FeedInv
<1>2. id \in Touched(d)  BY PutsIs DEF Puts
<1> QED  BY <1>1, <1>2, RowsAre DEF KnownDiff

LEMMA OpenTwice ==
  ASSUME FeedInv, TwiceInv, NEW c \in Clients, Open(c)
  PROVE  TwiceInv'
<1>1. PICK old, book, ids : /\ old = client[c] /\ book = orderbook
                            /\ ids = UNION {PutIn(d) : d \in ToSet(inserted)}
  OBVIOUS
<1>2. PICK socket : socket = [old EXCEPT !.step = "opened", !.view = book]  OBVIOUS
<1>3. /\ old.step = "away" /\ SocketStep(c, socket) /\ unseen' = unseen
      /\ ob_channel' = ob_channel /\ again' = [again EXCEPT ![c] = ids]
  BY <1>1, <1>2 DEF Open
<1>4. client'[c] = socket /\ inserted' = inserted /\ orderbook' = orderbook
      /\ old \in SocketRecords /\ SocketTypes(c)
  BY <1>1, <1>3, AroundSocket
<1>5. PICK step, channel, rx, lagged, repeats, view :
        old = [step |-> step, channel |-> channel, rx |-> rx, lagged |-> lagged,
               repeats |-> repeats, view |-> view]
  BY <1>4 DEF SocketRecords
<1>6. socket = [step |-> "opened", channel |-> channel, rx |-> rx, lagged |-> lagged,
                repeats |-> repeats, view |-> book]
  BY <1>2, <1>5
<1>7. old.rx = << >>  BY <1>1, <1>3, <1>4 DEF SocketTypes
<1>8. socket.view = orderbook /\ socket.rx = << >>  BY <1>1, <1>5, <1>6, <1>7
<1>9. ToSet(socket.rx) = {}  BY <1>8, QueueNone
<1>10. Coming(c)' = ToSet(inserted)  BY <1>4, <1>9 DEF Coming
<1>11. again'[c] = ids  BY <1>3 DEF TwiceInv, TwiceTypes
<1>12. \A d \in ToSet(inserted) : \A id : Puts(d, id) => id \in ids
  BY <1>1, PutsIs
<1>13. ShowsTwice(c)'
  BY <1>4, <1>8, <1>10, <1>11, <1>12 DEF ShowsTwice, Latest, Puts
<1>14. ids \subseteq OrderIds
  <2>1. ToSet(inserted) \subseteq InFlight  BY DEF InFlight
  <2> QED  BY <1>1, <2>1, PutInKnown
<1>15. SocketTwice(c)'  BY <1>3, <1>9, <1>13, StillOnce
<1> QED  BY <1>3, <1>14, <1>15, OneSocketTwice

LEMMA JoinTwice ==
  ASSUME FeedInv, TwiceInv, NEW c \in Clients, client[c].step \in {"opened", "create"},
         UNCHANGED <<unseen, again>>, NEW socket, Alike(socket, client[c]), SocketStep(c, socket),
         ob_channel' = ob_channel \/ ob_channel' = NewChannel
  PROVE  TwiceInv'
<1>1. client'[c] = socket /\ inserted' = inserted /\ orderbook' = orderbook  BY AroundSocket
<1>2. /\ socket.rx = client[c].rx /\ socket.view = client[c].view
      /\ socket.lagged = client[c].lagged
  BY DEF Alike
<1>3. Joined(c) /\ Coming(c)' = Coming(c)  BY <1>1, <1>2 DEF Joined, Coming
<1>4. ShowsTwice(c)
  BY DEF TwiceInv, SocketTwice
<1>5. ShowsTwice(c)'  BY <1>1, <1>2, <1>3, <1>4 DEF ShowsTwice
<1>6. SocketTwice(c)'  BY <1>2, <1>5, StillOnce
<1>7. {} \subseteq OrderIds  OBVIOUS
<1> QED  BY <1>6, <1>7, OneSocketTwice

LEMMA LookupTwice ==
  ASSUME FeedInv, TwiceInv, NEW c \in Clients, Lookup(c)
  PROVE  TwiceInv'
<1>1. PICK old, channel : old = client[c] /\ channel = ob_channel  OBVIOUS
<1>2. /\ old \in SocketRecords /\ channel \in Nat /\ client[c].step = "opened"
      /\ UNCHANGED <<unseen, again, ob_channel>>
  BY <1>1 DEF Lookup, FeedInv, SocketsInv, SocketInv, SocketTypes, ServerTypes
<1>3. PICK socket : socket = IF channel = 0 THEN Creating(old) ELSE Joining(old, channel)
  OBVIOUS
<1>4. SocketStep(c, socket)  BY <1>1, <1>3 DEF Lookup, Creating, Joining
<1>5. Alike(socket, client[c])  BY <1>1, <1>2, <1>3, Retold
<1> QED  BY <1>2, <1>4, <1>5, JoinTwice

LEMMA CreateTwice ==
  ASSUME FeedInv, TwiceInv, NEW c \in Clients, Create(c)
  PROVE  TwiceInv'
<1>1. PICK old, channel : old = client[c] /\ channel = NewChannel  OBVIOUS
<1>2. /\ old \in SocketRecords /\ channel \in Nat /\ client[c].step = "create"
      /\ UNCHANGED <<unseen, again>> /\ ob_channel' = NewChannel
  BY <1>1, NewChannelIs DEF Create, FeedInv, SocketsInv, SocketInv, SocketTypes
<1>3. PICK socket : socket = Joining(old, channel)  OBVIOUS
<1>4. SocketStep(c, socket)  BY <1>1, <1>3 DEF Create, Joining
<1>5. Alike(socket, client[c])  BY <1>1, <1>2, <1>3, Retold
<1> QED  BY <1>2, <1>4, <1>5, JoinTwice

\* After a lag the browser has the backend's book, with each order as often.
LEMMA DeliverLaggedTwice ==
  ASSUME FeedInv, TwiceInv, NEW c \in Clients, DeliverLagged(c)
  PROVE  TwiceInv'
<1>1. PICK old, n, book, ids : /\ old = client[c] /\ n = Len(client[c].rx) /\ book = orderbook
                               /\ ids = Again(c)
  OBVIOUS
<1>2. PICK socket : socket = [old EXCEPT !.lagged = FALSE, !.repeats = n, !.view = book]
  OBVIOUS
<1>3. /\ old.lagged /\ SocketStep(c, socket) /\ unseen' = [unseen EXCEPT ![c] = {}]
      /\ ob_channel' = ob_channel /\ again' = [again EXCEPT ![c] = ids]
  BY <1>1, <1>2 DEF DeliverLagged
<1>4. client'[c] = socket /\ inserted' = inserted /\ orderbook' = orderbook
      /\ old \in SocketRecords
  BY <1>1, <1>3, AroundSocket
<1>5. PICK step, channel, rx, lagged, repeats, view :
        old = [step |-> step, channel |-> channel, rx |-> rx, lagged |-> lagged,
               repeats |-> repeats, view |-> view]
  BY <1>4 DEF SocketRecords
<1>6. socket = [step |-> step, channel |-> channel, rx |-> rx, lagged |-> FALSE,
                repeats |-> n, view |-> book]
  BY <1>2, <1>5
<1>7. socket.view = orderbook /\ socket.rx = client[c].rx  BY <1>1, <1>5, <1>6
<1>8. Coming(c)' = Coming(c)  BY <1>4, <1>7 DEF Coming
<1>9. again'[c] = ids  BY <1>3 DEF TwiceInv, TwiceTypes
<1>10. \A id : \A d \in Coming(c) : Latest(Coming(c), id, d) /\ ~Takes(d, id) => id \in ids
  BY <1>1, <1>3, AgainIs
<1>11. ShowsTwice(c)'  BY <1>4, <1>7, <1>8, <1>9, <1>10 DEF ShowsTwice
<1>12. ids \subseteq OrderIds
  <2>1. /\ Coming(c) \subseteq InFlight
        /\ ToSet(client[c].rx \o inserted) = Coming(c)
    BY ComingIs
  <2>2. UNION {PutIn(d) : d \in Coming(c)} \subseteq OrderIds  BY <2>1, PutInKnown
  <2>3. ids \subseteq UNION {PutIn(d) : d \in Coming(c)}  BY <1>1, <1>3, <2>1 DEF Again
  <2> QED  BY <2>2, <2>3
<1>13. SocketTwice(c)'  BY <1>3, <1>7, <1>11, StillOnce
<1> QED  BY <1>3, <1>12, <1>13, OneSocketTwice

\* The first diff of the queue doubles in the browser's book what it doubled in the
\* backend's.
LEMMA DeliverTwice ==
  ASSUME FeedInv, TwiceInv, NEW c \in Clients, Deliver(c)
  PROVE  TwiceInv'
<1>1. PICK old : old = client[c]  OBVIOUS
<1>2. PICK h, book, less, socket :
        /\ h = Head(old.rx) /\ book = Apply(h, old.view)
        /\ less = (IF old.repeats = 0 THEN 0 ELSE old.repeats - 1)
        /\ socket = [old EXCEPT !.rx = Tail(@), !.repeats = less, !.view = book]
  OBVIOUS
<1>3. /\ old.step = "listening" /\ ~old.lagged /\ old.rx # << >> /\ UNCHANGED <<unseen, again>>
      /\ ob_channel' = ob_channel /\ SocketStep(c, socket)
  <2>1. SocketStep(c, [old EXCEPT !.rx = Tail(@), !.repeats = IF @ = 0 THEN 0 ELSE @ - 1,
                                  !.view = Apply(Head(old.rx), @)])
    BY <1>1 DEF Deliver
  <2> QED  BY <1>1, <1>2, <2>1 DEF Deliver
<1>4. /\ client'[c] = socket /\ inserted' = inserted /\ orderbook' = orderbook
      /\ old \in SocketRecords /\ KnownBook(old.view) /\ SocketOrder(c)
  BY <1>1, <1>3, AroundSocket
<1>5. PICK step, channel, rx, lagged, repeats, view :
        /\ old = [step |-> step, channel |-> channel, rx |-> rx, lagged |-> lagged,
                  repeats |-> repeats, view |-> view]
        /\ rx \in Seq(Diffs)
  BY <1>4 DEF SocketRecords
<1>6. PICK rest : rest = Tail(rx)  OBVIOUS
<1>7. socket = [step |-> step, channel |-> channel, rx |-> rest, lagged |-> lagged,
                repeats |-> less, view |-> book]
  BY <1>2, <1>5, <1>6
<1>8. socket.rx = rest /\ socket.view = book /\ socket.step = step /\ socket.channel = channel
      /\ old.rx = rx /\ old.view = view /\ old.step = step /\ old.channel = channel
  BY <1>5, <1>7
<1>9. /\ h \in ToSet(rx) /\ ToSet(rx) = {h} \cup ToSet(rest)
      /\ \A e \in ToSet(rest) : h.slot < e.slot
  BY <1>1, <1>2, <1>3, <1>4, <1>5, <1>6, <1>8, QueueTail DEF SocketOrder
<1>10. /\ Coming(c) = ToSet(rx) \cup ToSet(inserted) /\ Coming(c) \subseteq InFlight
       /\ Coming(c)' = ToSet(rest) \cup ToSet(inserted)
  BY <1>1, <1>4, <1>8, ComingIs DEF Coming
<1>11. /\ Coming(c) = {h} \cup Coming(c)' /\ KnownDiff(h) /\ KnownBook(view)
       /\ \A e \in Coming(c) : e.slot \in Nat
       /\ \A e \in Coming(c)' : h.slot < e.slot
  <2>1. \A e \in ToSet(inserted) : h.slot < e.slot
    BY <1>1, <1>4, <1>8, <1>9 DEF SocketOrder
  <2>2. \A e \in Coming(c) : e.slot \in Nat /\ KnownDiff(e)  BY <1>10, SlotsAre
  <2> QED  BY <1>4, <1>8, <1>9, <1>10, <2>1, <2>2
<1>12. \A id : /\ id \notin Touched(h) => /\ id \in Doubled(book) <=> id \in Doubled(view)
                                          /\ EntriesOf(book, id) = EntriesOf(view, id)
               /\ Takes(h, id) => id \notin Doubled(book)
               /\ Puts(h, id) => (id \in Doubled(book) <=> EntriesOf(view, id) # {})
  BY <1>2, <1>8, <1>11, TakesOver, TakesOverTwice
<1>13. /\ ShowsTwice(c)
       /\ \A id : Takes(h, id) => id \notin Doubled(orderbook)
  BY <1>1, <1>8, <1>9 DEF TwiceInv, SocketTwice
<1>14. Joined(c)' => Joined(c)  BY <1>1, <1>3, <1>4, <1>8 DEF Joined, Subscribed
<1>15. ShowsTwice(c)'
  <2> SUFFICES ASSUME Joined(c), NEW id \in OrderIds \ (unseen[c] \cup again[c])
               PROVE  /\ NoneOf(Coming(c)', id)
                           => (id \in Doubled(book) <=> id \in Doubled(orderbook))
                      /\ \A e \in Coming(c)' : Latest(Coming(c)', id, e) /\ ~Takes(e, id)
                           => (EntriesOf(book, id) # {} <=> id \in Doubled(orderbook))
    BY <1>3, <1>4, <1>8, <1>14 DEF ShowsTwice
  <2>1. /\ NoneOf(Coming(c), id) => (id \in Doubled(view) <=> id \in Doubled(orderbook))
        /\ \A e \in Coming(c) : Latest(Coming(c), id, e) /\ ~Takes(e, id)
             => (EntriesOf(view, id) # {} <=> id \in Doubled(orderbook))
    BY <1>1, <1>3, <1>8, <1>13 DEF ShowsTwice
  <2>2. ASSUME NoneOf(Coming(c)', id)
        PROVE  id \in Doubled(book) <=> id \in Doubled(orderbook)
    <3>1. CASE id \in Touched(h)
      <4>1. h \in Coming(c) /\ Latest(Coming(c), id, h)
        BY <1>11, <2>2, <3>1 DEF Latest, NoneOf
      <4> QED  BY <1>12, <1>13, <2>1, <3>1, <4>1 DEF Puts
    <3>2. CASE id \notin Touched(h)
      <4>1. NoneOf(Coming(c), id)  BY <1>11, <2>2, <3>2 DEF NoneOf
      <4> QED  BY <1>12, <2>1, <3>2, <4>1
    <3> QED  BY <3>1, <3>2
  <2>3. ASSUME NEW e \in Coming(c)', Latest(Coming(c)', id, e), ~Takes(e, id)
        PROVE  EntriesOf(book, id) # {} <=> id \in Doubled(orderbook)
    <3>1. e \in Coming(c) /\ h.slot <= e.slot /\ h \in Coming(c) /\ h # e
      BY <1>11
    <3>2. Latest(Coming(c), id, e)  BY <1>11, <2>3, <3>1 DEF Latest
    <3>3. id \notin Touched(h)  BY <1>10, <2>3, <3>1, <3>2, PutsOnce
    <3> QED  BY <1>12, <2>1, <2>3, <3>1, <3>2, <3>3
  <2> QED  BY <2>2, <2>3
<1>16. ToSet(socket.rx) \subseteq ToSet(client[c].rx)  BY <1>1, <1>8, <1>9
<1>17. SocketTwice(c)'  BY <1>3, <1>15, <1>16, StillOnce
<1>18. {} \subseteq OrderIds  OBVIOUS
<1> QED  BY <1>3, <1>17, <1>18, OneSocketTwice

LEMMA EventsTwice ==
  ASSUME FeedInv, TwiceInv, Events
  PROVE  TwiceInv'
<1>1. TableInv  BY DEF FeedInv
<1>2. CASE InitMarket \/ Settle
  <2>1. UNCHANGED <<live_orders, outbox, server, sockets>>  BY <1>2 DEF InitMarket, Settle
  <2> QED  BY <2>1, MarketTwice
<1>3. CASE PlaceOrder  BY <1>3, PlaceStores, StoreTwice
<1>4. ASSUME NEW maker \in Listed(live_orders), NEW quantity \in 1..MaxFill, NEW taker,
             Match(maker, taker, quantity)
      PROVE  TwiceInv'
  <2>1. maker \in OrderIds  BY <1>1, RowsAre DEF Listed
  <2>2. MaxFill \in Nat  BY <2>1, MaxFillIs
  <2>3. quantity \in Nat  BY <2>2
  <2> QED  BY <1>4, <2>3, MatchStores, StoreTwice
<1>5. ASSUME NEW id \in Listed(live_orders), Cancel(id)
      PROVE  TwiceInv'
  BY <1>5, CancelStores, StoreTwice
<1> QED  BY <1>2, <1>3, <1>4, <1>5 DEF Events

LEMMA TasksTwice ==
  ASSUME FeedInv, TwiceInv, Tasks
  PROVE  TwiceInv'
<1>1. CASE Publish  BY <1>1, PublishTwice
<1>2. CASE Bootstrap  BY <1>2, BootstrapTwice
<1>3. CASE Subscribe  BY <1>3, SubscribeTwice
<1>4. CASE Receive  BY <1>4, ReceiveTwice
<1>5. CASE Send  BY <1>5, SendTwice
<1>6. ASSUME NEW c \in Clients, Socket(c)
      PROVE  TwiceInv'
  <2>1. CASE Lookup(c)  BY <2>1, LookupTwice
  <2>2. CASE Create(c)  BY <2>2, CreateTwice
  <2>3. CASE Deliver(c)  BY <2>3, DeliverTwice
  <2>4. CASE DeliverLagged(c)  BY <2>4, DeliverLaggedTwice
  <2>5. CASE EndOrphan(c)  BY <2>5, GoneTwice DEF EndOrphan
  <2> QED  BY <1>6, <2>1, <2>2, <2>3, <2>4, <2>5 DEF Socket
<1> QED  BY <1>1, <1>2, <1>3, <1>4, <1>5, <1>6 DEF Tasks, Backend

LEMMA TwiceStep == FeedInv /\ TwiceInv /\ [Next]_vars => TwiceInv'
<1> SUFFICES ASSUME FeedInv, TwiceInv, [Next]_vars PROVE TwiceInv'
  OBVIOUS
<1>1. CASE Events  BY <1>1, EventsTwice
<1>2. CASE Tasks  BY <1>2, TasksTwice
<1>3. ASSUME NEW c \in Clients, Open(c)
      PROVE  TwiceInv'
  BY <1>3, OpenTwice
<1>4. ASSUME NEW c \in Clients, Leave(c)
      PROVE  TwiceInv'
  BY <1>4, GoneTwice DEF Leave
<1>5. CASE Unpublished  BY <1>5, UnpublishedTwice
<1>6. CASE Disconnect  BY <1>6, DisconnectTwice
<1>7. CASE Restart  BY <1>7, RestartTwice
<1>8. CASE UNCHANGED vars  BY <1>8, MarketTwice DEF vars, chain
<1> QED  BY <1>1, <1>2, <1>3, <1>4, <1>5, <1>6, <1>7, <1>8 DEF Next

\* How often the books have an order, at any time.
THEOREM TwiceCorrect == Spec => []TwiceInv
<1>1. Init => FeedInv /\ TwiceInv  BY FeedInit, TwiceInit
<1>2. FeedInv /\ TwiceInv /\ [Next]_vars => (FeedInv /\ TwiceInv)'  BY FeedStep, TwiceStep
<1> QED  BY <1>1, <1>2, PTL DEF Spec

-----------------------------------------------------------------------------
(* What the two invariants say *)

\* Whatever comes, the types are right, no queue outgrows its bound and the books
\* stay sorted.
THEOREM FeedTypeCorrect == Spec => []FeedTypeOK
<1>1. FeedInv /\ TwiceInv => FeedTypeOK
  <2> SUFFICES ASSUME FeedInv, TwiceInv PROVE FeedTypeOK
    OBVIOUS
  <2> QED  BY FeedTypes DEF TwiceInv, TwiceTypes
<1> QED  BY <1>1, FeedCorrect, TwiceCorrect, PTL

\* The backend's book and what is on its way to it say of every order what the
\* table says, but for those of which a diff was missed; and they say it once, but
\* for these and for an order that was in the snapshot and is put in after it.
THEOREM MemoryCorrect == Spec => []MemoryConverges
<1>1. FeedInv /\ TwiceInv => MemoryConverges  BY FeedMemoryConverges
<1> QED  BY <1>1, FeedCorrect, TwiceCorrect, PTL

\* What a socket has and still gets is the backend's book, but for the diffs between
\* its snapshot and its subscription, also when it lagged; and it has every order as
\* often, but for those whose placing it gets after a book that had them.
THEOREM ClientCorrect == Spec => []ClientConverges
<1>1. FeedInv /\ TwiceInv => ClientConverges  BY FeedClientsConverge
<1> QED  BY <1>1, FeedCorrect, TwiceCorrect, PTL
=============================================================================
