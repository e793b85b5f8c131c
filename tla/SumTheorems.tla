----------------------------- MODULE SumTheorems -----------------------------
(***************************************************************************)
(* Folds, for the proofs about balances and about sequences that are gone  *)
(* through: what SumFunctionOnSet of the module Functions does when one    *)
(* element is split off, added or changed, and that FoldLeft of            *)
(* SequencesExt goes through its sequence index by index.  The folds are   *)
(* recursive functions; what holds of them for every finite set is proved  *)
(* from a smallest counterexample, which exists because the subsets of a   *)
(* finite set are well-founded.                                            *)
(***************************************************************************)
EXTENDS FiniteSetsExt, FiniteSetTheorems, TLAPS

\* A family of subsets of a finite set has a smallest member.
LEMMA SmallestSubset ==
  ASSUME NEW S, IsFiniteSet(S), NEW B, B \subseteq SUBSET S, B # {}
  PROVE  \E T \in B : IsFiniteSet(T) /\ \A R \in B : ~(R \subseteq T /\ R # T)
<1>1. IsWellFoundedOn(StrictSubsetOrdering(S), FiniteSubsetsOf(S))
  BY FS_StrictSubsetOrderingWellFounded
<1>2. B \subseteq FiniteSubsetsOf(S)
  BY FS_FiniteSubsetsOfFinite
<1>3. \E T \in B : \A R \in B : ~(<<R, T>> \in StrictSubsetOrdering(S))
  BY <1>1, <1>2, WFMin
<1> QED  BY <1>2, <1>3, Zenon DEF StrictSubsetOrdering, FiniteSubsetsOf

-----------------------------------------------------------------------------
(* The recursion *)

\* The element the fold takes next.
Pick(T) == CHOOSE x \in T : TRUE

\* g adds up f over every subset of S.
Adds(g, f, S) ==
  g = [T \in SUBSET S |-> IF T = {} THEN 0 ELSE f[Pick(T)] + g[T \ {Pick(T)}]]

LEMMA SumIs ==
  ASSUME NEW f, NEW S
  PROVE  SumFunctionOnSet(f, S) = (CHOOSE g : Adds(g, f, S))[S]
BY DEF SumFunctionOnSet, FoldFunctionOnSet, MapThenFoldSet, Adds, Pick

\* Two functions that add up f agree wherever both are defined.
LEMMA AddsUnique ==
  ASSUME NEW f, NEW S, IsFiniteSet(S), NEW R \in SUBSET S,
         NEW g, Adds(g, f, S), NEW h, Adds(h, f, R)
  PROVE  g[R] = h[R]
<1> DEFINE B == {T \in SUBSET R : g[T] # h[T]}
<1> SUFFICES ASSUME B # {} PROVE FALSE
  OBVIOUS
<1>1. PICK T \in B : \A U \in B : ~(U \subseteq T /\ U # T)
  <2>1. B \subseteq SUBSET S  OBVIOUS
  <2> HIDE DEF B
  <2> QED  BY <2>1, SmallestSubset
<1>2. T # {}  BY <1>1 DEF Adds
<1>3. Pick(T) \in T  BY <1>2 DEF Pick
<1>4. T \ {Pick(T)} \in SUBSET R /\ T \ {Pick(T)} # T  BY <1>1, <1>3
<1>5. g[T \ {Pick(T)}] = h[T \ {Pick(T)}]  BY <1>1, <1>4
<1>6. g[T] = f[Pick(T)] + g[T \ {Pick(T)}]  BY <1>1, <1>2 DEF Adds
<1>7. h[T] = f[Pick(T)] + h[T \ {Pick(T)}]  BY <1>1, <1>2 DEF Adds
<1> QED  BY <1>1, <1>5, <1>6, <1>7

\* There is one: at each subset, follow the one of the subset below it.
LEMMA AddsExists ==
  ASSUME NEW f, NEW S, IsFiniteSet(S)
  PROVE  \E g : Adds(g, f, S)
<1> DEFINE B == {T \in SUBSET S : ~ \E g : Adds(g, f, T)}
<1> SUFFICES ASSUME B # {} PROVE FALSE
  OBVIOUS
<1>1. PICK T \in B : IsFiniteSet(T) /\ \A U \in B : ~(U \subseteq T /\ U # T)
  <2>1. B \subseteq SUBSET S  OBVIOUS
  <2> HIDE DEF B
  <2> QED  BY <2>1, SmallestSubset
<1> DEFINE Below(R) == CHOOSE g : Adds(g, f, R)
           all == [R \in SUBSET T |-> IF R = {} THEN 0
                     ELSE f[Pick(R)] + Below(R \ {Pick(R)})[R \ {Pick(R)}]]
<1>2. \A R \in SUBSET T : R # {} => Pick(R) \in R  BY DEF Pick
<1>3. \A R \in SUBSET T : R # T => Adds(Below(R), f, R)  BY <1>1
<1>4. ASSUME NEW R \in SUBSET T, R # {}
      PROVE  all[R \ {Pick(R)}] = Below(R \ {Pick(R)})[R \ {Pick(R)}]
  <2> DEFINE Q == R \ {Pick(R)}
  <2>1. Q \in SUBSET T /\ Q # T  BY <1>2, <1>4
  <2>2. Adds(Below(Q), f, Q)  BY <1>3, <2>1
  <2>3. CASE Q = {}
    <3>1. Below(Q)[Q] = 0  BY <2>2, <2>3 DEF Adds
    <3>2. all[Q] = 0  BY <2>1, <2>3
    <3> QED  BY <3>1, <3>2
  <2>4. CASE Q # {}
    <3> DEFINE P == Q \ {Pick(Q)}
    <3>1. P \in SUBSET Q /\ P \in SUBSET T /\ P # T  BY <2>1
    <3>2. Adds(Below(P), f, P)  BY <1>3, <3>1
    <3>3. IsFiniteSet(Q)  BY <1>1, <2>1, FS_Subset
    <3>4. Below(Q)[P] = Below(P)[P]
      <4> HIDE DEF P, Q, Below
      <4> QED  BY <2>2, <3>1, <3>2, <3>3, AddsUnique
    <3>5. Below(Q)[Q] = f[Pick(Q)] + Below(Q)[P]
      <4> HIDE DEF Below
      <4> QED  BY <2>2, <2>4 DEF Adds
    <3>6. all[Q] = f[Pick(Q)] + Below(P)[P]
      <4> HIDE DEF Below
      <4> QED  BY <2>1, <2>4
    <3> QED  BY <3>4, <3>5, <3>6
  <2> QED  BY <2>3, <2>4
<1>5. Adds(all, f, T)
  <2> HIDE DEF Below
  <2> QED  BY <1>4 DEF Adds
<1> QED  BY <1>1, <1>5

LEMMA SumAdds ==
  ASSUME NEW f, NEW S, IsFiniteSet(S), NEW R \in SUBSET S, NEW g, Adds(g, f, S)
  PROVE  SumFunctionOnSet(f, R) = g[R]
<1>1. IsFiniteSet(R)  BY FS_Subset
<1>2. \E h : Adds(h, f, R)  BY <1>1, AddsExists
<1>3. PICK h : h = (CHOOSE k : Adds(k, f, R))  OBVIOUS
<1>4. Adds(h, f, R)  BY <1>2, <1>3
<1>5. g[R] = h[R]  BY <1>4, AddsUnique
<1> QED  BY <1>3, <1>5, SumIs

\* The two equations of the fold.
LEMMA SumOfNone ==
  ASSUME NEW f
  PROVE  SumFunctionOnSet(f, {}) = 0
<1>1. IsFiniteSet({})  BY FS_EmptySet
<1>2. PICK g : Adds(g, f, {})  BY <1>1, AddsExists
<1>3. SumFunctionOnSet(f, {}) = g[{}]  BY <1>1, <1>2, SumAdds
<1>4. {} \in SUBSET {}  OBVIOUS
<1> QED  BY <1>2, <1>3, <1>4 DEF Adds

LEMMA SumPicks ==
  ASSUME NEW f, NEW S, IsFiniteSet(S), S # {}
  PROVE  /\ Pick(S) \in S
         /\ SumFunctionOnSet(f, S) = f[Pick(S)] + SumFunctionOnSet(f, S \ {Pick(S)})
<1>1. Pick(S) \in S  BY DEF Pick
<1>2. PICK g : Adds(g, f, S)  BY AddsExists
<1>3. S \ {Pick(S)} \in SUBSET S /\ S \in SUBSET S  OBVIOUS
<1>4. /\ SumFunctionOnSet(f, S) = g[S]
      /\ SumFunctionOnSet(f, S \ {Pick(S)}) = g[S \ {Pick(S)}]
  BY <1>2, <1>3, SumAdds
<1>5. g[S] = f[Pick(S)] + g[S \ {Pick(S)}]  BY <1>2 DEF Adds
<1> QED  BY <1>1, <1>4, <1>5

-----------------------------------------------------------------------------
(* What the other proofs use *)

LEMMA SumTyped ==
  ASSUME NEW f, NEW S, IsFiniteSet(S), \A x \in S : f[x] \in Int
  PROVE  SumFunctionOnSet(f, S) \in Int
<1> DEFINE B == {T \in SUBSET S : SumFunctionOnSet(f, T) \notin Int}
<1> SUFFICES ASSUME B # {} PROVE FALSE
  OBVIOUS
<1>1. PICK T \in B : IsFiniteSet(T) /\ \A U \in B : ~(U \subseteq T /\ U # T)
  <2>1. B \subseteq SUBSET S  OBVIOUS
  <2> HIDE DEF B
  <2> QED  BY <2>1, SmallestSubset
<1>2. ASSUME T = {} PROVE FALSE
  <2>1. SumFunctionOnSet(f, T) = 0  BY <1>2, SumOfNone, Zenon
  <2> QED  BY <1>1, <2>1
<1>3. /\ Pick(T) \in T
      /\ SumFunctionOnSet(f, T) = f[Pick(T)] + SumFunctionOnSet(f, T \ {Pick(T)})
  BY <1>1, <1>2, SumPicks
<1>4. SumFunctionOnSet(f, T \ {Pick(T)}) \in Int  BY <1>1, <1>3
<1> QED  BY <1>1, <1>3, <1>4

\* Any element can be split off, not only the one the fold picks.
LEMMA SumSplit ==
  ASSUME NEW f, NEW S, IsFiniteSet(S), NEW x \in S, \A y \in S : f[y] \in Int
  PROVE  /\ SumFunctionOnSet(f, S) = f[x] + SumFunctionOnSet(f, S \ {x})
         /\ SumFunctionOnSet(f, S \ {x}) \in Int
<1>1. ASSUME NEW T \in SUBSET S PROVE SumFunctionOnSet(f, T) \in Int
  <2>1. IsFiniteSet(T)  BY FS_Subset
  <2> QED  BY <2>1, SumTyped
<1> DEFINE B == {T \in SUBSET S : \E z \in T :
                   SumFunctionOnSet(f, T) # f[z] + SumFunctionOnSet(f, T \ {z})}
<1>2. ASSUME B # {} PROVE FALSE
  <2>1. PICK T \in B : IsFiniteSet(T) /\ \A U \in B : ~(U \subseteq T /\ U # T)
    <3>1. B \subseteq SUBSET S  OBVIOUS
    <3> HIDE DEF B
    <3> QED  BY <1>2, <3>1, SmallestSubset
  <2>2. PICK z \in T : SumFunctionOnSet(f, T) # f[z] + SumFunctionOnSet(f, T \ {z})
    BY <2>1
  <2> DEFINE p == Pick(T)
  <2>3. p \in T /\ SumFunctionOnSet(f, T) = f[p] + SumFunctionOnSet(f, T \ {p})
    BY <2>1, <2>2, SumPicks
  <2> HIDE DEF p
  <2>4. p # z  BY <2>2, <2>3
  <2>5. /\ SumFunctionOnSet(f, T \ {p}) = f[z] + SumFunctionOnSet(f, (T \ {p}) \ {z})
        /\ SumFunctionOnSet(f, T \ {z}) = f[p] + SumFunctionOnSet(f, (T \ {z}) \ {p})
    BY <2>1, <2>2, <2>3, <2>4
  <2>6. (T \ {p}) \ {z} = (T \ {z}) \ {p}  OBVIOUS
  <2> DEFINE rest == SumFunctionOnSet(f, (T \ {z}) \ {p})
  <2>7. /\ SumFunctionOnSet(f, T) = f[p] + (f[z] + rest)
        /\ SumFunctionOnSet(f, T \ {z}) = f[p] + rest
    BY <2>3, <2>5, <2>6
  <2>8. rest \in Int /\ f[p] \in Int /\ f[z] \in Int
    BY <1>1, <2>1, <2>2, <2>3
  <2> HIDE DEF rest
  <2> QED  BY <2>2, <2>7, <2>8
<1>3. SumFunctionOnSet(f, S) = f[x] + SumFunctionOnSet(f, S \ {x})  BY <1>2
<1> QED  BY <1>1, <1>3

LEMMA SumGrows ==
  ASSUME NEW f, NEW h, NEW S, IsFiniteSet(S),
         \A x \in S : f[x] \in Int /\ h[x] \in Int /\ f[x] <= h[x]
  PROVE  SumFunctionOnSet(f, S) <= SumFunctionOnSet(h, S)
<1> DEFINE B == {T \in SUBSET S : ~ (SumFunctionOnSet(f, T) <= SumFunctionOnSet(h, T))}
<1> SUFFICES ASSUME B # {} PROVE FALSE
  OBVIOUS
<1>1. PICK T \in B : IsFiniteSet(T) /\ \A U \in B : ~(U \subseteq T /\ U # T)
  <2>1. B \subseteq SUBSET S  OBVIOUS
  <2> HIDE DEF B
  <2> QED  BY <2>1, SmallestSubset
<1>2. ASSUME T = {} PROVE FALSE
  <2>1. SumFunctionOnSet(f, T) = 0 /\ SumFunctionOnSet(h, T) = 0
    BY <1>2, SumOfNone, Zenon
  <2> QED  BY <1>1, <2>1
<1>3. PICK x \in T : TRUE  BY <1>2
<1>4. /\ SumFunctionOnSet(f, T) = f[x] + SumFunctionOnSet(f, T \ {x})
      /\ SumFunctionOnSet(h, T) = h[x] + SumFunctionOnSet(h, T \ {x})
      /\ SumFunctionOnSet(f, T \ {x}) \in Int
      /\ SumFunctionOnSet(h, T \ {x}) \in Int
  BY <1>1, SumSplit
<1>5. SumFunctionOnSet(f, T \ {x}) <= SumFunctionOnSet(h, T \ {x})  BY <1>1
<1>6. f[x] \in Int /\ h[x] \in Int /\ f[x] <= h[x]  BY <1>1
<1> QED  BY <1>1, <1>4, <1>5, <1>6

LEMMA SumAgrees ==
  ASSUME NEW f, NEW h, NEW S, IsFiniteSet(S), \A x \in S : f[x] \in Int /\ f[x] = h[x]
  PROVE  SumFunctionOnSet(f, S) = SumFunctionOnSet(h, S)
<1>1. /\ SumFunctionOnSet(f, S) <= SumFunctionOnSet(h, S)
      /\ SumFunctionOnSet(h, S) <= SumFunctionOnSet(f, S)
  BY SumGrows
<1>2. SumFunctionOnSet(f, S) \in Int /\ SumFunctionOnSet(h, S) \in Int  BY SumTyped
<1> QED  BY <1>1, <1>2

LEMMA SumOfZeros ==
  ASSUME NEW f, NEW S, IsFiniteSet(S), \A x \in S : f[x] = 0
  PROVE  SumFunctionOnSet(f, S) = 0
<1> DEFINE B == {T \in SUBSET S : SumFunctionOnSet(f, T) # 0}
<1> SUFFICES ASSUME B # {} PROVE FALSE
  OBVIOUS
<1>1. PICK T \in B : IsFiniteSet(T) /\ \A U \in B : ~(U \subseteq T /\ U # T)
  <2>1. B \subseteq SUBSET S  OBVIOUS
  <2> HIDE DEF B
  <2> QED  BY <2>1, SmallestSubset
<1>2. ASSUME T = {} PROVE FALSE
  <2>1. SumFunctionOnSet(f, T) = 0  BY <1>2, SumOfNone, Zenon
  <2> QED  BY <1>1, <2>1
<1>3. /\ Pick(T) \in T
      /\ SumFunctionOnSet(f, T) = f[Pick(T)] + SumFunctionOnSet(f, T \ {Pick(T)})
  BY <1>1, <1>2, SumPicks
<1>4. SumFunctionOnSet(f, T \ {Pick(T)}) = 0 /\ f[Pick(T)] = 0  BY <1>1, <1>3
<1> QED  BY <1>1, <1>3, <1>4

\* A sum of natural numbers covers each of them.
LEMMA SumCovers ==
  ASSUME NEW f, NEW S, IsFiniteSet(S), \A x \in S : f[x] \in Nat
  PROVE  /\ SumFunctionOnSet(f, S) \in Nat
         /\ \A x \in S : f[x] <= SumFunctionOnSet(f, S)
<1>1. ASSUME NEW T \in SUBSET S PROVE SumFunctionOnSet(f, T) \in Nat
  <2> DEFINE none == [x \in S |-> 0]
  <2>1. IsFiniteSet(T)  BY FS_Subset
  <2>2. \A x \in T : none[x] \in Int /\ f[x] \in Int /\ none[x] <= f[x] /\ none[x] = 0
    OBVIOUS
  <2> HIDE DEF none
  <2>3. SumFunctionOnSet(none, T) = 0  BY <2>1, <2>2, SumOfZeros
  <2>4. SumFunctionOnSet(none, T) <= SumFunctionOnSet(f, T)  BY <2>1, <2>2, SumGrows
  <2>5. SumFunctionOnSet(f, T) \in Int  BY <2>1, <2>2, SumTyped
  <2> QED  BY <2>3, <2>4, <2>5
<1>2. ASSUME NEW x \in S PROVE f[x] <= SumFunctionOnSet(f, S)
  <2>1. SumFunctionOnSet(f, S) = f[x] + SumFunctionOnSet(f, S \ {x})  BY SumSplit
  <2>2. SumFunctionOnSet(f, S \ {x}) \in Nat /\ f[x] \in Nat  BY <1>1
  <2> QED  BY <2>1, <2>2
<1>3. S \in SUBSET S  OBVIOUS
<1> QED  BY <1>1, <1>2, <1>3

\* One more element, and another value at one element.
LEMMA SumAddsElement ==
  ASSUME NEW f, NEW S, IsFiniteSet(S), NEW x, x \notin S,
         \A y \in S \cup {x} : f[y] \in Int
  PROVE  SumFunctionOnSet(f, S \cup {x}) = f[x] + SumFunctionOnSet(f, S)
<1>1. IsFiniteSet(S \cup {x})  BY FS_AddElement
<1>2. (S \cup {x}) \ {x} = S /\ x \in S \cup {x}  OBVIOUS
<1> QED  BY <1>1, <1>2, SumSplit

LEMMA SumChanges ==
  ASSUME NEW f, NEW h, NEW S, IsFiniteSet(S), NEW x \in S,
         \A y \in S : f[y] \in Int /\ h[y] \in Int,
         \A y \in S : y # x => h[y] = f[y]
  PROVE  SumFunctionOnSet(h, S) = SumFunctionOnSet(f, S) - f[x] + h[x]
<1>1. /\ SumFunctionOnSet(f, S) = f[x] + SumFunctionOnSet(f, S \ {x})
      /\ SumFunctionOnSet(h, S) = h[x] + SumFunctionOnSet(h, S \ {x})
      /\ SumFunctionOnSet(f, S \ {x}) \in Int
  BY SumSplit
<1>2. IsFiniteSet(S \ {x})  BY FS_Subset, S \ {x} \subseteq S
<1>3. SumFunctionOnSet(f, S \ {x}) = SumFunctionOnSet(h, S \ {x})
  BY <1>2, SumAgrees
<1>4. f[x] \in Int /\ h[x] \in Int  OBVIOUS
<1> QED  BY <1>1, <1>3, <1>4

\* Adding up two functions at once.
LEMMA SumOfSums ==
  ASSUME NEW f, NEW h, NEW g, NEW S, IsFiniteSet(S),
         \A x \in S : f[x] \in Int /\ h[x] \in Int /\ g[x] = f[x] + h[x]
  PROVE  SumFunctionOnSet(g, S) = SumFunctionOnSet(f, S) + SumFunctionOnSet(h, S)
<1> DEFINE B == {T \in SUBSET S :
                   SumFunctionOnSet(g, T) # SumFunctionOnSet(f, T) + SumFunctionOnSet(h, T)}
<1> SUFFICES ASSUME B # {} PROVE FALSE
  OBVIOUS
<1>1. PICK T \in B : IsFiniteSet(T) /\ \A U \in B : ~(U \subseteq T /\ U # T)
  <2>1. B \subseteq SUBSET S  OBVIOUS
  <2> HIDE DEF B
  <2> QED  BY <2>1, SmallestSubset
<1>2. ASSUME T = {} PROVE FALSE
  <2>1. /\ SumFunctionOnSet(f, T) = 0 /\ SumFunctionOnSet(h, T) = 0
        /\ SumFunctionOnSet(g, T) = 0
    BY <1>2, SumOfNone, Zenon
  <2> QED  BY <1>1, <2>1
<1>3. PICK x \in T : TRUE  BY <1>2
<1>4. \A y \in T : f[y] \in Int /\ h[y] \in Int /\ g[y] \in Int  BY <1>1
<1>5. /\ SumFunctionOnSet(f, T) = f[x] + SumFunctionOnSet(f, T \ {x})
      /\ SumFunctionOnSet(h, T) = h[x] + SumFunctionOnSet(h, T \ {x})
      /\ SumFunctionOnSet(g, T) = g[x] + SumFunctionOnSet(g, T \ {x})
      /\ SumFunctionOnSet(f, T \ {x}) \in Int /\ SumFunctionOnSet(h, T \ {x}) \in Int
  BY <1>1, <1>4, SumSplit
<1>6. SumFunctionOnSet(g, T \ {x})
        = SumFunctionOnSet(f, T \ {x}) + SumFunctionOnSet(h, T \ {x})
  BY <1>1
<1>7. f[x] \in Int /\ h[x] \in Int /\ g[x] = f[x] + h[x]  BY <1>1
<1> QED  BY <1>1, <1>5, <1>6, <1>7

-----------------------------------------------------------------------------
(* Folds over the indices of a sequence *)

\* The index a fold takes last.
LEMMA LatestExists ==
  ASSUME NEW S, IsFiniteSet(S), S # {}
  PROVE  S \subseteq Nat => Max(S) \in S /\ \A y \in S : Max(S) >= y
<1>1. SUFFICES ASSUME S \subseteq Nat PROVE \E x \in S : \A y \in S : x >= y
  BY DEF Max
<1> DEFINE B == {T \in SUBSET S : T # {} /\ ~ \E x \in T : \A y \in T : x >= y}
<1>2. SUFFICES ASSUME B # {} PROVE FALSE
  OBVIOUS
<1>3. PICK T \in B : \A U \in B : ~(U \subseteq T /\ U # T)
  <2>1. B \subseteq SUBSET S  OBVIOUS
  <2> HIDE DEF B
  <2> QED  BY <1>2, <2>1, SmallestSubset
<1>4. PICK z \in T : TRUE  BY <1>3
<1> DEFINE U == T \ {z}
<1>5. U \in SUBSET S /\ U \subseteq T /\ U # T  BY <1>3, <1>4
<1>6. \A y \in T : y \in Nat  BY <1>1, <1>3
<1>7. CASE U = {}
  <2>1. \A y \in T : z >= y  BY <1>4, <1>6, <1>7
  <2> QED  BY <1>3, <1>4, <2>1
<1>8. CASE U # {}
  <2>1. U \notin B  BY <1>3, <1>5
  <2>2. PICK m \in U : \A y \in U : m >= y  BY <1>5, <1>8, <2>1
  <2>3. CASE m >= z
    <3>1. \A y \in T : m >= y  BY <2>2, <2>3
    <3> QED  BY <1>3, <2>2, <3>1
  <2>4. CASE ~(m >= z)
    <3>1. \A y \in T : z >= y  BY <1>4, <1>6, <2>2, <2>4
    <3> QED  BY <1>3, <1>4, <3>1
  <2> QED  BY <2>3, <2>4
<1> QED  BY <1>7, <1>8

\* The sets of indices that the fold of n elements goes through.
LEMMA LatestIndex ==
  ASSUME NEW n \in Nat, NEW T \in SUBSET (1..n), T # {}
  PROVE  Max(T) \in T /\ \A y \in T : Max(T) >= y
<1>1. n \in Int  OBVIOUS
<1>2. IsFiniteSet(1..n)  BY <1>1, FS_Interval
<1>3. IsFiniteSet(T)  BY <1>2, FS_Subset
<1>4. T \subseteq Nat  OBVIOUS
<1> QED  BY <1>3, <1>4, LatestExists

HasLatest(S) == IsFiniteSet(S) /\ \A T \in SUBSET S : T # {} => Max(T) \in T

LEMMA IndicesHaveLatest ==
  ASSUME NEW n \in Nat
  PROVE  HasLatest(1..n)
<1>1. n \in Int  OBVIOUS
<1>2. IsFiniteSet(1..n)  BY <1>1, FS_Interval
<1> QED  BY <1>2, LatestIndex DEF HasLatest

\* A set that has 0 and is closed under the next index has all of them.
LEMMA AllSteps ==
  ASSUME NEW n \in Nat, NEW A, 0 \in A, \A i \in 0..(n - 1) : i \in A => i + 1 \in A
  PROVE  \A i \in 0..n : i \in A
<1> DEFINE C == {i \in 0..n : \A j \in 0..i : j \in A}
<1>1. C \subseteq Nat /\ 0 \in C  OBVIOUS
<1>2. IsFiniteSet(C)
  <2>1. IsFiniteSet(0..n)  BY FS_Interval
  <2> QED  BY <2>1, FS_Subset
<1>3. PICK m \in C : \A y \in C : m >= y
  <2> HIDE DEF C
  <2> QED  BY <1>1, <1>2, LatestExists
<1>4. m = n
  <2> SUFFICES ASSUME m # n PROVE FALSE
    OBVIOUS
  <2>1. m \in 0..(n - 1) /\ m \in A /\ m + 1 \in 0..n  BY <1>3
  <2>2. m + 1 \in A  BY <2>1
  <2>3. \A j \in 0..(m + 1) : j \in 0..m \/ j = m + 1  BY <2>1
  <2>4. m + 1 \in C  BY <1>3, <2>1, <2>2, <2>3
  <2>5. m >= m + 1  BY <1>3, <2>4
  <2> QED  BY <2>1, <2>5
<1> QED  BY <1>3, <1>4

\* What a recursion over the sets of indices below n returns, which takes the
\* latest index with `after' last.
Recurs(g, base, after, S) ==
  g = [T \in SUBSET S |-> IF T = {} THEN base ELSE after[<<g[T \ {Max(T)}], Max(T)>>]]

LEMMA RecursUnique ==
  ASSUME NEW base, NEW after, NEW S, HasLatest(S), NEW R \in SUBSET S,
         NEW g, Recurs(g, base, after, S), NEW h, Recurs(h, base, after, R)
  PROVE  g[R] = h[R]
<1> DEFINE B == {T \in SUBSET R : g[T] # h[T]}
<1> SUFFICES ASSUME B # {} PROVE FALSE
  OBVIOUS
<1>1. PICK T \in B : \A U \in B : ~(U \subseteq T /\ U # T)
  <2>1. B \subseteq SUBSET S  OBVIOUS
  <2> HIDE DEF B
  <2> QED  BY <2>1, SmallestSubset DEF HasLatest
<1>2. T # {}  BY <1>1 DEF Recurs
<1>3. Max(T) \in T  BY <1>1, <1>2 DEF HasLatest
<1>4. T \ {Max(T)} \in SUBSET R /\ T \ {Max(T)} # T  BY <1>1, <1>3
<1>5. g[T \ {Max(T)}] = h[T \ {Max(T)}]  BY <1>1, <1>4
<1>6. g[T] = after[<<g[T \ {Max(T)}], Max(T)>>]  BY <1>1, <1>2 DEF Recurs
<1>7. h[T] = after[<<h[T \ {Max(T)}], Max(T)>>]  BY <1>1, <1>2 DEF Recurs
<1> QED  BY <1>1, <1>5, <1>6, <1>7

\* There is one: on each set, follow the one of the set below it.
LEMMA RecursExists ==
  ASSUME NEW base, NEW after, NEW S, HasLatest(S)
  PROVE  \E g : Recurs(g, base, after, S)
<1> DEFINE B == {T \in SUBSET S : ~ \E g : Recurs(g, base, after, T)}
<1> SUFFICES ASSUME B # {} PROVE FALSE
  OBVIOUS
<1>1. PICK T \in B : \A U \in B : ~(U \subseteq T /\ U # T)
  <2>1. B \subseteq SUBSET S  OBVIOUS
  <2> HIDE DEF B
  <2> QED  BY <2>1, SmallestSubset DEF HasLatest
<1> DEFINE Below(R) == CHOOSE g : Recurs(g, base, after, R)
           all == [R \in SUBSET T |->
                     IF R = {} THEN base
                     ELSE after[<<Below(R \ {Max(R)})[R \ {Max(R)}], Max(R)>>]]
<1>2. \A R \in SUBSET T : R # {} => Max(R) \in R
  BY <1>1 DEF HasLatest
<1>3. \A R \in SUBSET T : R # T => Recurs(Below(R), base, after, R)
  BY <1>1
<1>4. ASSUME NEW R \in SUBSET T, R # {}
      PROVE  all[R \ {Max(R)}] = Below(R \ {Max(R)})[R \ {Max(R)}]
  <2> DEFINE Q == R \ {Max(R)}
  <2>1. Q \in SUBSET T /\ Q # T  BY <1>2, <1>4
  <2>2. Recurs(Below(Q), base, after, Q)  BY <1>3, <2>1
  <2>3. CASE Q = {}
    <3>1. Below(Q)[Q] = base  BY <2>2, <2>3 DEF Recurs
    <3>2. all[Q] = base  BY <2>1, <2>3
    <3> QED  BY <3>1, <3>2
  <2>4. CASE Q # {}
    <3> DEFINE P == Q \ {Max(Q)}
    <3>1. P \in SUBSET Q /\ P \in SUBSET T /\ P # T  BY <2>1
    <3>2. Recurs(Below(P), base, after, P)  BY <1>3, <3>1
    <3>3. HasLatest(Q)  BY <1>1, <2>1, FS_Subset DEF HasLatest
    <3>4. Below(Q)[P] = Below(P)[P]
      <4> HIDE DEF P, Q, Below
      <4> QED  BY <2>2, <3>1, <3>2, <3>3, RecursUnique
    <3>5. Below(Q)[Q] = after[<<Below(Q)[P], Max(Q)>>]
      <4> HIDE DEF Below
      <4> QED  BY <2>2, <2>4 DEF Recurs
    <3>6. all[Q] = after[<<Below(P)[P], Max(Q)>>]
      <4> HIDE DEF Below
      <4> QED  BY <2>1, <2>4
    <3> QED  BY <3>4, <3>5, <3>6
  <2> QED  BY <2>3, <2>4
<1>5. Recurs(all, base, after, T)
  <2> HIDE DEF Below
  <2> QED  BY <1>4 DEF Recurs
<1> QED  BY <1>1, <1>5

\* What holds of nothing and goes on to the next index holds of all.
LEMMA RecursTyped ==
  ASSUME NEW n \in Nat, NEW D, NEW g, g[{}] \in D,
         \A T \in SUBSET (1..n) : T # {} /\ g[T \ {Max(T)}] \in D => g[T] \in D
  PROVE  \A T \in SUBSET (1..n) : g[T] \in D
<1> DEFINE S == 1..n
           B == {T \in SUBSET S : g[T] \notin D}
<1> SUFFICES ASSUME B # {} PROVE FALSE
  OBVIOUS
<1>1. HasLatest(S)  BY IndicesHaveLatest
<1>2. PICK T \in B : \A U \in B : ~(U \subseteq T /\ U # T)
  <2>1. B \subseteq SUBSET S /\ IsFiniteSet(S)  BY <1>1 DEF HasLatest
  <2> HIDE DEF B, S
  <2> QED  BY <2>1, SmallestSubset
<1>3. T # {}  BY <1>2
<1>4. Max(T) \in T  BY <1>1, <1>2, <1>3 DEF HasLatest
<1>5. T \in SUBSET S /\ g[T] \notin D  BY <1>2
<1>6. T \ {Max(T)} \in SUBSET S /\ T \ {Max(T)} # T
  <2> HIDE DEF S
  <2> QED  BY <1>4, <1>5
<1>7. g[T \ {Max(T)}] \in D
  <2> DEFINE U == T \ {Max(T)}
  <2>1. U \in SUBSET S /\ U \subseteq T /\ U # T  BY <1>6
  <2> HIDE DEF U
  <2>2. U \notin B  BY <1>2, <2>1
  <2>3. g[U] \in D  BY <2>1, <2>2
  <2> QED  BY <2>3 DEF U
<1> QED  BY <1>3, <1>5, <1>6, <1>7

\* All it goes through is in D when `after' stays in D.
LEMMA RecursIn ==
  ASSUME NEW n \in Nat, NEW D, NEW base \in D, NEW after \in [D \X (1..n) -> D],
         NEW g, Recurs(g, base, after, 1..n)
  PROVE  \A T \in SUBSET (1..n) : g[T] \in D
<1> DEFINE S == 1..n
<1>1. g[{}] \in D  BY DEF Recurs
<1>2. \A T \in SUBSET S : T # {} => Max(T) \in T  BY IndicesHaveLatest DEF HasLatest
<1>3. \A T \in SUBSET S : T # {} /\ g[T \ {Max(T)}] \in D => g[T] \in D
  BY <1>2 DEF Recurs
<1> QED  BY <1>1, <1>3, RecursTyped

\* Index by index: `steps' is what is there after the first so many.
FoldSteps(steps, D, base, after, n, last) ==
  /\ steps \in [0..n -> D] /\ steps[0] = base /\ steps[n] = last
  /\ \A i \in 1..n : steps[i] = after[<<steps[i - 1], i>>]

LEMMA RecursSteps ==
  ASSUME NEW n \in Nat, NEW D, NEW base \in D, NEW after \in [D \X (1..n) -> D],
         NEW g, Recurs(g, base, after, 1..n)
  PROVE  \E steps : FoldSteps(steps, D, base, after, n, g[1..n])
<1> DEFINE S == 1..n
<1>1. HasLatest(S)  BY IndicesHaveLatest
<1>2. \A T \in SUBSET S : g[T] \in D  BY RecursIn
<1> DEFINE steps == [i \in 0..n |-> g[1..i]]
<1>3. \A i \in 0..n : steps[i] = g[1..i] /\ 1..i \in SUBSET S  OBVIOUS
<1>4. steps \in [0..n -> D]  BY <1>2, <1>3
<1>5. steps[0] = base
  <2>1. 1..0 = {}  OBVIOUS
  <2>2. g[{}] = base  BY DEF Recurs
  <2> QED  BY <1>3, <2>1, <2>2
<1>6. ASSUME NEW i \in 1..n
      PROVE  steps[i] = after[<<steps[i - 1], i>>]
  <2> DEFINE T == 1..i
  <2>1. T \in SUBSET S /\ i \in T /\ T \in SUBSET (1..n) /\ T # {}  OBVIOUS
  <2>2. Max(T) = i
    <3>1. Max(T) \in T /\ Max(T) >= i
      <4> HIDE DEF T
      <4> QED  BY <2>1, LatestIndex
    <3> QED  BY <3>1
  <2>3. T \ {i} = 1..(i - 1) /\ i - 1 \in 0..n /\ i \in 0..n  OBVIOUS
  <2>4. g[T] = after[<<g[T \ {Max(T)}], Max(T)>>]  BY <2>1 DEF Recurs
  <2> QED  BY <1>3, <2>2, <2>3, <2>4
<1>7. n \in 0..n  OBVIOUS
<1> HIDE DEF steps
<1> QED  BY <1>2, <1>3, <1>4, <1>5, <1>6, <1>7 DEF FoldSteps

=============================================================================
