----------------------------- MODULE LedgerProofs -----------------------------
(***************************************************************************)
(* The money of the matching engine, for every value of its constants: the *)
(* vault and the escrows hold what the users own in them, and over a whole *)
(* instruction the users exchange collateral for tokens, at a price a      *)
(* limit order has agreed to.  Every lock covers what it was taken for: an *)
(* ask its tokens, a bid its collateral, the order in flight its own.  So  *)
(* no checked_sub of a fill, a release or a settlement ever fails.         *)
(***************************************************************************)
EXTENDS MatchingEngineProofs, SumTheorems

-----------------------------------------------------------------------------
(* Totals of the users' balances *)

Total(f) == SumFunctionOnSet(f, Users)

\* The users' balances of one token.
Column(t, k) == [v \in Users |-> t[<<v, k>>]]

\* Tables of token balances, and one with another, a larger or a smaller balance.
TokenTable == [Users \X Tokens -> Nat]
Of(t, v, k) == t[<<v, k>>]
Set(t, v, k, m) == [t EXCEPT ![<<v, k>>] = m]
Gain(t, v, k, n) == [t EXCEPT ![<<v, k>>] = @ + n]
Lose(t, v, k, n) == [t EXCEPT ![<<v, k>>] = @ - n]
Plus(f, v, n) == [f EXCEPT ![v] = @ + n]
Minus(f, v, n) == [f EXCEPT ![v] = @ - n]

LEMMA TotalNat ==
  ASSUME NEW f \in [Users -> Nat]
  PROVE  Total(f) \in Nat /\ \A v \in Users : f[v] <= Total(f)
BY SumCovers, ParametersAssumption DEF Total

LEMMA TotalChanges ==
  ASSUME NEW f \in [Users -> Nat], NEW v \in Users, NEW n \in Nat
  PROVE  Total([f EXCEPT ![v] = n]) = Total(f) - f[v] + n
<1> DEFINE h == [f EXCEPT ![v] = n]
<1>1. \A w \in Users : f[w] \in Int /\ h[w] \in Int  OBVIOUS
<1>2. (\A w \in Users : w # v => h[w] = f[w]) /\ h[v] = n  OBVIOUS
<1>3. IsFiniteSet(Users)  BY ParametersAssumption
<1> HIDE DEF h
<1>4. SumFunctionOnSet(h, Users) = SumFunctionOnSet(f, Users) - f[v] + h[v]
  BY <1>1, <1>2, <1>3, SumChanges
<1> QED  BY <1>2, <1>4 DEF Total, h

LEMMA ColumnTyped ==
  ASSUME NEW t \in TokenTable, NEW k \in Tokens
  PROVE  Column(t, k) \in [Users -> Nat]
BY DEF Column, TokenTable

LEMMA ColumnTotal ==
  ASSUME NEW t \in TokenTable, NEW k \in Tokens
  PROVE  Total(Column(t, k)) \in Nat
BY ColumnTyped, TotalNat

\* A balance of one token changes: so does its total, and no other.
LEMMA ColumnChanges ==
  ASSUME NEW t \in TokenTable, NEW v \in Users, NEW k \in Tokens,
         NEW m \in Nat, NEW j \in Tokens
  PROVE  /\ j = k => Total(Column(Set(t, v, k, m), j)) = Total(Column(t, j)) - Of(t, v, k) + m
         /\ j # k => Total(Column(Set(t, v, k, m), j)) = Total(Column(t, j))
<1> DEFINE s == [t EXCEPT ![<<v, k>>] = m]
<1>0. t \in [Users \X Tokens -> Nat]  BY DEF TokenTable
<1>1. CASE j = k
  <2>1. Column(s, j) = [Column(t, j) EXCEPT ![v] = m]  BY <1>0, <1>1 DEF Column
  <2>2. Column(t, j) \in [Users -> Nat] /\ Column(t, j)[v] = t[<<v, k>>]
    BY <1>0, <1>1 DEF Column
  <2>3. Total([Column(t, j) EXCEPT ![v] = m]) = Total(Column(t, j)) - t[<<v, k>>] + m
    BY <2>2, TotalChanges
  <2> QED  BY <1>1, <2>1, <2>3 DEF Set, Of
<1>2. CASE j # k
  <2>1. \A w \in Users : s[<<w, j>>] = t[<<w, j>>]  BY <1>0, <1>2
  <2> HIDE DEF s
  <2>2. Column(s, j) = Column(t, j)  BY <2>1 DEF Column
  <2> QED  BY <1>2, <2>2 DEF s, Set
<1> QED  BY <1>1, <1>2

\* What is added to or taken from one user is added to or taken from the total.
LEMMA TotalMoves ==
  ASSUME NEW f \in [Users -> Nat], NEW v \in Users, NEW n \in Nat
  PROVE  /\ Total(Plus(f, v, n)) = Total(f) + n
         /\ f[v] >= n => Total(Minus(f, v, n)) = Total(f) - n
<1>1. f[v] \in Nat /\ f[v] + n \in Nat /\ Total(f) \in Nat  BY TotalNat
<1>2. Total([f EXCEPT ![v] = f[v] + n]) = Total(f) - f[v] + (f[v] + n)
  BY <1>1, TotalChanges
<1>3. ASSUME f[v] >= n
      PROVE  Total([f EXCEPT ![v] = f[v] - n]) = Total(f) - f[v] + (f[v] - n)
  <2>1. f[v] - n \in Nat  BY <1>1, <1>3
  <2> QED  BY <2>1, TotalChanges
<1> QED  BY <1>1, <1>2, <1>3 DEF Plus, Minus

LEMMA ColumnGains ==
  ASSUME NEW t \in TokenTable, NEW v \in Users, NEW k \in Tokens, NEW n \in Nat
  PROVE  /\ Gain(t, v, k, n) \in TokenTable
         /\ \A j \in Tokens :
              /\ j = k => Total(Column(Gain(t, v, k, n), j)) = Total(Column(t, j)) + n
              /\ j # k => Total(Column(Gain(t, v, k, n), j)) = Total(Column(t, j))
<1> DEFINE m == t[<<v, k>>] + n
<1>1. t[<<v, k>>] \in Nat /\ t[<<v, k>>] = Of(t, v, k)  BY DEF TokenTable, Of
<1>2. m \in Nat /\ Gain(t, v, k, n) = Set(t, v, k, m)  BY <1>1 DEF Gain, Set
<1>3. Of(t, v, k) \in Nat /\ m = Of(t, v, k) + n  BY <1>1
<1> HIDE DEF m
<1>4. Gain(t, v, k, n) \in TokenTable  BY <1>2 DEF Set, TokenTable
<1>5. ASSUME NEW j \in Tokens
      PROVE  /\ j = k => Total(Column(Set(t, v, k, m), j)) = Total(Column(t, j)) + n
             /\ j # k => Total(Column(Set(t, v, k, m), j)) = Total(Column(t, j))
  BY <1>2, <1>3, ColumnChanges, ColumnTotal
<1> QED  BY <1>2, <1>4, <1>5

LEMMA ColumnLoses ==
  ASSUME NEW t \in TokenTable, NEW v \in Users, NEW k \in Tokens, NEW n \in Nat,
         Of(t, v, k) >= n
  PROVE  /\ Lose(t, v, k, n) \in TokenTable
         /\ \A j \in Tokens :
              /\ j = k => Total(Column(Lose(t, v, k, n), j)) = Total(Column(t, j)) - n
              /\ j # k => Total(Column(Lose(t, v, k, n), j)) = Total(Column(t, j))
<1> DEFINE m == t[<<v, k>>] - n
<1>1. t[<<v, k>>] \in Nat /\ t[<<v, k>>] = Of(t, v, k)  BY DEF TokenTable, Of
<1>2. m \in Nat /\ Lose(t, v, k, n) = Set(t, v, k, m)  BY <1>1 DEF Lose, Set
<1>3. Of(t, v, k) \in Nat /\ m = Of(t, v, k) - n  BY <1>1
<1> HIDE DEF m
<1>4. Lose(t, v, k, n) \in TokenTable  BY <1>2 DEF Set, TokenTable
<1>5. ASSUME NEW j \in Tokens
      PROVE  /\ j = k => Total(Column(Set(t, v, k, m), j)) = Total(Column(t, j)) - n
             /\ j # k => Total(Column(Set(t, v, k, m), j)) = Total(Column(t, j))
  BY <1>2, <1>3, ColumnChanges, ColumnTotal
<1> QED  BY <1>2, <1>4, <1>5

\* A table with one balance changed, balance by balance.
LEMMA OfMoves ==
  ASSUME NEW t \in TokenTable, NEW v \in Users, NEW k \in Tokens, NEW n \in Nat,
         NEW w \in Users, NEW j \in Tokens
  PROVE  /\ Of(t, w, j) \in Nat
         /\ w = v /\ j = k => /\ Of(Gain(t, v, k, n), w, j) = Of(t, w, j) + n
                             /\ Of(Lose(t, v, k, n), w, j) = Of(t, w, j) - n
         /\ ~(w = v /\ j = k) => /\ Of(Gain(t, v, k, n), w, j) = Of(t, w, j)
                                /\ Of(Lose(t, v, k, n), w, j) = Of(t, w, j)
<1>0. t \in [Users \X Tokens -> Nat]  BY DEF TokenTable
<1>1. <<w, j>> \in Users \X Tokens /\ <<v, k>> \in Users \X Tokens  OBVIOUS
<1>2. Of(t, w, j) \in Nat  BY <1>0, <1>1 DEF Of
<1>3. CASE w = v /\ j = k  BY <1>0, <1>1, <1>2, <1>3 DEF Of, Gain, Lose
<1>4. CASE ~(w = v /\ j = k)
  <2>1. <<w, j>> # <<v, k>>  BY <1>4
  <2> QED  BY <1>0, <1>1, <1>2, <1>4, <2>1 DEF Of, Gain, Lose
<1> QED  BY <1>3, <1>4

LEMMA PlusAt ==
  ASSUME NEW f \in [Users -> Nat], NEW v \in Users, NEW n \in Nat, NEW w \in Users
  PROVE  /\ f[w] \in Nat
         /\ w = v => Plus(f, v, n)[w] = f[w] + n
         /\ w # v => Plus(f, v, n)[w] = f[w]
BY DEF Plus

LEMMA MinusAt ==
  ASSUME NEW f \in [Users -> Nat], NEW v \in Users, NEW n \in Nat, NEW w \in Users
  PROVE  /\ f[w] \in Nat
         /\ w = v => Minus(f, v, n)[w] = f[w] - n
         /\ w # v => Minus(f, v, n)[w] = f[w]
BY DEF Minus

-----------------------------------------------------------------------------
(* The vault and the escrows *)

\* What a market order in flight has traded and not yet settled.
Spent == IF MarketInFlight /\ taker.side = "Buy" THEN taker.quantity - remaining_amount
                                                 ELSE 0
Earned == IF MarketInFlight /\ taker.side = "Sell" THEN fullfilled_qty ELSE 0
Sold(k) == IF MarketInFlight /\ token = k /\ taker.side = "Sell"
           THEN taker.quantity - remaining_amount ELSE 0
Bought(k) == IF MarketInFlight /\ token = k /\ taker.side = "Buy"
             THEN fullfilled_qty ELSE 0

\* A balance sheet: what is held, less what is owed, is what is still due.
HoldsCollateral(held, locked, claimable, due) ==
  held = Total(locked) + Total(claimable) + due
HoldsTokens(held, locked, claimable, k, due) ==
  held[k] = Total(Column(locked, k)) + Total(Column(claimable, k)) + due

\* The last committed accounts balance, too: a rollback returns to them.
SolventInv ==
  /\ HoldsCollateral(vault, locked_collateral, claimable_collateral, Earned - Spent)
  /\ \A k \in Tokens : HoldsTokens(escrow, locked_token, claimable_token, k,
                                   Bought(k) - Sold(k))
  /\ HoldsCollateral(saved.vault, saved.locked_collateral, saved.claimable_collateral, 0)
  /\ \A k \in Tokens : HoldsTokens(saved.escrow, saved.locked_token,
                                   saved.claimable_token, k, 0)

LEMMA SolventIs ==
  ASSUME TypeOK
  PROVE  SolventInv => VaultBacksUsers /\ EscrowBacksUsers
<1> SUFFICES ASSUME SolventInv PROVE VaultBacksUsers /\ EscrowBacksUsers
  OBVIOUS
<1>1. Balances  BY AccountsTyped DEF TypeOK
<1>2. /\ taker.quantity \in Nat /\ remaining_amount \in Nat /\ fullfilled_qty \in Nat
      /\ vault \in Nat /\ escrow \in [Tokens -> Nat] /\ taker.side \in Sides
  BY <1>1, TakerTyped DEF TypeOK, Balances
<1>3. VaultBacksUsers
  <2> DEFINE both == [v \in Users |-> locked_collateral[v] + claimable_collateral[v]]
  <2>1. \A v \in Users : /\ locked_collateral[v] \in Int /\ claimable_collateral[v] \in Int
                         /\ both[v] = locked_collateral[v] + claimable_collateral[v]
    BY <1>1 DEF Balances, TokenTable
  <2>2. SumFunction(both) = SumFunctionOnSet(both, Users)  BY DEF SumFunction
  <2>3. IsFiniteSet(Users)  BY ParametersAssumption
  <2> HIDE DEF both
  <2>4. SumFunction(both) = Total(locked_collateral) + Total(claimable_collateral)
    BY <2>1, <2>2, <2>3, SumOfSums DEF Total
  <2>5. /\ Total(locked_collateral) \in Nat /\ Total(claimable_collateral) \in Nat
        /\ Spent \in Int /\ Earned \in Int
    BY <1>1, <1>2, TotalNat DEF Balances, Spent, Earned
  <2>6. vault + Spent = SumFunction(both) + Earned
    BY <1>2, <2>4, <2>5 DEF SolventInv, HoldsCollateral
  <2> QED  BY <2>6 DEF VaultBacksUsers, Spent, Earned, both
<1>4. EscrowBacksUsers
  <2> SUFFICES ASSUME NEW k \in Tokens
               PROVE  escrow[k] + Sold(k)
                        = SumFunction([v \in Users |-> locked_token[<<v, k>>]
                                                       + claimable_token[<<v, k>>]]) + Bought(k)
    BY DEF EscrowBacksUsers, Sold, Bought
  <2> DEFINE both == [v \in Users |-> locked_token[<<v, k>>] + claimable_token[<<v, k>>]]
             mine == Column(locked_token, k)
             free == Column(claimable_token, k)
  <2>0. mine \in [Users -> Nat] /\ free \in [Users -> Nat]
    BY <1>1, ColumnTyped DEF Balances, TokenTable
  <2>1. \A v \in Users : /\ mine[v] \in Int /\ free[v] \in Int
                         /\ both[v] = mine[v] + free[v]
    BY <1>1 DEF Balances, Column
  <2>2. SumFunction(both) = SumFunctionOnSet(both, Users)  BY DEF SumFunction
  <2>3. IsFiniteSet(Users)  BY ParametersAssumption
  <2> HIDE DEF both, mine, free
  <2>4. SumFunction(both) = Total(mine) + Total(free)
    BY <2>1, <2>2, <2>3, SumOfSums DEF Total
  <2>5. /\ Total(mine) \in Nat /\ Total(free) \in Nat
        /\ Sold(k) \in Int /\ Bought(k) \in Int /\ escrow[k] \in Nat
    BY <1>2, <2>0, TotalNat DEF Sold, Bought
  <2>6. escrow[k] = Total(mine) + Total(free) + (Bought(k) - Sold(k))
    BY DEF SolventInv, HoldsTokens, mine, free
  <2>7. escrow[k] + Sold(k) = SumFunction(both) + Bought(k)
    BY <2>4, <2>5, <2>6
  <2> QED  BY <2>7 DEF both
<1> QED  BY <1>3, <1>4

-----------------------------------------------------------------------------
(* Every step keeps the balance sheets balanced *)

CollateralHolds == HoldsCollateral(vault, locked_collateral, claimable_collateral,
                                   Earned - Spent)
TokensHold == \A k \in Tokens : HoldsTokens(escrow, locked_token, claimable_token, k,
                                            Bought(k) - Sold(k))
SavedHolds ==
  /\ HoldsCollateral(saved.vault, saved.locked_collateral, saved.claimable_collateral, 0)
  /\ \A k \in Tokens : HoldsTokens(saved.escrow, saved.locked_token,
                                   saved.claimable_token, k, 0)

LEMMA SolventParts == SolventInv <=> CollateralHolds /\ TokensHold /\ SavedHolds
BY DEF SolventInv, CollateralHolds, TokensHold, SavedHolds

LEMMA NothingDue ==
  ~MarketInFlight => /\ Earned - Spent = 0
                     /\ \A k : Bought(k) - Sold(k) = 0
BY DEF Earned, Spent, Bought, Sold

LEMMA NothingDueNext ==
  ~MarketInFlight' => /\ (Earned - Spent)' = 0
                      /\ \A k : Bought(k)' - Sold(k)' = 0
BY DEF Earned, Spent, Bought, Sold

LEMMA CommitSolvent ==
  ASSUME Commit, HoldsCollateral(vault', locked_collateral', claimable_collateral', 0),
         \A k \in Tokens : HoldsTokens(escrow', locked_token', claimable_token', k, 0)
  PROVE  SolventInv'
<1>1. ~MarketInFlight'  BY DEF Commit, Idle, MarketInFlight
<1>2. CollateralHolds' /\ TokensHold'
  BY <1>1, NothingDueNext DEF CollateralHolds, TokensHold, HoldsCollateral, HoldsTokens
<1>3. SavedHolds'
  BY DEF Commit, Accounts, SavedHolds, HoldsCollateral, HoldsTokens
<1> QED  BY <1>2, <1>3 DEF SolventInv, CollateralHolds, TokensHold, SavedHolds

LEMMA KeepsSolvent ==
  ASSUME UNCHANGED <<vault, escrow, stats, saved>>, SolventInv,
         (Earned - Spent)' = Earned - Spent,
         \A k \in Tokens : Bought(k)' - Sold(k)' = Bought(k) - Sold(k)
  PROVE  SolventInv'
BY DEF SolventInv, HoldsCollateral, HoldsTokens, stats

\* The totals of the state, as integers.
LEMMA TotalsTyped ==
  ASSUME Balances
  PROVE  /\ Total(locked_collateral) \in Nat /\ Total(claimable_collateral) \in Nat
         /\ \A k \in Tokens : /\ Total(Column(locked_token, k)) \in Nat
                              /\ Total(Column(claimable_token, k)) \in Nat
                              /\ escrow[k] \in Nat
         /\ vault \in Nat
BY ColumnTotal, TotalNat DEF Balances, TokenTable

LEMMA LockSolvent ==
  ASSUME Balances, NEW v \in Users, NEW side \in Sides, NEW k \in Tokens,
         NEW tokens \in Nat, NEW amount \in Nat, Lock(v, side, k, tokens, amount),
         UNCHANGED <<claimable_collateral, claimable_token, saved>>,
         SolventInv, ~MarketInFlight,
         (Earned - Spent)' = 0, \A j \in Tokens : Bought(j)' - Sold(j)' = 0
  PROVE  SolventInv'
<1>1. /\ vault = Total(locked_collateral) + Total(claimable_collateral)
      /\ \A j \in Tokens : escrow[j] = Total(Column(locked_token, j))
                                       + Total(Column(claimable_token, j))
  BY NothingDue, TotalsTyped DEF SolventInv, HoldsCollateral, HoldsTokens
<1>2. CASE LockCollateral(v, amount)
  <2>1. /\ vault' = vault + amount /\ locked_collateral' = Plus(locked_collateral, v, amount)
        /\ UNCHANGED <<escrow, locked_token>>
    BY <1>2 DEF LockCollateral, Plus
  <2>2. Total(locked_collateral') = Total(locked_collateral) + amount
    BY <2>1, TotalMoves DEF Balances, TokenTable
  <2>3. vault' = Total(locked_collateral') + Total(claimable_collateral') + 0
    BY <1>1, <2>1, <2>2, TotalsTyped
  <2>4. \A j \in Tokens : escrow'[j] = Total(Column(locked_token', j))
                                       + Total(Column(claimable_token', j)) + 0
    BY <1>1, <2>1, TotalsTyped
  <2> QED  BY <2>3, <2>4 DEF SolventInv, HoldsCollateral, HoldsTokens
<1>3. CASE LockTokens(v, k, tokens)
  <2>1. /\ escrow' = [escrow EXCEPT ![k] = escrow[k] + tokens]
        /\ locked_token' = Gain(locked_token, v, k, tokens)
        /\ UNCHANGED <<vault, locked_collateral>>
    BY <1>3 DEF LockTokens, Gain
  <2>0. locked_token \in TokenTable  BY DEF Balances, TokenTable
  <2>2. ASSUME NEW j \in Tokens
        PROVE  escrow'[j] = Total(Column(locked_token', j))
                            + Total(Column(claimable_token', j)) + 0
    <3>1. CASE j = k
      <4>1. Total(Column(Gain(locked_token, v, k, tokens), j))
              = Total(Column(locked_token, j)) + tokens
        BY <2>0, <3>1, ColumnGains
      <4>2. escrow'[j] = escrow[j] + tokens  BY <2>1, <3>1 DEF Balances, TokenTable
      <4> QED  BY <1>1, <2>1, <4>1, <4>2, TotalsTyped
    <3>2. CASE j # k
      <4>1. Total(Column(Gain(locked_token, v, k, tokens), j))
              = Total(Column(locked_token, j))
        BY <2>0, <3>2, ColumnGains
      <4>2. escrow'[j] = escrow[j]  BY <2>1, <3>2 DEF Balances, TokenTable
      <4> QED  BY <1>1, <2>1, <4>1, <4>2, TotalsTyped
    <3> QED  BY <3>1, <3>2
  <2>3. vault' = Total(locked_collateral') + Total(claimable_collateral') + 0
    BY <1>1, <2>1, TotalsTyped
  <2> QED  BY <2>2, <2>3 DEF SolventInv, HoldsCollateral, HoldsTokens
<1> QED  BY <1>2, <1>3 DEF Lock

LEMMA BeginSolvent == TypeOK /\ SolventInv /\ Begin => SolventInv'
<1> SUFFICES ASSUME TypeOK, SolventInv, Begin PROVE SolventInv'  OBVIOUS
<1>1. Balances  BY AccountsTyped DEF TypeOK
<1>2. PICK v \in Users, side \in Sides, k \in Tokens, n \in Iterations,
           accounts \in AccountLists :
        \/ \E quantity \in Quantities, price \in Prices :
             PlaceOrder(v, side, k, quantity, price, n, accounts)
        \/ \E amount \in Amounts : MarketOrder(v, side, k, amount, n, accounts)
  BY DEF Begin
<1>3. ASSUME NEW quantity \in Quantities, NEW price \in Prices,
             PlaceOrder(v, side, k, quantity, price, n, accounts)
      PROVE  SolventInv'
  <2>1. ~MarketInFlight /\ ~MarketInFlight'
    BY <1>3 DEF PlaceOrder, Open, MarketInFlight
  <2>2. quantity \in Nat /\ Cost(quantity, price) \in Nat
    BY CostNat, ParametersAssumption
  <2>3. /\ Lock(v, side, k, quantity, Cost(quantity, price))
        /\ UNCHANGED <<claimable_collateral, claimable_token, saved>>
    BY <1>3 DEF PlaceOrder
  <2> QED  BY <1>1, <2>1, <2>2, <2>3, LockSolvent, NothingDueNext
<1>4. ASSUME NEW amount \in Amounts, MarketOrder(v, side, k, amount, n, accounts)
      PROVE  SolventInv'
  <2>1. ~MarketInFlight  BY <1>4 DEF MarketOrder, Open, MarketInFlight
  <2>2. amount \in Nat  BY ParametersAssumption
  <2>3. /\ Lock(v, side, k, amount, amount)
        /\ UNCHANGED <<claimable_collateral, claimable_token, saved>>
    BY <1>4 DEF MarketOrder
  <2>4. taker'.quantity = amount /\ remaining_amount' = amount /\ fullfilled_qty' = 0
    BY <1>4 DEF MarketOrder
  <2>5. /\ Earned' = 0 /\ Spent' = 0
        /\ \A j \in Tokens : Bought(j)' = 0 /\ Sold(j)' = 0
    BY <2>2, <2>4 DEF Earned, Spent, Bought, Sold
  <2>6. (Earned - Spent)' = 0 /\ \A j \in Tokens : Bought(j)' - Sold(j)' = 0
    BY <2>5
  <2> QED  BY <1>1, <2>1, <2>2, <2>3, <2>6, LockSolvent
<1> QED  BY <1>2, <1>3, <1>4

LEMMA TokensPass ==
  ASSUME NEW l \in TokenTable, NEW c \in TokenTable,
         NEW v \in Users, NEW w \in Users, NEW k \in Tokens, NEW n \in Nat,
         Of(l, v, k) >= n, NEW j \in Tokens
  PROVE  Total(Column(Lose(l, v, k, n), j)) + Total(Column(Gain(c, w, k, n), j))
           = Total(Column(l, j)) + Total(Column(c, j))
<1>1. Total(Column(l, j)) \in Nat /\ Total(Column(c, j)) \in Nat
  BY ColumnTotal, TotalNat
<1>2. CASE j = k
  <2>1. Total(Column(Lose(l, v, k, n), j)) = Total(Column(l, j)) - n
    BY <1>2, ColumnLoses
  <2>2. Total(Column(Gain(c, w, k, n), j)) = Total(Column(c, j)) + n
    BY <1>2, ColumnGains
  <2> QED  BY <1>1, <2>1, <2>2
<1>3. CASE j # k
  <2>1. Total(Column(Lose(l, v, k, n), j)) = Total(Column(l, j))
    BY <1>3, ColumnLoses
  <2>2. Total(Column(Gain(c, w, k, n), j)) = Total(Column(c, j))
    BY <1>3, ColumnGains
  <2> QED  BY <2>1, <2>2
<1> QED  BY <1>2, <1>3

LEMMA CollateralPasses ==
  ASSUME NEW l \in [Users -> Nat], NEW c \in [Users -> Nat],
         NEW v \in Users, NEW w \in Users, NEW n \in Nat, l[v] >= n
  PROVE  Total(Minus(l, v, n)) + Total(Plus(c, w, n)) = Total(l) + Total(c)
<1>1. Total(l) \in Nat /\ Total(c) \in Nat  BY TotalNat
<1>2. Total(Minus(l, v, n)) = Total(l) - n  BY TotalMoves
<1>3. Total(Plus(c, w, n)) = Total(c) + n  BY TotalMoves
<1> QED  BY <1>1, <1>2, <1>3

LEMMA PlusTyped ==
  ASSUME NEW f \in [Users -> Nat], NEW v \in Users, NEW n \in Nat
  PROVE  Plus(f, v, n) \in [Users -> Nat]
<1>1. f[v] + n \in Nat  OBVIOUS
<1> QED  BY <1>1 DEF Plus

\* Nothing a limit order does after its lock moves the vault or an escrow.
LEMMA LimitMovesSolvent ==
  ASSUME Balances, SolventInv, ~MarketInFlight, UNCHANGED <<vault, escrow>>,
         Total(locked_collateral') + Total(claimable_collateral')
           = Total(locked_collateral) + Total(claimable_collateral),
         \A j \in Tokens :
           Total(Column(locked_token', j)) + Total(Column(claimable_token', j))
             = Total(Column(locked_token, j)) + Total(Column(claimable_token, j)),
         Total(locked_collateral') \in Int, Total(claimable_collateral') \in Int,
         \A j \in Tokens : /\ Total(Column(locked_token', j)) \in Int
                           /\ Total(Column(claimable_token', j)) \in Int
  PROVE  /\ HoldsCollateral(vault', locked_collateral', claimable_collateral', 0)
         /\ \A j \in Tokens : HoldsTokens(escrow', locked_token', claimable_token', j, 0)
<1>1. /\ vault = Total(locked_collateral) + Total(claimable_collateral)
      /\ \A j \in Tokens : escrow[j] = Total(Column(locked_token, j))
                                       + Total(Column(claimable_token, j))
  BY NothingDue, TotalsTyped DEF SolventInv, HoldsCollateral, HoldsTokens
<1> QED  BY <1>1 DEF HoldsCollateral, HoldsTokens

LEMMA TotalsTypedNext ==
  ASSUME Balances'
  PROVE  /\ Total(locked_collateral') \in Int /\ Total(claimable_collateral') \in Int
         /\ \A j \in Tokens : /\ Total(Column(locked_token', j)) \in Int
                              /\ Total(Column(claimable_token', j)) \in Int
<1>1. /\ locked_collateral' \in [Users -> Nat] /\ claimable_collateral' \in [Users -> Nat]
      /\ locked_token' \in TokenTable
      /\ claimable_token' \in TokenTable
  BY DEF Balances, TokenTable
<1>2. \A f \in [Users -> Nat] : Total(f) \in Int  BY TotalNat
<1>3. \A t \in TokenTable, j \in Tokens : Total(Column(t, j)) \in Int
  BY <1>2, ColumnTyped
<1> QED  BY <1>1, <1>2, <1>3

LEMMA LimitFillSolvent ==
  TypeOK /\ TypeOK' /\ SolventInv /\ (LimitFillBuy \/ LimitFillSell) => SolventInv'
<1> SUFFICES ASSUME TypeOK, TypeOK', SolventInv, LimitFillBuy \/ LimitFillSell
             PROVE  SolventInv'
  OBVIOUS
<1>1. LimitTrades /\ LimitAffords /\ LimitFill  BY DEF LimitFillBuy, LimitFillSell
<1>2. /\ pc = "limit" /\ pc' = "limit" /\ UNCHANGED <<vault, escrow, saved>>
      /\ ~MarketInFlight /\ ~MarketInFlight'
  BY <1>1, LimitTradeTyped DEF LimitFill, MarketInFlight, funds
<1>3. /\ signer \in Users /\ token \in Tokens /\ maker.user_key \in Users
      /\ maker.user_key # signer
      /\ LimitQty \in Nat /\ LimitPaid \in Nat /\ LockedAtOurPrice \in Nat
  BY <1>1, LimitTradeTyped, TakerTyped
<1>4. Balances /\ Balances'  BY AccountsTyped, AccountsTypedNext DEF TypeOK
<1>5. /\ locked_collateral \in [Users -> Nat] /\ claimable_collateral \in [Users -> Nat]
      /\ locked_token \in TokenTable
      /\ claimable_token \in TokenTable
  BY <1>4 DEF Balances, TokenTable
<1>6. /\ Total(locked_collateral') + Total(claimable_collateral')
           = Total(locked_collateral) + Total(claimable_collateral)
      /\ \A j \in Tokens :
           Total(Column(locked_token', j)) + Total(Column(claimable_token', j))
             = Total(Column(locked_token, j)) + Total(Column(claimable_token, j))
  <2>1. CASE LimitFillBuy
    <3> DEFINE seller == maker.user_key
               surplus == LockedAtOurPrice - LimitPaid
    <3>1. /\ surplus \in Nat /\ locked_collateral[signer] >= LockedAtOurPrice
          /\ Of(locked_token, seller, token) >= LimitQty
      BY <1>1, <1>3, <2>1 DEF Of, LimitAffords, MakerAffords, LimitFillBuy
    <3>2. /\ locked_collateral' = Minus(locked_collateral, signer, LockedAtOurPrice)
          /\ locked_token' = Lose(locked_token, seller, token, LimitQty)
          /\ claimable_token' = Gain(claimable_token, signer, token, LimitQty)
      BY <2>1 DEF LimitFillBuy, Plus, Minus, Gain, Lose
    <3>3. claimable_collateral' = Plus(Plus(claimable_collateral, signer, surplus),
                                       seller, LimitPaid)
      BY <1>3, <1>5, <2>1 DEF LimitFillBuy, Plus
    <3>4. LockedAtOurPrice = surplus + LimitPaid  BY <1>3
    <3>5. Total(locked_collateral') = Total(locked_collateral) - LockedAtOurPrice
      BY <1>3, <1>5, <3>1, <3>2, TotalMoves
    <3> HIDE DEF surplus, seller
    <3>6. seller \in Users  BY <1>3 DEF seller
    <3>7. Total(Plus(claimable_collateral, signer, surplus))
            = Total(claimable_collateral) + surplus
      BY <1>3, <1>5, <3>1, TotalMoves
    <3>8. Plus(claimable_collateral, signer, surplus) \in [Users -> Nat]
      BY <1>3, <1>5, <3>1, PlusTyped
    <3>9. Total(claimable_collateral')
            = Total(Plus(claimable_collateral, signer, surplus)) + LimitPaid
      BY <1>3, <3>3, <3>6, <3>8, TotalMoves
    <3>10. Total(locked_collateral) \in Nat /\ Total(claimable_collateral) \in Nat
      BY <1>5, TotalNat
    <3>11. ASSUME NEW j \in Tokens
           PROVE  Total(Column(locked_token', j)) + Total(Column(claimable_token', j))
                    = Total(Column(locked_token, j)) + Total(Column(claimable_token, j))
      <4>1. Total(Column(Lose(locked_token, seller, token, LimitQty), j))
              + Total(Column(Gain(claimable_token, signer, token, LimitQty), j))
                = Total(Column(locked_token, j)) + Total(Column(claimable_token, j))
        BY <1>3, <1>5, <3>1, <3>6, TokensPass
      <4> QED  BY <3>2, <4>1
    <3> QED  BY <1>3, <3>1, <3>4, <3>5, <3>7, <3>9, <3>10, <3>11
  <2>2. CASE LimitFillSell
    <3> DEFINE buyer == maker.user_key
    <3>1. /\ Of(locked_token, signer, token) >= LimitQty
          /\ locked_collateral[buyer] >= LimitPaid
      BY <1>1, <2>2 DEF LimitAffords, MakerAffords, LimitFillSell, Of
    <3>2. /\ locked_collateral' = Minus(locked_collateral, buyer, LimitPaid)
          /\ claimable_collateral' = Plus(claimable_collateral, signer, LimitPaid)
          /\ locked_token' = Lose(locked_token, signer, token, LimitQty)
          /\ claimable_token' = Gain(claimable_token, buyer, token, LimitQty)
      BY <2>2 DEF LimitFillSell, Plus, Minus, Gain, Lose
    <3> HIDE DEF buyer
    <3>3. buyer \in Users  BY <1>3 DEF buyer
    <3>4. ASSUME NEW j \in Tokens
           PROVE  Total(Column(locked_token', j)) + Total(Column(claimable_token', j))
                    = Total(Column(locked_token, j)) + Total(Column(claimable_token, j))
      <4>1. Total(Column(Lose(locked_token, signer, token, LimitQty), j))
              + Total(Column(Gain(claimable_token, buyer, token, LimitQty), j))
                = Total(Column(locked_token, j)) + Total(Column(claimable_token, j))
        BY <1>3, <1>5, <3>1, <3>3, TokensPass
      <4> QED  BY <3>2, <4>1
    <3>5. Total(locked_collateral') + Total(claimable_collateral')
            = Total(locked_collateral) + Total(claimable_collateral)
      BY <1>3, <1>5, <3>1, <3>2, <3>3, CollateralPasses
    <3> QED  BY <3>4, <3>5
  <2> QED  BY <2>1, <2>2
<1>7. /\ HoldsCollateral(vault', locked_collateral', claimable_collateral', 0)
      /\ \A j \in Tokens : HoldsTokens(escrow', locked_token', claimable_token', j, 0)
  BY <1>2, <1>4, <1>6, LimitMovesSolvent, TotalsTypedNext
<1> QED  BY <1>2, <1>7, NothingDueNext DEF SolventInv, HoldsCollateral, HoldsTokens

LEMMA LimitReleasesSolvent ==
  TypeOK /\ TypeOK' /\ SolventInv /\ (LimitReleasesBuy \/ LimitReleasesSell) => SolventInv'
<1> SUFFICES ASSUME TypeOK, TypeOK', SolventInv, LimitReleasesBuy \/ LimitReleasesSell
             PROVE  SolventInv'
  OBVIOUS
<1>1. Releases /\ ReleaseAffords /\ Commit /\ UNCHANGED <<vault, escrow>>
  BY DEF LimitReleasesBuy, LimitReleasesSell, funds
<1>2. ~MarketInFlight  BY <1>1 DEF Releases, MarketInFlight
<1>3. /\ signer \in Users /\ token \in Tokens
      /\ Left(taker) \in Nat /\ UnfilledCollateral \in Nat
  <2>1. Left(taker) \in Nat  BY <1>1, TakerTyped DEF Releases, Left
  <2> QED  BY <2>1, CostNat, TakerTyped DEF UnfilledCollateral
<1>4. Balances /\ Balances'  BY AccountsTyped, AccountsTypedNext DEF TypeOK
<1>5. /\ locked_collateral \in [Users -> Nat] /\ claimable_collateral \in [Users -> Nat]
      /\ locked_token \in TokenTable
      /\ claimable_token \in TokenTable
  BY <1>4 DEF Balances, TokenTable
<1>6. /\ Total(locked_collateral') + Total(claimable_collateral')
           = Total(locked_collateral) + Total(claimable_collateral)
      /\ \A j \in Tokens :
           Total(Column(locked_token', j)) + Total(Column(claimable_token', j))
             = Total(Column(locked_token, j)) + Total(Column(claimable_token, j))
  <2>1. CASE LimitReleasesBuy
    <3>1. locked_collateral[signer] >= UnfilledCollateral
      BY <1>1, <2>1 DEF ReleaseAffords, LimitReleasesBuy
    <3>2. /\ locked_collateral' = Minus(locked_collateral, signer, UnfilledCollateral)
          /\ claimable_collateral' = Plus(claimable_collateral, signer, UnfilledCollateral)
          /\ UNCHANGED <<locked_token, claimable_token>>
      BY <2>1 DEF LimitReleasesBuy, Plus, Minus
    <3> QED  BY <1>3, <1>5, <3>1, <3>2, CollateralPasses
  <2>2. CASE LimitReleasesSell
    <3>1. Of(locked_token, signer, token) >= Left(taker)
      BY <1>1, <2>2 DEF ReleaseAffords, LimitReleasesSell, Of
    <3>2. /\ locked_token' = Lose(locked_token, signer, token, Left(taker))
          /\ claimable_token' = Gain(claimable_token, signer, token, Left(taker))
          /\ UNCHANGED <<locked_collateral, claimable_collateral>>
      BY <2>2 DEF LimitReleasesSell, Gain, Lose
    <3>3. ASSUME NEW j \in Tokens
           PROVE  Total(Column(locked_token', j)) + Total(Column(claimable_token', j))
                    = Total(Column(locked_token, j)) + Total(Column(claimable_token, j))
      <4>1. Total(Column(Lose(locked_token, signer, token, Left(taker)), j))
              + Total(Column(Gain(claimable_token, signer, token, Left(taker)), j))
                = Total(Column(locked_token, j)) + Total(Column(claimable_token, j))
        BY <1>3, <1>5, <3>1, TokensPass
      <4> QED  BY <3>2, <4>1
    <3> QED  BY <3>2, <3>3
  <2> QED  BY <2>1, <2>2
<1>7. /\ HoldsCollateral(vault', locked_collateral', claimable_collateral', 0)
      /\ \A j \in Tokens : HoldsTokens(escrow', locked_token', claimable_token', j, 0)
  BY <1>1, <1>2, <1>4, <1>6, LimitMovesSolvent, TotalsTypedNext
<1> QED  BY <1>1, <1>7, CommitSolvent

\* A market order trades out of what it has locked, and settles at the end.
LEMMA MarketFillSolvent ==
  TypeOK /\ SolventInv /\ (MarketFillBuy \/ MarketFillSell) => SolventInv'
<1> SUFFICES ASSUME TypeOK, SolventInv, MarketFillBuy \/ MarketFillSell
             PROVE  SolventInv'
  OBVIOUS
<1>1. MarketTrades /\ MarketAffords /\ MarketFill
  BY DEF MarketFillBuy, MarketFillSell, MarketFill
<1>2. /\ pc = "market" /\ pc' = "market" /\ UNCHANGED <<vault, escrow, saved, taker>>
      /\ MarketInFlight /\ MarketInFlight' /\ token' = token
  BY <1>1, MarketTradeTyped DEF MarketFill, MarketInFlight, funds, token
<1>3. /\ signer \in Users /\ token \in Tokens /\ maker.user_key \in Users
      /\ MarketQty \in Nat /\ MarketPaid \in Nat /\ taker.quantity \in Nat
      /\ remaining_amount \in Nat /\ fullfilled_qty \in Nat
  BY <1>1, MarketTradeTyped, TakerTyped DEF TypeOK
<1>4. Balances  BY AccountsTyped DEF TypeOK
<1>5. /\ locked_collateral \in [Users -> Nat] /\ claimable_collateral \in [Users -> Nat]
      /\ locked_token \in TokenTable /\ claimable_token \in TokenTable
  BY <1>4 DEF Balances, TokenTable
<1>6. /\ vault = Total(locked_collateral) + Total(claimable_collateral) + (Earned - Spent)
      /\ \A j \in Tokens : escrow[j] = Total(Column(locked_token, j))
           + Total(Column(claimable_token, j)) + (Bought(j) - Sold(j))
      /\ SavedHolds
  BY DEF SolventInv, SavedHolds, HoldsCollateral, HoldsTokens
<1>7. SavedHolds'  BY <1>2, <1>6 DEF SavedHolds
<1>8. CASE MarketFillBuy
  <2> DEFINE seller == maker.user_key
  <2>1. /\ taker.side = "Buy" /\ Of(locked_token, seller, token) >= MarketQty
        /\ remaining_amount' = remaining_amount - MarketPaid
        /\ fullfilled_qty' = fullfilled_qty + MarketQty
        /\ claimable_collateral' = Plus(claimable_collateral, seller, MarketPaid)
        /\ locked_token' = Lose(locked_token, seller, token, MarketQty)
        /\ UNCHANGED <<locked_collateral, claimable_token>>
    BY <1>1, <1>8 DEF MarketFillBuy, MarketAffords, MakerAffords, Of, Plus, Lose
  <2> HIDE DEF seller
  <2>2. seller \in Users  BY <1>3 DEF seller
  <2>3. /\ Earned = 0 /\ Earned' = 0 /\ Spent = taker.quantity - remaining_amount
        /\ Spent' = taker.quantity - (remaining_amount - MarketPaid)
        /\ \A j \in Tokens :
             /\ Sold(j) = 0 /\ Sold(j)' = 0
             /\ token = j => Bought(j) = fullfilled_qty /\ Bought(j)' = fullfilled_qty + MarketQty
             /\ token # j => Bought(j) = 0 /\ Bought(j)' = 0
    BY <1>2, <2>1 DEF Earned, Spent, Sold, Bought
  <2>4. Total(claimable_collateral') = Total(claimable_collateral) + MarketPaid
    BY <1>3, <1>5, <2>1, <2>2, TotalMoves
  <2>5. CollateralHolds'
    <3>1. vault' = Total(locked_collateral') + Total(claimable_collateral') + (Earned' - Spent')
      BY <1>2, <1>3, <1>4, <1>6, <2>1, <2>3, <2>4, TotalsTyped
    <3> QED  BY <3>1 DEF CollateralHolds, HoldsCollateral
  <2>6. ASSUME NEW j \in Tokens
        PROVE  escrow'[j] = Total(Column(locked_token', j))
                 + Total(Column(claimable_token', j)) + (Bought(j)' - Sold(j)')
    <3>1. /\ j = token => Total(Column(locked_token', j))
                            = Total(Column(locked_token, j)) - MarketQty
          /\ j # token => Total(Column(locked_token', j)) = Total(Column(locked_token, j))
      BY <1>3, <1>5, <2>1, <2>2, ColumnLoses
    <3>2. /\ Total(Column(locked_token, j)) \in Nat
          /\ Total(Column(claimable_token, j)) \in Nat
      BY <1>5, ColumnTotal
    <3>3. escrow[j] = Total(Column(locked_token, j))
            + Total(Column(claimable_token, j)) + (Bought(j) - Sold(j))
      BY <1>6
    <3>4. CASE token = j  BY <1>2, <1>3, <2>1, <2>3, <3>1, <3>2, <3>3, <3>4
    <3>5. CASE token # j  BY <1>2, <1>3, <2>1, <2>3, <3>1, <3>2, <3>3, <3>5
    <3> QED  BY <3>4, <3>5
  <2>7. TokensHold'  BY <2>6 DEF TokensHold, HoldsTokens
  <2> QED  BY <1>7, <2>5, <2>7 DEF SolventInv, CollateralHolds, TokensHold, SavedHolds
<1>9. CASE MarketFillSell
  <2> DEFINE buyer == maker.user_key
  <2>1. /\ taker.side = "Sell" /\ locked_collateral[buyer] >= MarketPaid
        /\ remaining_amount' = remaining_amount - MarketQty
        /\ fullfilled_qty' = fullfilled_qty + MarketPaid
        /\ locked_collateral' = Minus(locked_collateral, buyer, MarketPaid)
        /\ claimable_token' = Gain(claimable_token, buyer, token, MarketQty)
        /\ UNCHANGED <<claimable_collateral, locked_token>>
    BY <1>1, <1>9 DEF MarketFillSell, MarketAffords, MakerAffords, Minus, Gain
  <2> HIDE DEF buyer
  <2>2. buyer \in Users  BY <1>3 DEF buyer
  <2>3. /\ Spent = 0 /\ Spent' = 0 /\ Earned = fullfilled_qty
        /\ Earned' = fullfilled_qty + MarketPaid
        /\ \A j \in Tokens :
             /\ Bought(j) = 0 /\ Bought(j)' = 0
             /\ token = j => /\ Sold(j) = taker.quantity - remaining_amount
                             /\ Sold(j)' = taker.quantity - (remaining_amount - MarketQty)
             /\ token # j => Sold(j) = 0 /\ Sold(j)' = 0
    BY <1>2, <2>1 DEF Earned, Spent, Sold, Bought
  <2>4. Total(locked_collateral') = Total(locked_collateral) - MarketPaid
    BY <1>3, <1>5, <2>1, <2>2, TotalMoves
  <2>5. CollateralHolds'
    <3>1. vault' = Total(locked_collateral') + Total(claimable_collateral') + (Earned' - Spent')
      BY <1>2, <1>3, <1>4, <1>6, <2>1, <2>3, <2>4, TotalsTyped
    <3> QED  BY <3>1 DEF CollateralHolds, HoldsCollateral
  <2>6. ASSUME NEW j \in Tokens
        PROVE  escrow'[j] = Total(Column(locked_token', j))
                 + Total(Column(claimable_token', j)) + (Bought(j)' - Sold(j)')
    <3>1. /\ j = token => Total(Column(claimable_token', j))
                            = Total(Column(claimable_token, j)) + MarketQty
          /\ j # token => Total(Column(claimable_token', j)) = Total(Column(claimable_token, j))
      <4> DEFINE new == Gain(claimable_token, buyer, token, MarketQty)
      <4>1. /\ j = token => Total(Column(new, j)) = Total(Column(claimable_token, j)) + MarketQty
            /\ j # token => Total(Column(new, j)) = Total(Column(claimable_token, j))
        BY <1>3, <1>5, <2>2, ColumnGains
      <4> QED  BY <2>1, <4>1
    <3>2. /\ Total(Column(locked_token, j)) \in Nat
          /\ Total(Column(claimable_token, j)) \in Nat
      BY <1>5, ColumnTotal
    <3>3. escrow[j] = Total(Column(locked_token, j))
            + Total(Column(claimable_token, j)) + (Bought(j) - Sold(j))
      BY <1>6
    <3>4. CASE token = j  BY <1>2, <1>3, <2>1, <2>3, <3>1, <3>2, <3>3, <3>4
    <3>5. CASE token # j  BY <1>2, <1>3, <2>1, <2>3, <3>1, <3>2, <3>3, <3>5
    <3> QED  BY <3>4, <3>5
  <2>7. TokensHold'  BY <2>6 DEF TokensHold, HoldsTokens
  <2> QED  BY <1>7, <2>5, <2>7 DEF SolventInv, CollateralHolds, TokensHold, SavedHolds
<1> QED  BY <1>8, <1>9

LEMMA MarketSettlesSolvent ==
  TypeOK /\ SolventInv /\ (MarketSettlesBuy \/ MarketSettlesSell) => SolventInv'
<1> SUFFICES ASSUME TypeOK, SolventInv, MarketSettlesBuy \/ MarketSettlesSell
             PROVE  SolventInv'
  OBVIOUS
<1>1. pc = "settle" /\ SettleAffords /\ Commit
  BY DEF MarketSettlesBuy, MarketSettlesSell
<1>2. MarketInFlight  BY <1>1 DEF MarketInFlight
<1>3. /\ signer \in Users /\ token \in Tokens /\ taker.quantity \in Nat
      /\ remaining_amount \in Nat /\ fullfilled_qty \in Nat
  BY TakerTyped DEF TypeOK
<1>4. Balances  BY AccountsTyped DEF TypeOK
<1>5. /\ locked_collateral \in [Users -> Nat] /\ claimable_collateral \in [Users -> Nat]
      /\ locked_token \in TokenTable /\ claimable_token \in TokenTable
      /\ vault \in Nat /\ escrow \in [Tokens -> Nat]
  BY <1>4 DEF Balances, TokenTable
<1>6. /\ vault = Total(locked_collateral) + Total(claimable_collateral) + (Earned - Spent)
      /\ \A j \in Tokens : escrow[j] = Total(Column(locked_token, j))
           + Total(Column(claimable_token, j)) + (Bought(j) - Sold(j))
  BY DEF SolventInv, HoldsCollateral, HoldsTokens
<1>7. CASE MarketSettlesBuy
  <2>1. /\ taker.side = "Buy" /\ locked_collateral[signer] >= taker.quantity
        /\ vault' = vault - remaining_amount
        /\ locked_collateral' = Minus(locked_collateral, signer, taker.quantity)
        /\ escrow' = Minus(escrow, token, fullfilled_qty)
        /\ UNCHANGED <<claimable_collateral, locked_token, claimable_token>>
    BY <1>1, <1>7 DEF MarketSettlesBuy, SettleAffords, Minus
  <2>2. /\ Earned = 0 /\ Spent = taker.quantity - remaining_amount
        /\ \A j \in Tokens :
             /\ Sold(j) = 0
             /\ token = j => Bought(j) = fullfilled_qty /\ escrow'[j] = escrow[j] - fullfilled_qty
             /\ token # j => Bought(j) = 0 /\ escrow'[j] = escrow[j]
    BY <1>2, <1>5, <2>1 DEF Earned, Spent, Sold, Bought, Minus
  <2>3. Total(locked_collateral') = Total(locked_collateral) - taker.quantity
    BY <1>3, <1>5, <2>1, TotalMoves
  <2>4. vault' = Total(locked_collateral') + Total(claimable_collateral') + 0
    BY <1>3, <1>4, <1>6, <2>1, <2>2, <2>3, TotalsTyped
  <2>5. ASSUME NEW j \in Tokens
        PROVE  escrow'[j] = Total(Column(locked_token', j))
                 + Total(Column(claimable_token', j)) + 0
    <3>1. /\ Total(Column(locked_token, j)) \in Nat
          /\ Total(Column(claimable_token, j)) \in Nat
      BY <1>5, ColumnTotal
    <3>2. escrow[j] = Total(Column(locked_token, j))
            + Total(Column(claimable_token, j)) + (Bought(j) - Sold(j))
      BY <1>6
    <3>3. CASE token = j  BY <1>3, <2>1, <2>2, <3>1, <3>2, <3>3
    <3>4. CASE token # j  BY <1>3, <2>1, <2>2, <3>1, <3>2, <3>4
    <3> QED  BY <3>3, <3>4
  <2> QED  BY <1>1, <2>4, <2>5, CommitSolvent DEF HoldsCollateral, HoldsTokens
<1>8. CASE MarketSettlesSell
  <2>1. /\ taker.side = "Sell" /\ Of(locked_token, signer, token) >= taker.quantity
        /\ vault' = vault - fullfilled_qty
        /\ locked_token' = Lose(locked_token, signer, token, taker.quantity)
        /\ escrow' = Minus(escrow, token, remaining_amount)
        /\ UNCHANGED <<locked_collateral, claimable_collateral, claimable_token>>
    BY <1>1, <1>8 DEF MarketSettlesSell, SettleAffords, Minus, Lose, Of
  <2>2. /\ Spent = 0 /\ Earned = fullfilled_qty
        /\ \A j \in Tokens :
             /\ Bought(j) = 0
             /\ token = j => /\ Sold(j) = taker.quantity - remaining_amount
                             /\ escrow'[j] = escrow[j] - remaining_amount
             /\ token # j => Sold(j) = 0 /\ escrow'[j] = escrow[j]
    BY <1>2, <1>5, <2>1 DEF Earned, Spent, Sold, Bought, Minus
  <2>3. vault' = Total(locked_collateral') + Total(claimable_collateral') + 0
    BY <1>3, <1>4, <1>6, <2>1, <2>2, TotalsTyped
  <2>4. ASSUME NEW j \in Tokens
        PROVE  escrow'[j] = Total(Column(locked_token', j))
                 + Total(Column(claimable_token', j)) + 0
    <3>0. /\ j = token => Total(Column(locked_token', j))
                            = Total(Column(locked_token, j)) - taker.quantity
          /\ j # token => Total(Column(locked_token', j)) = Total(Column(locked_token, j))
      BY <1>3, <1>5, <2>1, ColumnLoses
    <3>1. /\ Total(Column(locked_token, j)) \in Nat
          /\ Total(Column(claimable_token, j)) \in Nat
      BY <1>5, ColumnTotal
    <3>2. escrow[j] = Total(Column(locked_token, j))
            + Total(Column(claimable_token, j)) + (Bought(j) - Sold(j))
      BY <1>6
    <3>3. CASE token = j  BY <1>3, <2>1, <2>2, <3>0, <3>1, <3>2, <3>3
    <3>4. CASE token # j  BY <1>3, <2>1, <2>2, <3>0, <3>1, <3>2, <3>4
    <3> QED  BY <3>3, <3>4
  <2> QED  BY <1>1, <2>3, <2>4, CommitSolvent DEF HoldsCollateral, HoldsTokens
<1> QED  BY <1>7, <1>8

LEMMA SolventStep == TypeOK /\ TypeOK' /\ SolventInv /\ [Next]_vars => SolventInv'
<1> SUFFICES ASSUME TypeOK, TypeOK', SolventInv, [Next]_vars PROVE SolventInv'
  OBVIOUS
<1>1. ASSUME UNCHANGED <<vault, escrow, stats, saved, taker, remaining_amount, fullfilled_qty>>,
             MarketInFlight' = MarketInFlight
      PROVE  SolventInv'
  <2>1. /\ Earned' = Earned /\ Spent' = Spent
        /\ \A j \in Tokens : Bought(j)' = Bought(j) /\ Sold(j)' = Sold(j)
    BY <1>1 DEF Earned, Spent, Bought, Sold, token
  <2> QED  BY <1>1, <2>1, KeepsSolvent
<1>2. ASSUME Commit, UNCHANGED <<vault, escrow, stats>>, ~MarketInFlight
      PROVE  SolventInv'
  <2>1. /\ HoldsCollateral(vault, locked_collateral, claimable_collateral, 0)
        /\ \A j \in Tokens : HoldsTokens(escrow, locked_token, claimable_token, j, 0)
    BY <1>2, NothingDue DEF SolventInv, HoldsCollateral, HoldsTokens
  <2> QED  BY <1>2, <2>1, CommitSolvent DEF stats
<1>3. CASE Begin  BY <1>3, BeginSolvent
<1>4. CASE LimitPasses \/ MarketPasses
  BY <1>1, <1>4 DEF LimitPasses, MarketPasses, PassOver, funds, MarketInFlight, proceeds
<1>5. CASE LimitFillBuy \/ LimitFillSell  BY <1>5, LimitFillSolvent
<1>6. CASE MarketFillBuy \/ MarketFillSell  BY <1>6, MarketFillSolvent
<1>7. CASE LimitLoopEnds \/ MarketLoopEnds
  BY <1>1, <1>7 DEF LimitLoopEnds, MarketLoopEnds, funds, MarketInFlight, proceeds
<1>8. CASE LimitFilled \/ LimitRests
  BY <1>2, <1>8 DEF LimitFilled, LimitRests, funds, MarketInFlight
<1>9. CASE LimitReleasesBuy \/ LimitReleasesSell  BY <1>9, LimitReleasesSolvent
<1>10. CASE MarketSettlesBuy \/ MarketSettlesSell  BY <1>10, MarketSettlesSolvent
<1>11. CASE Fails
  <2>1. ~MarketInFlight'  BY <1>11 DEF Fails, Rollback, Idle, MarketInFlight
  <2>2. /\ HoldsCollateral(vault', locked_collateral', claimable_collateral', 0)
        /\ \A j \in Tokens : HoldsTokens(escrow', locked_token', claimable_token', j, 0)
    BY <1>11 DEF Fails, Rollback, SolventInv, HoldsCollateral, HoldsTokens
  <2>3. saved' = saved  BY <1>11 DEF Fails, Rollback
  <2> QED  BY <2>1, <2>2, <2>3, NothingDueNext DEF SolventInv, HoldsCollateral, HoldsTokens
<1>12. CASE Tick \/ SetWinningSide \/ UNCHANGED vars
  BY <1>1, <1>12 DEF Tick, SetWinningSide, vars, funds, MarketInFlight, proceeds
<1> QED
  BY <1>3, <1>4, <1>5, <1>6, <1>7, <1>8, <1>9, <1>10, <1>11, <1>12 DEF Next, Step

LEMMA SolventInit == Init => SolventInv
<1> SUFFICES ASSUME Init PROVE SolventInv  OBVIOUS
<1>1. IsFiniteSet(Users)  BY ParametersAssumption
<1>2. Total(locked_collateral) = 0 /\ Total(claimable_collateral) = 0
  <2>1. ASSUME NEW f, \A v \in Users : f[v] = 0 PROVE Total(f) = 0
    BY <1>1, <2>1, SumOfZeros DEF Total
  <2> QED  BY <2>1 DEF Init
<1>3. ASSUME NEW k \in Tokens
      PROVE  Total(Column(locked_token, k)) = 0 /\ Total(Column(claimable_token, k)) = 0
  <2>1. ASSUME NEW f, \A v \in Users : f[v] = 0 PROVE Total(f) = 0
    BY <1>1, <2>1, SumOfZeros DEF Total
  <2>2. \A v \in Users : Column(locked_token, k)[v] = 0 /\ Column(claimable_token, k)[v] = 0
    BY DEF Init, Column
  <2> QED  BY <2>1, <2>2
<1>4. ~MarketInFlight  BY DEF Init, MarketInFlight
<1>5. vault = 0 /\ \A k \in Tokens : escrow[k] = 0  BY DEF Init
<1>6. /\ saved.vault = vault /\ saved.escrow = escrow
      /\ saved.locked_collateral = locked_collateral
      /\ saved.claimable_collateral = claimable_collateral
      /\ saved.locked_token = locked_token /\ saved.claimable_token = claimable_token
  BY DEF Init, Accounts
<1> QED  BY <1>2, <1>3, <1>4, <1>5, <1>6, NothingDue
         DEF SolventInv, HoldsCollateral, HoldsTokens

\* The vault holds to the unit what the users own in it and the order in flight
\* has not settled: whatever is truncated on a fill stays with its payer, and a
\* rolled-back instruction leaves no trace in either column.
THEOREM VaultBacksUsersCorrect == Spec => []VaultBacksUsers
<1>1. TypeOK /\ SolventInv => VaultBacksUsers  BY SolventIs
<1> QED  BY <1>1, SolventInit, SolventStep, TypeCorrect, PTL DEF Spec

\* The same of each escrow and the tokens of its kind.
THEOREM EscrowBacksUsersCorrect == Spec => []EscrowBacksUsers
<1>1. TypeOK /\ SolventInv => EscrowBacksUsers  BY SolventIs
<1> QED  BY <1>1, SolventInit, SolventStep, TypeCorrect, PTL DEF Spec

-----------------------------------------------------------------------------
(* What a user has: the exchange an instruction has made so far *)

\* One user's balances of all tokens, and what it holds in its wallets, in its
\* locks and to claim.
Row(t, v) == [k \in Tokens |-> t[<<v, k>>]]
Owned(t, v) == SumFunctionOnSet(Row(t, v), Tokens)
Purse(w, l, c, v) == w[v] + l[v] + c[v]
Bag(w, l, c, v) == Owned(w, v) + Owned(l, v) + Owned(c, v)

Cash(v) == Purse(wallet_collateral, locked_collateral, claimable_collateral, v)
Goods(v) == Bag(wallet_token, locked_token, claimable_token, v)
CashBefore(v) ==
  Purse(saved.wallet_collateral, saved.locked_collateral, saved.claimable_collateral, v)
GoodsBefore(v) == Bag(saved.wallet_token, saved.locked_token, saved.claimable_token, v)

\* What the taker of a market order will be paid or charged when it settles.
CashDue(v) == IF v = signer THEN Earned - Spent ELSE 0
GoodsDue(v) == IF v = signer THEN Bought(token) - Sold(token) ELSE 0

MoneyGained == [v \in Users |-> Cash(v) - CashBefore(v) + CashDue(v)]
TokensGained == [v \in Users |-> Goods(v) - GoodsBefore(v) + GoodsDue(v)]

\* The users who may only buy in this instruction: the taker of a Buy, all the
\* others of a Sell.
Buyers == {v \in Users : v = signer <=> taker.side = "Buy"}

\* Money goes one way, tokens the other, never one without the other.
Deal(M, T, B) ==
  /\ M \in [Users -> Int] /\ T \in [Users -> Int]
  /\ \A v \in Users :
       /\ v \in B => M[v] <= 0 /\ T[v] >= 0
       /\ v \notin B => M[v] >= 0 /\ T[v] <= 0
       /\ M[v] = 0 <=> T[v] = 0
  /\ Total(M) = 0 /\ Total(T) = 0

\* Between two instructions every balance is the committed one.
Balanced ==
  /\ wallet_collateral = saved.wallet_collateral
  /\ locked_collateral = saved.locked_collateral
  /\ claimable_collateral = saved.claimable_collateral
  /\ wallet_token = saved.wallet_token
  /\ locked_token = saved.locked_token
  /\ claimable_token = saved.claimable_token

\* The price a limit order has had so far: a sale may lose up to a unit a fill.
PriceKept(m, t, price, n) ==
  /\ taker.side = "Buy" => -(m * Scale) <= t * price
  /\ taker.side = "Sell" => m * Scale >= -(t * price) - Scale * n

ExchangeInv ==
  /\ pc = "idle" => Balanced
  /\ Deal(MoneyGained, TokensGained, Buyers)
  /\ LimitInFlight => PriceKept(MoneyGained[signer], TokensGained[signer],
                                taker.price, Len(fills))

LEMMA RowMoves ==
  ASSUME NEW t \in TokenTable, NEW v \in Users, NEW k \in Tokens, NEW n \in Nat,
         NEW w \in Users
  PROVE  /\ Owned(t, w) \in Nat
         /\ w = v => Owned(Gain(t, v, k, n), w) = Owned(t, w) + n
         /\ w # v => Owned(Gain(t, v, k, n), w) = Owned(t, w)
         /\ Of(t, v, k) >= n =>
              /\ w = v => Owned(Lose(t, v, k, n), w) = Owned(t, w) - n
              /\ w # v => Owned(Lose(t, v, k, n), w) = Owned(t, w)
<1>0. IsFiniteSet(Tokens)  BY ParametersAssumption
<1>1. \A j \in Tokens : Row(t, w)[j] = Of(t, w, j) /\ Of(t, w, j) \in Nat
  BY DEF Row, Of, TokenTable
<1>2. Owned(t, w) \in Nat
  <2>1. \A j \in Tokens : Row(t, w)[j] \in Nat  BY <1>1
  <2> QED  BY <1>0, <2>1, SumCovers DEF Owned
<1>3. ASSUME NEW s \in TokenTable, NEW m \in Nat,
             \A j \in Tokens : /\ w = v /\ j = k => Of(s, w, j) = m
                               /\ ~(w = v /\ j = k) => Of(s, w, j) = Of(t, w, j)
      PROVE  /\ w = v => Owned(s, w) = Owned(t, w) - Of(t, v, k) + m
             /\ w # v => Owned(s, w) = Owned(t, w)
  <2>1. \A j \in Tokens : Row(s, w)[j] = Of(s, w, j) /\ Row(s, w)[j] \in Int
    BY DEF Row, Of, TokenTable
  <2>2. \A j \in Tokens : Row(t, w)[j] \in Int /\ Row(s, w)[j] \in Int  BY <1>1, <2>1
  <2>3. \A j \in Tokens : j # k => Row(s, w)[j] = Row(t, w)[j]  BY <1>1, <1>3, <2>1
  <2>4. Owned(s, w) = Owned(t, w) - Row(t, w)[k] + Row(s, w)[k]
    BY <1>0, <2>2, <2>3, SumChanges DEF Owned
  <2>5. CASE w = v  BY <1>1, <1>3, <2>1, <2>4, <2>5
  <2>6. CASE w # v
    <3>1. Row(s, w)[k] = Row(t, w)[k] /\ Row(t, w)[k] \in Nat  BY <1>1, <1>3, <2>1, <2>6
    <3> QED  BY <1>2, <2>4, <2>6, <3>1
  <2> QED  BY <2>5, <2>6
<1>4. ASSUME NEW j \in Tokens
      PROVE  /\ w = v /\ j = k => /\ Of(Gain(t, v, k, n), w, j) = Of(t, v, k) + n
                                  /\ Of(Lose(t, v, k, n), w, j) = Of(t, v, k) - n
             /\ ~(w = v /\ j = k) => /\ Of(Gain(t, v, k, n), w, j) = Of(t, w, j)
                                    /\ Of(Lose(t, v, k, n), w, j) = Of(t, w, j)
  BY OfMoves
<1>5. Of(t, v, k) \in Nat  BY OfMoves
<1>6. /\ w = v => Owned(Gain(t, v, k, n), w) = Owned(t, w) + n
      /\ w # v => Owned(Gain(t, v, k, n), w) = Owned(t, w)
  <2> DEFINE s == Gain(t, v, k, n)
             m == Of(t, v, k) + n
  <2>1. s \in TokenTable /\ m \in Nat  BY <1>5, ColumnGains
  <2>2. \A j \in Tokens : /\ w = v /\ j = k => Of(s, w, j) = m
                          /\ ~(w = v /\ j = k) => Of(s, w, j) = Of(t, w, j)
    BY <1>4
  <2>3. m = Of(t, v, k) + n  OBVIOUS
  <2> HIDE DEF s, m
  <2>4. /\ w = v => Owned(s, w) = Owned(t, w) - Of(t, v, k) + m
        /\ w # v => Owned(s, w) = Owned(t, w)
    BY <1>3, <2>1, <2>2
  <2> QED  BY <1>2, <1>5, <2>3, <2>4 DEF s
<1>7. ASSUME Of(t, v, k) >= n
      PROVE  /\ w = v => Owned(Lose(t, v, k, n), w) = Owned(t, w) - n
             /\ w # v => Owned(Lose(t, v, k, n), w) = Owned(t, w)
  <2> DEFINE s == Lose(t, v, k, n)
             m == Of(t, v, k) - n
  <2>1. s \in TokenTable /\ m \in Nat  BY <1>5, <1>7, ColumnLoses
  <2>2. \A j \in Tokens : /\ w = v /\ j = k => Of(s, w, j) = m
                          /\ ~(w = v /\ j = k) => Of(s, w, j) = Of(t, w, j)
    BY <1>4
  <2>3. m = Of(t, v, k) - n  OBVIOUS
  <2> HIDE DEF s, m
  <2>4. /\ w = v => Owned(s, w) = Owned(t, w) - Of(t, v, k) + m
        /\ w # v => Owned(s, w) = Owned(t, w)
    BY <1>3, <2>1, <2>2
  <2> QED  BY <1>2, <1>5, <2>3, <2>4 DEF s
<1> QED  BY <1>2, <1>6, <1>7

\* The sums of the properties are those of Purse and Bag.
LEMMA BagIs ==
  ASSUME NEW w \in TokenTable, NEW l \in TokenTable, NEW c \in TokenTable,
         NEW v \in Users
  PROVE  /\ SumFunction([k \in Tokens |-> w[<<v, k>>] + l[<<v, k>>] + c[<<v, k>>]])
              = Bag(w, l, c, v)
         /\ Bag(w, l, c, v) \in Nat
<1> DEFINE all == [k \in Tokens |-> w[<<v, k>>] + l[<<v, k>>] + c[<<v, k>>]]
           two == [k \in Tokens |-> w[<<v, k>>] + l[<<v, k>>]]
<1>0. IsFiniteSet(Tokens)  BY ParametersAssumption
<1>1. SumFunction(all) = SumFunctionOnSet(all, Tokens)  BY DEF SumFunction
<1>2. \A k \in Tokens : /\ Row(w, v)[k] \in Nat /\ Row(l, v)[k] \in Nat
                        /\ Row(c, v)[k] \in Nat
                        /\ two[k] = Row(w, v)[k] + Row(l, v)[k]
                        /\ all[k] = two[k] + Row(c, v)[k]
  BY DEF Row, TokenTable
<1> HIDE DEF all, two
<1>3. /\ \A k \in Tokens : /\ Row(w, v)[k] \in Int /\ Row(l, v)[k] \in Int
                           /\ two[k] = Row(w, v)[k] + Row(l, v)[k]
      /\ \A k \in Tokens : /\ two[k] \in Int /\ Row(c, v)[k] \in Int
                           /\ all[k] = two[k] + Row(c, v)[k]
  BY <1>2
<1>4. SumFunctionOnSet(two, Tokens) = Owned(w, v) + Owned(l, v)
  BY <1>0, <1>3, SumOfSums DEF Owned
<1>5. SumFunctionOnSet(all, Tokens) = SumFunctionOnSet(two, Tokens) + Owned(c, v)
  BY <1>0, <1>3, SumOfSums DEF Owned
<1>6. Owned(w, v) \in Nat /\ Owned(l, v) \in Nat /\ Owned(c, v) \in Nat
  BY <1>0, <1>2, SumCovers DEF Owned
<1> QED  BY <1>1, <1>4, <1>5, <1>6 DEF Bag, all

\* What one user pays another, for money or for tokens.
Paid(M, N, from, to, n) ==
  /\ N \in [Users -> Int]
  /\ N[from] = M[from] - n /\ N[to] = M[to] + n
  /\ \A v \in Users : v # from /\ v # to => N[v] = M[v]

LEMMA PaidTotal ==
  ASSUME NEW M \in [Users -> Int], NEW N, NEW from \in Users, NEW to \in Users,
         from # to, NEW n \in Int, Paid(M, N, from, to, n)
  PROVE  Total(N) = Total(M)
<1> DEFINE K == [M EXCEPT ![from] = M[from] - n]
<1>0. IsFiniteSet(Users)  BY ParametersAssumption
<1>1. /\ \A v \in Users : M[v] \in Int /\ K[v] \in Int /\ N[v] \in Int
      /\ \A v \in Users : v # from => K[v] = M[v]
      /\ \A v \in Users : v # to => N[v] = K[v]
      /\ K[from] = M[from] - n /\ K[to] = M[to] /\ N[to] = M[to] + n
  BY DEF Paid
<1> HIDE DEF K
<1>2. Total(K) = Total(M) - M[from] + K[from]  BY <1>0, <1>1, SumChanges DEF Total
<1>3. Total(N) = Total(K) - K[to] + N[to]  BY <1>0, <1>1, SumChanges DEF Total
<1>4. Total(M) \in Int  BY <1>0, <1>1, SumTyped DEF Total
<1> QED  BY <1>1, <1>2, <1>3, <1>4

\* A trade of something for something keeps a deal a deal.
LEMMA DealGrows ==
  ASSUME NEW M, NEW T, NEW B, Deal(M, T, B), NEW N, NEW U,
         NEW b \in Users, NEW s \in Users, b \in B, s \notin B,
         NEW p \in Nat \ {0}, NEW n \in Nat \ {0},
         Paid(M, N, b, s, p), Paid(T, U, s, b, n)
  PROVE  Deal(N, U, B)
<1>1. b # s /\ M \in [Users -> Int] /\ T \in [Users -> Int]  BY DEF Deal
<1>2. Total(N) = Total(M) /\ Total(U) = Total(T)  BY <1>1, PaidTotal
<1>3. ASSUME NEW v \in Users
      PROVE  /\ v \in B => N[v] <= 0 /\ U[v] >= 0
             /\ v \notin B => N[v] >= 0 /\ U[v] <= 0
             /\ N[v] = 0 <=> U[v] = 0
  <2>1. /\ v \in B => M[v] <= 0 /\ T[v] >= 0
        /\ v \notin B => M[v] >= 0 /\ T[v] <= 0
        /\ M[v] = 0 <=> T[v] = 0
        /\ M[v] \in Int /\ T[v] \in Int
    BY <1>1 DEF Deal
  <2>2. CASE v = b
    <3>1. N[v] = M[v] - p /\ U[v] = T[v] + n  BY <2>2 DEF Paid
    <3> QED  BY <2>1, <2>2, <3>1
  <2>3. CASE v = s
    <3>1. N[v] = M[v] + p /\ U[v] = T[v] - n  BY <2>3 DEF Paid
    <3> QED  BY <2>1, <2>3, <3>1
  <2>4. CASE v # b /\ v # s
    <3>1. N[v] = M[v] /\ U[v] = T[v]  BY <2>4 DEF Paid
    <3> QED  BY <2>1, <3>1
  <2> QED  BY <2>2, <2>3, <2>4
<1> QED  BY <1>2, <1>3 DEF Deal, Paid

LEMMA NoDeal ==
  ASSUME NEW M \in [Users -> Int], NEW T \in [Users -> Int], NEW B,
         \A v \in Users : M[v] = 0 /\ T[v] = 0
  PROVE  Deal(M, T, B)
<1>1. IsFiniteSet(Users)  BY ParametersAssumption
<1>2. Total(M) = 0 /\ Total(T) = 0  BY <1>1, SumOfZeros DEF Total
<1> QED  BY <1>2 DEF Deal

\* Every amount the gains are made of is a whole number.
GainsInt ==
  /\ \A v \in Users : /\ Cash(v) \in Nat /\ CashBefore(v) \in Nat /\ CashDue(v) \in Int
                      /\ Goods(v) \in Nat /\ GoodsBefore(v) \in Nat /\ GoodsDue(v) \in Int
  /\ MoneyGained \in [Users -> Int] /\ TokensGained \in [Users -> Int]

LEMMA GainsTyped == TypeOK => GainsInt
<1> SUFFICES ASSUME TypeOK PROVE GainsInt  OBVIOUS
<1>1. /\ Balances /\ saved \in AccountsType
      /\ taker.quantity \in Nat /\ remaining_amount \in Nat /\ fullfilled_qty \in Nat
  BY AccountsTyped, TakerTyped DEF TypeOK
<1>2. /\ wallet_token \in TokenTable /\ locked_token \in TokenTable
      /\ claimable_token \in TokenTable
      /\ saved.wallet_token \in TokenTable /\ saved.locked_token \in TokenTable
      /\ saved.claimable_token \in TokenTable
  BY <1>1 DEF Balances, AccountsType, TokenTable
<1>3. /\ wallet_collateral \in [Users -> Nat] /\ locked_collateral \in [Users -> Nat]
      /\ claimable_collateral \in [Users -> Nat]
      /\ saved.wallet_collateral \in [Users -> Nat]
      /\ saved.locked_collateral \in [Users -> Nat]
      /\ saved.claimable_collateral \in [Users -> Nat]
  BY <1>1 DEF Balances, AccountsType
<1>4. ASSUME NEW v \in Users
      PROVE  /\ Cash(v) \in Nat /\ CashBefore(v) \in Nat /\ CashDue(v) \in Int
             /\ Goods(v) \in Nat /\ GoodsBefore(v) \in Nat /\ GoodsDue(v) \in Int
  <2>1. Cash(v) \in Nat /\ CashBefore(v) \in Nat
    BY <1>3 DEF Cash, CashBefore, Purse
  <2>2. Goods(v) \in Nat /\ GoodsBefore(v) \in Nat
    BY <1>2, BagIs DEF Goods, GoodsBefore
  <2>3. CashDue(v) \in Int  BY <1>1 DEF CashDue, Earned, Spent
  <2>4. GoodsDue(v) \in Int  BY <1>1 DEF GoodsDue, Bought, Sold
  <2> QED  BY <2>1, <2>2, <2>3, <2>4
<1>5. MoneyGained \in [Users -> Int]  BY <1>4 DEF MoneyGained
<1>6. TokensGained \in [Users -> Int]  BY <1>4 DEF TokensGained
<1> QED  BY <1>4, <1>5, <1>6 DEF GainsInt

LEMMA GainsTypedNext == TypeOK' => GainsInt'
BY GainsTyped, PTL

LEMMA GainsAre ==
  ASSUME NEW v \in Users
  PROVE  /\ MoneyGained[v] = Cash(v) - CashBefore(v) + CashDue(v)
         /\ TokensGained[v] = Goods(v) - GoodsBefore(v) + GoodsDue(v)
         /\ MoneyGained'[v] = Cash(v)' - CashBefore(v)' + CashDue(v)'
         /\ TokensGained'[v] = Goods(v)' - GoodsBefore(v)' + GoodsDue(v)'
BY DEF MoneyGained, TokensGained

LEMMA BeforeStays ==
  ASSUME saved' = saved, NEW v \in Users
  PROVE  CashBefore(v)' = CashBefore(v) /\ GoodsBefore(v)' = GoodsBefore(v)
BY DEF CashBefore, GoodsBefore

\* Nothing has been traded when everybody has what was committed.
LEMMA NothingGained ==
  ASSUME GainsInt', \A v \in Users : Cash(v)' = CashBefore(v)' /\ Goods(v)' = GoodsBefore(v)',
         \A v \in Users : CashDue(v)' = 0 /\ GoodsDue(v)' = 0
  PROVE  /\ \A v \in Users : MoneyGained'[v] = 0 /\ TokensGained'[v] = 0
         /\ Deal(MoneyGained', TokensGained', Buyers')
<1>1. \A v \in Users : MoneyGained'[v] = 0 /\ TokensGained'[v] = 0
  BY GainsAre DEF GainsInt
<1>2. MoneyGained' \in [Users -> Int] /\ TokensGained' \in [Users -> Int]
  BY DEF GainsInt
<1> QED  BY <1>1, <1>2, NoDeal

\* The accounts are the committed ones, and no order is in flight.
LEMMA IdleExchange ==
  ASSUME TypeOK', Idle, Balanced'
  PROVE  ExchangeInv'
<1>1. pc' = "idle" /\ ~MarketInFlight' /\ ~LimitInFlight'
  BY DEF Idle, MarketInFlight, LimitInFlight
<1>2. \A v \in Users : Cash(v)' = CashBefore(v)' /\ Goods(v)' = GoodsBefore(v)'
  BY DEF Balanced, Cash, CashBefore, Goods, GoodsBefore
<1>3. \A v \in Users : CashDue(v)' = 0 /\ GoodsDue(v)' = 0
  BY <1>1 DEF CashDue, GoodsDue, Earned, Spent, Bought, Sold
<1>4. Deal(MoneyGained', TokensGained', Buyers')
  BY <1>2, <1>3, GainsTypedNext, NothingGained
<1> QED  BY <1>1, <1>4 DEF ExchangeInv

LEMMA CommitExchange ==
  ASSUME TypeOK', Commit
  PROVE  ExchangeInv'
<1>1. Balanced'  BY DEF Commit, Accounts, Balanced
<1> QED  BY <1>1, IdleExchange DEF Commit

LEMMA RollbackExchange ==
  ASSUME TypeOK', Rollback
  PROVE  ExchangeInv'
<1>1. Balanced'  BY DEF Rollback, Balanced
<1> QED  BY <1>1, IdleExchange DEF Rollback

\* A step that changes neither what a user has nor what it is due.
LEMMA ExchangeStays ==
  ASSUME ExchangeInv, UNCHANGED <<stats, wallet_collateral, wallet_token, saved, taker,
                                  remaining_amount, fullfilled_qty, fills>>,
         MarketInFlight' = MarketInFlight, LimitInFlight' => LimitInFlight,
         pc' = "idle" => pc = "idle"
  PROVE  ExchangeInv'
<1>1. /\ Earned' = Earned /\ Spent' = Spent
      /\ Bought(token)' = Bought(token) /\ Sold(token)' = Sold(token)
  BY DEF Earned, Spent, Bought, Sold, token
<1>2. ASSUME NEW v \in Users
      PROVE  /\ Cash(v)' = Cash(v) /\ Goods(v)' = Goods(v)
             /\ CashBefore(v)' = CashBefore(v) /\ GoodsBefore(v)' = GoodsBefore(v)
             /\ CashDue(v)' = CashDue(v) /\ GoodsDue(v)' = GoodsDue(v)
  <2>1. Cash(v)' = Cash(v)  BY DEF Cash, stats
  <2>2. Goods(v)' = Goods(v)  BY DEF Goods, stats
  <2>3. CashDue(v)' = CashDue(v) /\ GoodsDue(v)' = GoodsDue(v)
    BY <1>1 DEF CashDue, GoodsDue, signer
  <2> QED  BY <2>1, <2>2, <2>3, BeforeStays
<1>3. MoneyGained' = MoneyGained /\ TokensGained' = TokensGained /\ Buyers' = Buyers
  BY <1>2 DEF MoneyGained, TokensGained, Buyers, signer
<1>4. signer' = signer /\ taker' = taker  BY DEF signer
<1>5. Balanced => Balanced'  BY DEF Balanced, stats
<1> QED  BY <1>3, <1>4, <1>5 DEF ExchangeInv, PriceKept

\* Locking funds is not parting with them.
LEMMA LockExchange ==
  ASSUME TypeOK, TypeOK', NEW v \in Users, NEW side \in Sides, NEW k \in Tokens,
         NEW tokens \in Nat, NEW amount \in Nat, Lock(v, side, k, tokens, amount),
         UNCHANGED <<claimable_collateral, claimable_token, saved>>, Balanced
  PROVE  \A w \in Users : Cash(w)' = CashBefore(w)' /\ Goods(w)' = GoodsBefore(w)'
<1>1. Balances /\ Balances'  BY AccountsTyped, AccountsTypedNext DEF TypeOK
<1>2. /\ wallet_token \in TokenTable /\ locked_token \in TokenTable
      /\ claimable_token \in TokenTable
      /\ wallet_collateral \in [Users -> Nat] /\ locked_collateral \in [Users -> Nat]
      /\ claimable_collateral \in [Users -> Nat]
  BY <1>1 DEF Balances, TokenTable
<1>3. SUFFICES ASSUME NEW w \in Users
               PROVE  Cash(w)' = Cash(w) /\ Goods(w)' = Goods(w)
  <2>1. \A w \in Users : CashBefore(w) = Cash(w) /\ GoodsBefore(w) = Goods(w)
    BY DEF Balanced, Cash, CashBefore, Goods, GoodsBefore
  <2> QED  BY <1>3, <2>1, BeforeStays
<1>4. CASE LockCollateral(v, amount)
  <2>1. /\ wallet_collateral' = Minus(wallet_collateral, v, amount)
        /\ locked_collateral' = Plus(locked_collateral, v, amount)
        /\ UNCHANGED <<wallet_token, locked_token>>
    BY <1>4 DEF LockCollateral, Plus, Minus
  <2>2. Goods(w)' = Goods(w)  BY <2>1 DEF Goods
  <2>3. wallet_collateral'[w] + locked_collateral'[w]
          = wallet_collateral[w] + locked_collateral[w]
    <3>1. /\ wallet_collateral[w] \in Nat
          /\ w = v => Minus(wallet_collateral, v, amount)[w] = wallet_collateral[w] - amount
          /\ w # v => Minus(wallet_collateral, v, amount)[w] = wallet_collateral[w]
      BY <1>2, MinusAt
    <3>2. /\ locked_collateral[w] \in Nat
          /\ w = v => Plus(locked_collateral, v, amount)[w] = locked_collateral[w] + amount
          /\ w # v => Plus(locked_collateral, v, amount)[w] = locked_collateral[w]
      BY <1>2, PlusAt
    <3> QED  BY <2>1, <3>1, <3>2
  <2>4. claimable_collateral' = claimable_collateral  OBVIOUS
  <2>5. Cash(w)' = Cash(w)  BY <2>3, <2>4 DEF Cash, Purse
  <2> QED  BY <2>2, <2>5
<1>5. CASE LockTokens(v, k, tokens)
  <2>1. /\ wallet_token' = Lose(wallet_token, v, k, tokens)
        /\ locked_token' = Gain(locked_token, v, k, tokens)
        /\ Of(wallet_token, v, k) >= tokens
        /\ UNCHANGED <<wallet_collateral, locked_collateral>>
    BY <1>5 DEF LockTokens, Lose, Gain, Of
  <2>2. Cash(w)' = Cash(w)  BY <2>1 DEF Cash
  <2>3. /\ Owned(wallet_token, w) \in Nat /\ Owned(locked_token, w) \in Nat
        /\ w = v => /\ Owned(wallet_token', w) = Owned(wallet_token, w) - tokens
                    /\ Owned(locked_token', w) = Owned(locked_token, w) + tokens
        /\ w # v => /\ Owned(wallet_token', w) = Owned(wallet_token, w)
                    /\ Owned(locked_token', w) = Owned(locked_token, w)
    BY <1>2, <2>1, RowMoves
  <2>4. Owned(wallet_token', w) + Owned(locked_token', w)
          = Owned(wallet_token, w) + Owned(locked_token, w)
    BY <2>3
  <2>5. Goods(w)' = Goods(w)  BY <2>4 DEF Goods, Bag
  <2> QED  BY <2>2, <2>5
<1> QED  BY <1>4, <1>5 DEF Lock

LEMMA BeginExchange == TypeOK /\ TypeOK' /\ ExchangeInv /\ Begin => ExchangeInv'
<1> SUFFICES ASSUME TypeOK, TypeOK', ExchangeInv, Begin PROVE ExchangeInv'  OBVIOUS
<1>1. PICK v \in Users, side \in Sides, k \in Tokens, n \in Iterations,
           accounts \in AccountLists :
        \/ \E quantity \in Quantities, price \in Prices :
             PlaceOrder(v, side, k, quantity, price, n, accounts)
        \/ \E amount \in Amounts : MarketOrder(v, side, k, amount, n, accounts)
  BY DEF Begin
<1>2. /\ pc = "idle" /\ pc' \in {"limit", "market"} /\ Balanced
      /\ UNCHANGED <<claimable_collateral, claimable_token, saved, fills>>
  BY <1>1 DEF PlaceOrder, MarketOrder, Open, ExchangeInv
<1>3. \A w \in Users : Cash(w)' = CashBefore(w)' /\ Goods(w)' = GoodsBefore(w)'
  <2>1. ASSUME NEW quantity \in Quantities, NEW price \in Prices,
               PlaceOrder(v, side, k, quantity, price, n, accounts)
        PROVE  \A w \in Users : Cash(w)' = CashBefore(w)' /\ Goods(w)' = GoodsBefore(w)'
    <3>1. quantity \in Nat /\ Cost(quantity, price) \in Nat
      BY CostNat, ParametersAssumption
    <3>2. Lock(v, side, k, quantity, Cost(quantity, price))  BY <2>1 DEF PlaceOrder
    <3> QED  BY <1>2, <3>1, <3>2, LockExchange
  <2>2. ASSUME NEW amount \in Amounts, MarketOrder(v, side, k, amount, n, accounts)
        PROVE  \A w \in Users : Cash(w)' = CashBefore(w)' /\ Goods(w)' = GoodsBefore(w)'
    <3>1. amount \in Nat  BY ParametersAssumption
    <3>2. Lock(v, side, k, amount, amount)  BY <2>2 DEF MarketOrder
    <3> QED  BY <1>2, <3>1, <3>2, LockExchange
  <2> QED  BY <1>1, <2>1, <2>2
<1>4. \A w \in Users : CashDue(w)' = 0 /\ GoodsDue(w)' = 0
  <2>1. Earned' - Spent' = 0 /\ Bought(token)' - Sold(token)' = 0
    <3>1. CASE \E quantity \in Quantities, price \in Prices :
                 PlaceOrder(v, side, k, quantity, price, n, accounts)
      <4>1. ~MarketInFlight'  BY <3>1 DEF PlaceOrder, MarketInFlight
      <4> QED  BY <4>1 DEF Earned, Spent, Bought, Sold
    <3>2. ASSUME NEW amount \in Amounts, MarketOrder(v, side, k, amount, n, accounts)
          PROVE  Earned' - Spent' = 0 /\ Bought(token)' - Sold(token)' = 0
      <4>1. /\ taker'.quantity = amount /\ remaining_amount' = amount
            /\ fullfilled_qty' = 0 /\ amount \in Nat
        BY <3>2, ParametersAssumption DEF MarketOrder
      <4>2. Earned' = 0 /\ Spent' = 0 /\ Bought(token)' = 0 /\ Sold(token)' = 0
        BY <4>1 DEF Earned, Spent, Bought, Sold
      <4> QED  BY <4>2
    <3> QED  BY <1>1, <3>1, <3>2
  <2> QED  BY <2>1 DEF CashDue, GoodsDue
<1>5. /\ \A w \in Users : MoneyGained'[w] = 0 /\ TokensGained'[w] = 0
      /\ Deal(MoneyGained', TokensGained', Buyers')
  BY <1>3, <1>4, GainsTypedNext, NothingGained
<1>6. LimitInFlight' => PriceKept(MoneyGained[signer], TokensGained[signer],
                                  taker.price, Len(fills))'
  <2>1. MoneyGained'[signer'] = 0 /\ TokensGained'[signer'] = 0 /\ taker'.price \in Nat
        /\ Len(fills') \in Nat
    <3>1. signer' \in Users /\ taker'.price \in Nat /\ fills' \in Seq(Fill)
      BY DEF TypeOK, Order, signer
    <3> QED  BY <1>5, <3>1, LenProperties
  <2>2. Scale \in Nat /\ Scale * Len(fills') \in Nat  BY <2>1, ParametersAssumption
  <2> QED  BY <2>1, <2>2 DEF PriceKept
<1> QED  BY <1>2, <1>5, <1>6 DEF ExchangeInv

\* A step in which b pays p of collateral for n tokens of s.
Swaps(b, s, p, n) ==
  \A v \in Users :
    /\ v = b => /\ Cash(v)' + CashDue(v)' = Cash(v) + CashDue(v) - p
                /\ Goods(v)' + GoodsDue(v)' = Goods(v) + GoodsDue(v) + n
    /\ v = s => /\ Cash(v)' + CashDue(v)' = Cash(v) + CashDue(v) + p
                /\ Goods(v)' + GoodsDue(v)' = Goods(v) + GoodsDue(v) - n
    /\ v # b /\ v # s => /\ Cash(v)' + CashDue(v)' = Cash(v) + CashDue(v)
                         /\ Goods(v)' + GoodsDue(v)' = Goods(v) + GoodsDue(v)

LEMMA SwapExchange ==
  ASSUME GainsInt, GainsInt', saved' = saved,
         Deal(MoneyGained, TokensGained, Buyers), Buyers' = Buyers,
         NEW b \in Users, NEW s \in Users, b \in Buyers, s \notin Buyers,
         NEW p \in Nat \ {0}, NEW n \in Nat \ {0}, Swaps(b, s, p, n)
  PROVE  /\ Deal(MoneyGained', TokensGained', Buyers')
         /\ MoneyGained'[b] = MoneyGained[b] - p /\ TokensGained'[b] = TokensGained[b] + n
         /\ MoneyGained'[s] = MoneyGained[s] + p /\ TokensGained'[s] = TokensGained[s] - n
<1>1. ASSUME NEW v \in Users
      PROVE  /\ Cash(v) \in Int /\ CashBefore(v) \in Int /\ CashDue(v) \in Int
             /\ Goods(v) \in Int /\ GoodsBefore(v) \in Int /\ GoodsDue(v) \in Int
             /\ Cash(v)' \in Int /\ CashDue(v)' \in Int
             /\ Goods(v)' \in Int /\ GoodsDue(v)' \in Int
             /\ CashBefore(v)' = CashBefore(v) /\ GoodsBefore(v)' = GoodsBefore(v)
  BY BeforeStays DEF GainsInt
<1>2. ASSUME NEW v \in Users
      PROVE  /\ v = b => MoneyGained'[v] = MoneyGained[v] - p
                         /\ TokensGained'[v] = TokensGained[v] + n
             /\ v = s => MoneyGained'[v] = MoneyGained[v] + p
                         /\ TokensGained'[v] = TokensGained[v] - n
             /\ v # b /\ v # s => MoneyGained'[v] = MoneyGained[v]
                                  /\ TokensGained'[v] = TokensGained[v]
  <2>0. /\ Cash(v) \in Int /\ CashBefore(v) \in Int /\ CashDue(v) \in Int
        /\ Goods(v) \in Int /\ GoodsBefore(v) \in Int /\ GoodsDue(v) \in Int
        /\ Cash(v)' \in Int /\ CashDue(v)' \in Int
        /\ Goods(v)' \in Int /\ GoodsDue(v)' \in Int
    BY <1>1
  <2>1. /\ MoneyGained[v] = Cash(v) - CashBefore(v) + CashDue(v)
        /\ TokensGained[v] = Goods(v) - GoodsBefore(v) + GoodsDue(v)
        /\ MoneyGained'[v] = Cash(v)' - CashBefore(v) + CashDue(v)'
        /\ TokensGained'[v] = Goods(v)' - GoodsBefore(v) + GoodsDue(v)'
    BY <1>1, GainsAre
  <2>2. CASE v = b
    <3>1. /\ Cash(v)' + CashDue(v)' = Cash(v) + CashDue(v) - p
          /\ Goods(v)' + GoodsDue(v)' = Goods(v) + GoodsDue(v) + n
      BY <2>2 DEF Swaps
    <3>2. b # s  OBVIOUS
    <3>3. MoneyGained'[v] = MoneyGained[v] - p  BY <2>0, <2>1, <3>1
    <3>4. TokensGained'[v] = TokensGained[v] + n  BY <2>0, <2>1, <3>1
    <3> QED  BY <2>2, <3>2, <3>3, <3>4
  <2>3. CASE v = s
    <3>1. /\ Cash(v)' + CashDue(v)' = Cash(v) + CashDue(v) + p
          /\ Goods(v)' + GoodsDue(v)' = Goods(v) + GoodsDue(v) - n
      BY <2>3 DEF Swaps
    <3> QED  BY <1>1, <2>1, <2>3, <3>1
  <2>4. CASE v # b /\ v # s
    <3>1. /\ Cash(v)' + CashDue(v)' = Cash(v) + CashDue(v)
          /\ Goods(v)' + GoodsDue(v)' = Goods(v) + GoodsDue(v)
      BY <2>4 DEF Swaps
    <3> QED  BY <1>1, <2>1, <2>4, <3>1
  <2> QED  BY <2>2, <2>3, <2>4
<1>3. MoneyGained' \in [Users -> Int] /\ TokensGained' \in [Users -> Int]
  BY DEF GainsInt
<1>4. Paid(MoneyGained, MoneyGained', b, s, p)  BY <1>2, <1>3 DEF Paid
<1>5. Paid(TokensGained, TokensGained', s, b, n)  BY <1>2, <1>3 DEF Paid
<1>6. Deal(MoneyGained', TokensGained', Buyers)  BY <1>4, <1>5, DealGrows
<1> QED  BY <1>2, <1>6

\* The maker's price is at least as good as the limit, and truncation takes less
\* than a unit of collateral from the seller.
LEMMA FillPrice ==
  ASSUME NEW n \in Nat, NEW r \in Nat, NEW price \in Nat
  PROVE  /\ Cost(n, r) \in Nat
         /\ r <= price => Cost(n, r) * Scale <= n * price
         /\ r >= price => Cost(n, r) * Scale >= n * price - Scale
<1> DEFINE c == Cost(n, r)
           m == n * r
           l == n * price
<1>1. c \in Nat /\ m \in Nat /\ l \in Nat /\ Scale \in Nat \ {0}
  BY CostNat, ParametersAssumption
<1>2. c * Scale <= m /\ m < c * Scale + Scale
  <2>1. c = m \div Scale  BY DEF Cost
  <2> HIDE DEF c, m
  <2> QED  BY <1>1, <2>1
<1>3. r <= price => m <= l
  <2>1. r <= price => r * n <= price * n  BY ProductGrows
  <2>2. r * n = m /\ price * n = l  OBVIOUS
  <2> QED  BY <2>1, <2>2
<1>4. r >= price => l <= m
  <2>1. r >= price => price * n <= r * n  BY ProductGrows
  <2>2. r * n = m /\ price * n = l  OBVIOUS
  <2> QED  BY <2>1, <2>2
<1>5. c * Scale \in Nat  BY <1>1
<1> HIDE DEF c, m, l
<1>6. /\ r <= price => c * Scale <= l
      /\ r >= price => c * Scale >= l - Scale
  BY <1>1, <1>2, <1>3, <1>4, <1>5
<1> QED  BY <1>1, <1>6 DEF c, l

LEMMA PriceStaysKept ==
  ASSUME NEW m \in Int, NEW t \in Int, NEW price \in Nat, NEW k \in Nat,
         NEW p \in Nat, NEW n \in Nat, PriceKept(m, t, price, k)
  PROVE  /\ taker.side = "Buy" /\ p * Scale <= n * price
              => PriceKept(m - p, t + n, price, k + 1)
         /\ taker.side = "Sell" /\ p * Scale >= n * price - Scale
              => PriceKept(m + p, t - n, price, k + 1)
<1>1. Scale \in Nat  BY ParametersAssumption
<1>2. /\ (m - p) * Scale = m * Scale - p * Scale
      /\ (m + p) * Scale = m * Scale + p * Scale
      /\ (t + n) * price = t * price + n * price
      /\ (t - n) * price = t * price - n * price
      /\ Scale * (k + 1) = Scale * k + Scale
      /\ m * Scale \in Int /\ p * Scale \in Int /\ t * price \in Int /\ n * price \in Int
      /\ Scale * k \in Int
  BY <1>1
<1>3. ASSUME taker.side = "Buy", p * Scale <= n * price
      PROVE  PriceKept(m - p, t + n, price, k + 1)
  <2>1. -(m * Scale) <= t * price  BY <1>3 DEF PriceKept
  <2>2. -((m - p) * Scale) <= (t + n) * price  BY <1>2, <1>3, <2>1
  <2> QED  BY <1>3, <2>2 DEF PriceKept
<1>4. ASSUME taker.side = "Sell", p * Scale >= n * price - Scale
      PROVE  PriceKept(m + p, t - n, price, k + 1)
  <2>1. m * Scale >= -(t * price) - Scale * k  BY <1>4 DEF PriceKept
  <2>2. (m + p) * Scale >= -((t - n) * price) - Scale * (k + 1)
    <3> DEFINE a == m * Scale  b == p * Scale  c == t * price  d == n * price  e == Scale * k
    <3>1. /\ (m + p) * Scale = a + b /\ (t - n) * price = c - d
          /\ Scale * (k + 1) = e + Scale
          /\ a \in Int /\ b \in Int /\ c \in Int /\ d \in Int /\ e \in Int
      BY <1>2
    <3>2. a >= -c - e /\ b >= d - Scale  BY <1>4, <2>1
    <3> HIDE DEF a, b, c, d, e
    <3>3. a + b >= -(c - d) - (e + Scale)  BY <1>1, <3>1, <3>2
    <3> QED  BY <3>1, <3>3
  <2> QED  BY <1>4, <2>2 DEF PriceKept
<1> QED  BY <1>3, <1>4

LEMMA PartiesDiffer ==
  ASSUME NEW v \in Users, v # signer, taker.side \in Sides, signer \in Users
  PROVE  /\ taker.side = "Buy" => signer \in Buyers /\ v \notin Buyers
         /\ taker.side = "Sell" => signer \notin Buyers /\ v \in Buyers
BY DEF Buyers, Sides

LEMMA LimitFillBuySwaps ==
  ASSUME TypeOK, TypeOK', LimitFillBuy
  PROVE  Swaps(signer, maker.user_key, LimitPaid, LimitQty)
<1>1. LimitTrades /\ LimitAffords /\ LimitFill  BY DEF LimitFillBuy
<1>2. /\ ~MarketInFlight /\ ~MarketInFlight'
      /\ UNCHANGED <<wallet_collateral, wallet_token>>
  BY <1>1, LimitTradeTyped DEF LimitFill, MarketInFlight, funds
<1>3. /\ signer \in Users /\ token \in Tokens /\ maker.user_key \in Users
      /\ maker.user_key # signer
      /\ LimitQty \in Nat /\ LimitPaid \in Nat /\ LockedAtOurPrice \in Nat
  BY <1>1, LimitTradeTyped, TakerTyped
<1>4. Balances  BY AccountsTyped DEF TypeOK
<1>5. /\ wallet_collateral \in [Users -> Nat] /\ locked_collateral \in [Users -> Nat]
      /\ claimable_collateral \in [Users -> Nat]
      /\ wallet_token \in TokenTable /\ locked_token \in TokenTable
      /\ claimable_token \in TokenTable
  BY <1>4 DEF Balances, TokenTable
<1>6. ASSUME NEW v \in Users
      PROVE  CashDue(v) = 0 /\ CashDue(v)' = 0 /\ GoodsDue(v) = 0 /\ GoodsDue(v)' = 0
  BY <1>2 DEF CashDue, GoodsDue, Earned, Spent, Bought, Sold
<1> DEFINE seller == maker.user_key
           surplus == LockedAtOurPrice - LimitPaid
           n == LimitQty
           p == LimitPaid
<1>7. /\ surplus \in Nat /\ LockedAtOurPrice = surplus + p
      /\ Of(locked_token, seller, token) >= n
  BY <1>1, <1>3 DEF Of, LimitAffords, MakerAffords, LimitFillBuy
<1>8. /\ locked_collateral' = Minus(locked_collateral, signer, LockedAtOurPrice)
      /\ locked_token' = Lose(locked_token, seller, token, n)
      /\ claimable_token' = Gain(claimable_token, signer, token, n)
  BY DEF LimitFillBuy, Minus, Gain, Lose
<1>9. claimable_collateral' = Plus(Plus(claimable_collateral, signer, surplus), seller, p)
  BY <1>3, <1>5 DEF LimitFillBuy, Plus
<1>10. seller \in Users /\ seller # signer /\ n \in Nat /\ p \in Nat  BY <1>3
<1> HIDE DEF seller, surplus, n, p
<1>11. Plus(claimable_collateral, signer, surplus) \in [Users -> Nat]
  BY <1>3, <1>5, <1>7, PlusTyped
<1>12. ASSUME NEW v \in Users
       PROVE  /\ v = signer => Cash(v)' = Cash(v) - p /\ Goods(v)' = Goods(v) + n
              /\ v = seller => Cash(v)' = Cash(v) + p /\ Goods(v)' = Goods(v) - n
              /\ v # signer /\ v # seller => Cash(v)' = Cash(v) /\ Goods(v)' = Goods(v)
  <2>1. /\ locked_collateral[v] \in Nat
        /\ v = signer => locked_collateral'[v] = locked_collateral[v] - (surplus + p)
        /\ v # signer => locked_collateral'[v] = locked_collateral[v]
    BY <1>3, <1>5, <1>7, <1>8, MinusAt
  <2>2. /\ claimable_collateral[v] \in Nat
        /\ v = signer => claimable_collateral'[v] = claimable_collateral[v] + surplus
        /\ v = seller => claimable_collateral'[v] = claimable_collateral[v] + p
        /\ v # signer /\ v # seller => claimable_collateral'[v] = claimable_collateral[v]
    <3> DEFINE half == Plus(claimable_collateral, signer, surplus)
    <3>1. /\ claimable_collateral[v] \in Nat
          /\ v = signer => half[v] = claimable_collateral[v] + surplus
          /\ v # signer => half[v] = claimable_collateral[v]
      BY <1>3, <1>5, <1>7, PlusAt
    <3>2. half \in [Users -> Nat] /\ claimable_collateral' = Plus(half, seller, p)
      BY <1>9, <1>11
    <3> HIDE DEF half
    <3>3. /\ v = seller => Plus(half, seller, p)[v] = half[v] + p
          /\ v # seller => Plus(half, seller, p)[v] = half[v]
      BY <1>10, <3>2, PlusAt
    <3> QED  BY <1>10, <3>1, <3>2, <3>3
  <2>3. wallet_collateral[v] \in Nat /\ wallet_collateral' = wallet_collateral
    BY <1>2, <1>5
  <2>4. /\ Cash(v) = wallet_collateral[v] + locked_collateral[v] + claimable_collateral[v]
        /\ Cash(v)' = wallet_collateral[v] + locked_collateral'[v] + claimable_collateral'[v]
    BY <2>3 DEF Cash, Purse
  <2>5. /\ v = signer => Cash(v)' = Cash(v) - p
        /\ v = seller => Cash(v)' = Cash(v) + p
        /\ v # signer /\ v # seller => Cash(v)' = Cash(v)
    BY <1>7, <1>10, <2>1, <2>2, <2>3, <2>4
  <2>6. /\ Owned(locked_token, v) \in Nat
        /\ v = seller => Owned(locked_token', v) = Owned(locked_token, v) - n
        /\ v # seller => Owned(locked_token', v) = Owned(locked_token, v)
    BY <1>3, <1>5, <1>7, <1>8, <1>10, RowMoves
  <2>7. /\ Owned(claimable_token, v) \in Nat
        /\ v = signer => Owned(claimable_token', v) = Owned(claimable_token, v) + n
        /\ v # signer => Owned(claimable_token', v) = Owned(claimable_token, v)
    BY <1>3, <1>5, <1>8, <1>10, RowMoves
  <2>8. Owned(wallet_token, v) \in Nat /\ wallet_token' = wallet_token
    BY <1>2, <1>3, <1>5, <1>10, RowMoves
  <2>9. /\ Goods(v) = Owned(wallet_token, v) + Owned(locked_token, v) + Owned(claimable_token, v)
        /\ Goods(v)' = Owned(wallet_token, v) + Owned(locked_token', v)
                         + Owned(claimable_token', v)
    BY <2>8 DEF Goods, Bag
  <2>10. /\ v = signer => Goods(v)' = Goods(v) + n
         /\ v = seller => Goods(v)' = Goods(v) - n
         /\ v # signer /\ v # seller => Goods(v)' = Goods(v)
    BY <1>10, <2>6, <2>7, <2>8, <2>9
  <2> QED  BY <2>5, <2>10
<1>13. ASSUME NEW v \in Users PROVE Cash(v) \in Nat /\ Cash(v)' \in Nat /\ Goods(v) \in Nat /\ Goods(v)' \in Nat
  BY GainsTyped, GainsTypedNext DEF GainsInt
<1>14. Swaps(signer, seller, p, n)
  <2> SUFFICES ASSUME NEW v \in Users
               PROVE  /\ v = signer => /\ Cash(v)' + CashDue(v)' = Cash(v) + CashDue(v) - p
                                       /\ Goods(v)' + GoodsDue(v)' = Goods(v) + GoodsDue(v) + n
                      /\ v = seller => /\ Cash(v)' + CashDue(v)' = Cash(v) + CashDue(v) + p
                                       /\ Goods(v)' + GoodsDue(v)' = Goods(v) + GoodsDue(v) - n
                      /\ v # signer /\ v # seller =>
                           /\ Cash(v)' + CashDue(v)' = Cash(v) + CashDue(v)
                           /\ Goods(v)' + GoodsDue(v)' = Goods(v) + GoodsDue(v)
    BY DEF Swaps
  <2>1. CashDue(v) = 0 /\ CashDue(v)' = 0 /\ GoodsDue(v) = 0 /\ GoodsDue(v)' = 0  BY <1>6
  <2>2. Cash(v) \in Nat /\ Cash(v)' \in Nat /\ Goods(v) \in Nat /\ Goods(v)' \in Nat  BY <1>13
  <2> QED  BY <1>10, <1>12, <2>1, <2>2
<1> QED  BY <1>14 DEF seller, p, n

LEMMA LimitFillSellSwaps ==
  ASSUME TypeOK, TypeOK', LimitFillSell
  PROVE  Swaps(maker.user_key, signer, LimitPaid, LimitQty)
<1>1. LimitTrades /\ LimitAffords /\ LimitFill  BY DEF LimitFillSell
<1>2. /\ ~MarketInFlight /\ ~MarketInFlight'
      /\ UNCHANGED <<wallet_collateral, wallet_token>>
  BY <1>1, LimitTradeTyped DEF LimitFill, MarketInFlight, funds
<1>3. /\ signer \in Users /\ token \in Tokens /\ maker.user_key \in Users
      /\ maker.user_key # signer /\ LimitQty \in Nat /\ LimitPaid \in Nat
  BY <1>1, LimitTradeTyped, TakerTyped
<1>4. Balances  BY AccountsTyped DEF TypeOK
<1>5. /\ wallet_collateral \in [Users -> Nat] /\ locked_collateral \in [Users -> Nat]
      /\ claimable_collateral \in [Users -> Nat]
      /\ wallet_token \in TokenTable /\ locked_token \in TokenTable
      /\ claimable_token \in TokenTable
  BY <1>4 DEF Balances, TokenTable
<1> DEFINE buyer == maker.user_key
           n == LimitQty
           p == LimitPaid
<1>6. Of(locked_token, signer, token) >= n
  BY <1>1 DEF LimitAffords, LimitFillSell, Of
<1>7. /\ locked_collateral' = Minus(locked_collateral, buyer, p)
      /\ claimable_collateral' = Plus(claimable_collateral, signer, p)
      /\ locked_token' = Lose(locked_token, signer, token, n)
      /\ claimable_token' = Gain(claimable_token, buyer, token, n)
  BY DEF LimitFillSell, Plus, Minus, Gain, Lose
<1>8. buyer \in Users /\ buyer # signer /\ n \in Nat /\ p \in Nat  BY <1>3
<1> HIDE DEF buyer, n, p
<1>9. Swaps(buyer, signer, p, n)
  <2> SUFFICES ASSUME NEW v \in Users
               PROVE  /\ v = buyer => /\ Cash(v)' + CashDue(v)' = Cash(v) + CashDue(v) - p
                                      /\ Goods(v)' + GoodsDue(v)' = Goods(v) + GoodsDue(v) + n
                      /\ v = signer => /\ Cash(v)' + CashDue(v)' = Cash(v) + CashDue(v) + p
                                       /\ Goods(v)' + GoodsDue(v)' = Goods(v) + GoodsDue(v) - n
                      /\ v # buyer /\ v # signer =>
                           /\ Cash(v)' + CashDue(v)' = Cash(v) + CashDue(v)
                           /\ Goods(v)' + GoodsDue(v)' = Goods(v) + GoodsDue(v)
    BY DEF Swaps
  <2>1. CashDue(v) = 0 /\ CashDue(v)' = 0 /\ GoodsDue(v) = 0 /\ GoodsDue(v)' = 0
    BY <1>2 DEF CashDue, GoodsDue, Earned, Spent, Bought, Sold
  <2>2. /\ locked_collateral[v] \in Nat
        /\ v = buyer => locked_collateral'[v] = locked_collateral[v] - p
        /\ v # buyer => locked_collateral'[v] = locked_collateral[v]
    <3>1. /\ locked_collateral[v] \in Nat
          /\ v = buyer => Minus(locked_collateral, buyer, p)[v] = locked_collateral[v] - p
          /\ v # buyer => Minus(locked_collateral, buyer, p)[v] = locked_collateral[v]
      BY <1>5, <1>8, MinusAt
    <3> QED  BY <1>7, <3>1
  <2>3. /\ claimable_collateral[v] \in Nat
        /\ v = signer => claimable_collateral'[v] = claimable_collateral[v] + p
        /\ v # signer => claimable_collateral'[v] = claimable_collateral[v]
    BY <1>3, <1>5, <1>7, <1>8, PlusAt
  <2>4. /\ wallet_collateral[v] \in Nat
        /\ Cash(v) = wallet_collateral[v] + locked_collateral[v] + claimable_collateral[v]
        /\ Cash(v)' = wallet_collateral[v] + locked_collateral'[v] + claimable_collateral'[v]
    BY <1>2, <1>5 DEF Cash, Purse
  <2>5. /\ Owned(locked_token, v) \in Nat
        /\ v = signer => Owned(locked_token', v) = Owned(locked_token, v) - n
        /\ v # signer => Owned(locked_token', v) = Owned(locked_token, v)
    BY <1>3, <1>5, <1>6, <1>7, <1>8, RowMoves
  <2>6. /\ Owned(claimable_token, v) \in Nat
        /\ v = buyer => Owned(claimable_token', v) = Owned(claimable_token, v) + n
        /\ v # buyer => Owned(claimable_token', v) = Owned(claimable_token, v)
    BY <1>3, <1>5, <1>7, <1>8, RowMoves
  <2>7. Owned(wallet_token, v) \in Nat  BY <1>3, <1>5, <1>8, RowMoves
  <2>8. /\ Goods(v) = Owned(wallet_token, v) + Owned(locked_token, v) + Owned(claimable_token, v)
        /\ Goods(v)' = Owned(wallet_token, v) + Owned(locked_token', v)
                         + Owned(claimable_token', v)
    BY <1>2 DEF Goods, Bag
  <2>9. CASE v = buyer  BY <1>8, <2>1, <2>2, <2>3, <2>4, <2>5, <2>6, <2>7, <2>8, <2>9
  <2>10. CASE v = signer  BY <1>8, <2>1, <2>2, <2>3, <2>4, <2>5, <2>6, <2>7, <2>8, <2>10
  <2>11. CASE v # buyer /\ v # signer
    BY <1>8, <2>1, <2>2, <2>3, <2>4, <2>5, <2>6, <2>7, <2>8, <2>11
  <2> QED  BY <2>9, <2>10, <2>11
<1> QED  BY <1>9 DEF buyer, n, p

LEMMA MarketFillBuySwaps ==
  ASSUME TypeOK, TypeOK', MarketFillBuy
  PROVE  Swaps(signer, maker.user_key, MarketPaid, MarketQty)
<1>1. MarketTrades /\ MarketAffords /\ MarketFill
  BY DEF MarketFillBuy, MarketFill
<1>2. /\ pc = "market" /\ pc' = "market" /\ MarketInFlight /\ MarketInFlight'
      /\ UNCHANGED <<wallet_collateral, wallet_token, taker>>
      /\ token' = token /\ signer' = signer
  BY <1>1, MarketTradeTyped DEF MarketFill, MarketInFlight, funds, token, signer
<1>3. /\ signer \in Users /\ token \in Tokens /\ maker.user_key \in Users
      /\ maker.user_key # signer /\ MarketQty \in Nat /\ MarketPaid \in Nat
      /\ taker.quantity \in Nat /\ remaining_amount \in Nat /\ fullfilled_qty \in Nat
  BY <1>1, MarketTradeTyped, TakerTyped DEF TypeOK
<1>4. Balances  BY AccountsTyped DEF TypeOK
<1>5. /\ wallet_collateral \in [Users -> Nat] /\ locked_collateral \in [Users -> Nat]
      /\ claimable_collateral \in [Users -> Nat]
      /\ wallet_token \in TokenTable /\ locked_token \in TokenTable
      /\ claimable_token \in TokenTable
  BY <1>4 DEF Balances, TokenTable
<1> DEFINE seller == maker.user_key
           n == MarketQty
           p == MarketPaid
<1>6. /\ taker.side = "Buy" /\ Of(locked_token, seller, token) >= n
      /\ remaining_amount' = remaining_amount - p
      /\ fullfilled_qty' = fullfilled_qty + n
      /\ claimable_collateral' = Plus(claimable_collateral, seller, p)
      /\ locked_token' = Lose(locked_token, seller, token, n)
      /\ UNCHANGED <<locked_collateral, claimable_token>>
  BY <1>1 DEF MarketFillBuy, MarketAffords, MakerAffords, Of, Plus, Lose
<1>7. /\ Earned = 0 /\ Earned' = 0 /\ Spent = taker.quantity - remaining_amount
      /\ Spent' = taker.quantity - (remaining_amount - p)
      /\ Sold(token) = 0 /\ Sold(token)' = 0
      /\ Bought(token) = fullfilled_qty /\ Bought(token)' = fullfilled_qty + n
  BY <1>2, <1>6 DEF Earned, Spent, Sold, Bought
<1>8. seller \in Users /\ seller # signer /\ n \in Nat /\ p \in Nat  BY <1>3
<1> HIDE DEF seller, n, p
<1>9. Swaps(signer, seller, p, n)
  <2> SUFFICES ASSUME NEW v \in Users
               PROVE  /\ v = signer => /\ Cash(v)' + CashDue(v)' = Cash(v) + CashDue(v) - p
                                       /\ Goods(v)' + GoodsDue(v)' = Goods(v) + GoodsDue(v) + n
                      /\ v = seller => /\ Cash(v)' + CashDue(v)' = Cash(v) + CashDue(v) + p
                                       /\ Goods(v)' + GoodsDue(v)' = Goods(v) + GoodsDue(v) - n
                      /\ v # signer /\ v # seller =>
                           /\ Cash(v)' + CashDue(v)' = Cash(v) + CashDue(v)
                           /\ Goods(v)' + GoodsDue(v)' = Goods(v) + GoodsDue(v)
    BY DEF Swaps
  <2>1. /\ v = signer => /\ CashDue(v) = Earned - Spent /\ CashDue(v)' = Earned' - Spent'
                         /\ GoodsDue(v) = Bought(token) - Sold(token)
                         /\ GoodsDue(v)' = Bought(token)' - Sold(token)'
        /\ v # signer => CashDue(v) = 0 /\ CashDue(v)' = 0 /\ GoodsDue(v) = 0 /\ GoodsDue(v)' = 0
    BY <1>2 DEF CashDue, GoodsDue
  <2>2. /\ claimable_collateral[v] \in Nat
        /\ v = seller => claimable_collateral'[v] = claimable_collateral[v] + p
        /\ v # seller => claimable_collateral'[v] = claimable_collateral[v]
    BY <1>5, <1>6, <1>8, PlusAt
  <2>3. /\ wallet_collateral[v] \in Nat /\ locked_collateral[v] \in Nat
        /\ Cash(v) = wallet_collateral[v] + locked_collateral[v] + claimable_collateral[v]
        /\ Cash(v)' = wallet_collateral[v] + locked_collateral[v] + claimable_collateral'[v]
    BY <1>2, <1>5, <1>6 DEF Cash, Purse
  <2>4. /\ Owned(locked_token, v) \in Nat
        /\ v = seller => Owned(locked_token', v) = Owned(locked_token, v) - n
        /\ v # seller => Owned(locked_token', v) = Owned(locked_token, v)
    BY <1>3, <1>5, <1>6, <1>8, RowMoves
  <2>5. Owned(wallet_token, v) \in Nat /\ Owned(claimable_token, v) \in Nat
    BY <1>3, <1>5, <1>8, RowMoves
  <2>6. /\ Goods(v) = Owned(wallet_token, v) + Owned(locked_token, v) + Owned(claimable_token, v)
        /\ Goods(v)' = Owned(wallet_token, v) + Owned(locked_token', v)
                         + Owned(claimable_token, v)
    BY <1>2, <1>6 DEF Goods, Bag
  <2>7. CASE v = signer
    BY <1>3, <1>7, <1>8, <2>1, <2>2, <2>3, <2>4, <2>5, <2>6, <2>7
  <2>8. CASE v = seller
    BY <1>8, <2>1, <2>2, <2>3, <2>4, <2>5, <2>6, <2>8
  <2>9. CASE v # signer /\ v # seller
    BY <2>1, <2>2, <2>3, <2>4, <2>5, <2>6, <2>9
  <2> QED  BY <2>7, <2>8, <2>9
<1> QED  BY <1>9 DEF seller, n, p

LEMMA MarketFillSellSwaps ==
  ASSUME TypeOK, TypeOK', MarketFillSell
  PROVE  Swaps(maker.user_key, signer, MarketPaid, MarketQty)
<1>1. MarketTrades /\ MarketAffords /\ MarketFill
  BY DEF MarketFillSell, MarketFill
<1>2. /\ pc = "market" /\ pc' = "market" /\ MarketInFlight /\ MarketInFlight'
      /\ UNCHANGED <<wallet_collateral, wallet_token, taker>>
      /\ token' = token /\ signer' = signer
  BY <1>1, MarketTradeTyped DEF MarketFill, MarketInFlight, funds, token, signer
<1>3. /\ signer \in Users /\ token \in Tokens /\ maker.user_key \in Users
      /\ maker.user_key # signer /\ MarketQty \in Nat /\ MarketPaid \in Nat
      /\ taker.quantity \in Nat /\ remaining_amount \in Nat /\ fullfilled_qty \in Nat
  BY <1>1, MarketTradeTyped, TakerTyped DEF TypeOK
<1>4. Balances  BY AccountsTyped DEF TypeOK
<1>5. /\ wallet_collateral \in [Users -> Nat] /\ locked_collateral \in [Users -> Nat]
      /\ claimable_collateral \in [Users -> Nat]
      /\ wallet_token \in TokenTable /\ locked_token \in TokenTable
      /\ claimable_token \in TokenTable
  BY <1>4 DEF Balances, TokenTable
<1> DEFINE buyer == maker.user_key
           n == MarketQty
           p == MarketPaid
<1>6. /\ taker.side = "Sell"
      /\ remaining_amount' = remaining_amount - n
      /\ fullfilled_qty' = fullfilled_qty + p
      /\ locked_collateral' = Minus(locked_collateral, buyer, p)
      /\ claimable_token' = Gain(claimable_token, buyer, token, n)
      /\ UNCHANGED <<claimable_collateral, locked_token>>
  BY <1>1 DEF MarketFillSell, Minus, Gain
<1>7. /\ Spent = 0 /\ Spent' = 0 /\ Earned = fullfilled_qty
      /\ Earned' = fullfilled_qty + p
      /\ Bought(token) = 0 /\ Bought(token)' = 0
      /\ Sold(token) = taker.quantity - remaining_amount
      /\ Sold(token)' = taker.quantity - (remaining_amount - n)
  BY <1>2, <1>6 DEF Earned, Spent, Sold, Bought
<1>8. buyer \in Users /\ buyer # signer /\ n \in Nat /\ p \in Nat  BY <1>3
<1> HIDE DEF buyer, n, p
<1>9. Swaps(buyer, signer, p, n)
  <2> SUFFICES ASSUME NEW v \in Users
               PROVE  /\ v = buyer => /\ Cash(v)' + CashDue(v)' = Cash(v) + CashDue(v) - p
                                      /\ Goods(v)' + GoodsDue(v)' = Goods(v) + GoodsDue(v) + n
                      /\ v = signer => /\ Cash(v)' + CashDue(v)' = Cash(v) + CashDue(v) + p
                                       /\ Goods(v)' + GoodsDue(v)' = Goods(v) + GoodsDue(v) - n
                      /\ v # buyer /\ v # signer =>
                           /\ Cash(v)' + CashDue(v)' = Cash(v) + CashDue(v)
                           /\ Goods(v)' + GoodsDue(v)' = Goods(v) + GoodsDue(v)
    BY DEF Swaps
  <2>1. /\ v = signer => /\ CashDue(v) = Earned - Spent /\ CashDue(v)' = Earned' - Spent'
                         /\ GoodsDue(v) = Bought(token) - Sold(token)
                         /\ GoodsDue(v)' = Bought(token)' - Sold(token)'
        /\ v # signer => CashDue(v) = 0 /\ CashDue(v)' = 0 /\ GoodsDue(v) = 0 /\ GoodsDue(v)' = 0
    BY <1>2 DEF CashDue, GoodsDue
  <2>2. /\ locked_collateral[v] \in Nat
        /\ v = buyer => locked_collateral'[v] = locked_collateral[v] - p
        /\ v # buyer => locked_collateral'[v] = locked_collateral[v]
    <3>1. /\ locked_collateral[v] \in Nat
          /\ v = buyer => Minus(locked_collateral, buyer, p)[v] = locked_collateral[v] - p
          /\ v # buyer => Minus(locked_collateral, buyer, p)[v] = locked_collateral[v]
      BY <1>5, <1>8, MinusAt
    <3> QED  BY <1>6, <3>1
  <2>3. /\ wallet_collateral[v] \in Nat /\ claimable_collateral[v] \in Nat
        /\ Cash(v) = wallet_collateral[v] + locked_collateral[v] + claimable_collateral[v]
        /\ Cash(v)' = wallet_collateral[v] + locked_collateral'[v] + claimable_collateral[v]
    BY <1>2, <1>5, <1>6 DEF Cash, Purse
  <2>4. /\ Owned(claimable_token, v) \in Nat
        /\ v = buyer => Owned(claimable_token', v) = Owned(claimable_token, v) + n
        /\ v # buyer => Owned(claimable_token', v) = Owned(claimable_token, v)
    BY <1>3, <1>5, <1>6, <1>8, RowMoves
  <2>5. Owned(wallet_token, v) \in Nat /\ Owned(locked_token, v) \in Nat
    BY <1>3, <1>5, <1>8, RowMoves
  <2>6. /\ Goods(v) = Owned(wallet_token, v) + Owned(locked_token, v) + Owned(claimable_token, v)
        /\ Goods(v)' = Owned(wallet_token, v) + Owned(locked_token, v)
                         + Owned(claimable_token', v)
    BY <1>2, <1>6 DEF Goods, Bag
  <2>7. CASE v = buyer
    BY <1>8, <2>1, <2>2, <2>3, <2>4, <2>5, <2>6, <2>7
  <2>8. CASE v = signer
    BY <1>3, <1>7, <1>8, <2>1, <2>2, <2>3, <2>4, <2>5, <2>6, <2>8
  <2>9. CASE v # buyer /\ v # signer
    BY <2>1, <2>2, <2>3, <2>4, <2>5, <2>6, <2>9
  <2> QED  BY <2>7, <2>8, <2>9
<1> QED  BY <1>9 DEF buyer, n, p

LEMMA LimitFillExchange ==
  TypeOK /\ TypeOK' /\ ExchangeInv /\ (LimitFillBuy \/ LimitFillSell) => ExchangeInv'
<1> SUFFICES ASSUME TypeOK, TypeOK', ExchangeInv, LimitFillBuy \/ LimitFillSell
             PROVE  ExchangeInv'
  OBVIOUS
<1> DEFINE other == maker.user_key
           n == LimitQty
           p == LimitPaid
           price == taker.price
           m == MoneyGained[signer]
           t == TokensGained[signer]
           k == Len(fills)
<1>1. LimitTrades /\ LimitFill  BY DEF LimitFillBuy, LimitFillSell
<1>2. /\ pc = "limit" /\ pc' = "limit" /\ saved' = saved
      /\ taker'.user_key = taker.user_key /\ taker'.side = taker.side
      /\ taker'.price = taker.price
  <2>1. taker \in Order  BY DEF TypeOK
  <2> QED  BY <1>1, <2>1, LimitTradeTyped DEF LimitFill, Order
<1>3. signer' = signer /\ Buyers' = Buyers  BY <1>2 DEF signer, Buyers
<1>4. /\ signer \in Users /\ taker.side \in Sides /\ other \in Users /\ other # signer
      /\ n \in Nat \ {0} /\ p \in Nat \ {0} /\ price \in Nat /\ maker.price \in Nat
      /\ p = Cost(n, maker.price)
  <2>1. InLoop /\ LimitPaid > 0  BY <1>1, LimitTradeTyped DEF LimitTrades, LimitPaid
  <2> QED  BY <1>1, <2>1, LimitTradeTyped, MakerTyped, TakerTyped DEF LimitPaid
<1>5. /\ taker.side = "Buy" => p * Scale <= n * price
      /\ taker.side = "Sell" => p * Scale >= n * price - Scale
  <2>1. /\ taker.side = "Buy" => maker.price <= price
        /\ taker.side = "Sell" => maker.price >= price
    BY <1>1, <1>4 DEF LimitTrades, Eligible, PriceMatches
  <2>2. /\ maker.price <= price => Cost(n, maker.price) * Scale <= n * price
        /\ maker.price >= price => Cost(n, maker.price) * Scale >= n * price - Scale
    BY <1>4, FillPrice
  <2> QED  BY <1>4, <2>1, <2>2
<1>6. k \in Nat /\ Len(fills') = k + 1
  <2>1. fills \in Seq(Fill)  BY DEF TypeOK
  <2>2. \E f : fills' = Append(fills, f)  BY <1>1 DEF LimitFill, FillMaker
  <2> QED  BY <2>1, <2>2
<1>7. GainsInt /\ GainsInt'  BY GainsTyped, GainsTypedNext
<1>8. m \in Int /\ t \in Int  BY <1>4, <1>7 DEF GainsInt
<1>9. PriceKept(m, t, price, k) /\ Deal(MoneyGained, TokensGained, Buyers)
  BY <1>2 DEF ExchangeInv, LimitInFlight
<1>10. CASE LimitFillBuy
  <2>1. taker.side = "Buy" /\ signer \in Buyers /\ other \notin Buyers
    BY <1>4, <1>10, PartiesDiffer DEF LimitFillBuy
  <2>2. Swaps(signer, other, p, n)  BY <1>10, LimitFillBuySwaps
  <2> HIDE DEF other, n, p
  <2>3. /\ Deal(MoneyGained', TokensGained', Buyers')
        /\ MoneyGained'[signer] = m - p /\ TokensGained'[signer] = t + n
    BY <1>2, <1>3, <1>4, <1>7, <1>9, <2>1, <2>2, SwapExchange
  <2> HIDE DEF m, t, k, price
  <2>4. PriceKept(m - p, t + n, price, k + 1)
    BY <1>4, <1>5, <1>6, <1>8, <1>9, <2>1, PriceStaysKept
  <2>5. PriceKept(MoneyGained[signer], TokensGained[signer], taker.price, Len(fills))'
    BY <1>2, <1>3, <1>6, <2>3, <2>4 DEF PriceKept, price
  <2> QED  BY <1>2, <2>3, <2>5 DEF ExchangeInv
<1>11. CASE LimitFillSell
  <2>1. taker.side = "Sell" /\ other \in Buyers /\ signer \notin Buyers
    BY <1>4, <1>11, PartiesDiffer DEF LimitFillSell
  <2>2. Swaps(other, signer, p, n)  BY <1>11, LimitFillSellSwaps
  <2> HIDE DEF other, n, p
  <2>3. /\ Deal(MoneyGained', TokensGained', Buyers')
        /\ MoneyGained'[signer] = m + p /\ TokensGained'[signer] = t - n
    BY <1>2, <1>3, <1>4, <1>7, <1>9, <2>1, <2>2, SwapExchange
  <2> HIDE DEF m, t, k, price
  <2>4. PriceKept(m + p, t - n, price, k + 1)
    BY <1>4, <1>5, <1>6, <1>8, <1>9, <2>1, PriceStaysKept
  <2>5. PriceKept(MoneyGained[signer], TokensGained[signer], taker.price, Len(fills))'
    BY <1>2, <1>3, <1>6, <2>3, <2>4 DEF PriceKept, price
  <2> QED  BY <1>2, <2>3, <2>5 DEF ExchangeInv
<1> QED  BY <1>10, <1>11

LEMMA MarketFillExchange ==
  TypeOK /\ TypeOK' /\ ExchangeInv /\ (MarketFillBuy \/ MarketFillSell) => ExchangeInv'
<1> SUFFICES ASSUME TypeOK, TypeOK', ExchangeInv, MarketFillBuy \/ MarketFillSell
             PROVE  ExchangeInv'
  OBVIOUS
<1> DEFINE other == maker.user_key
           n == MarketQty
           p == MarketPaid
<1>1. MarketTrades /\ MarketFill  BY DEF MarketFillBuy, MarketFillSell, MarketFill
<1>2. /\ pc' = "market" /\ saved' = saved /\ Buyers' = Buyers /\ ~LimitInFlight'
  BY <1>1, MarketTradeTyped DEF MarketFill, Buyers, signer, LimitInFlight
<1>3. /\ signer \in Users /\ taker.side \in Sides /\ other \in Users /\ other # signer
      /\ n \in Nat \ {0} /\ p \in Nat \ {0}
  <2>1. MarketPaid > 0  BY <1>1 DEF MarketTrades, MarketPaid
  <2> QED  BY <1>1, <2>1, MarketTradeTyped, TakerTyped
<1>4. GainsInt /\ GainsInt' /\ Deal(MoneyGained, TokensGained, Buyers)
  BY GainsTyped, GainsTypedNext DEF ExchangeInv
<1>5. CASE MarketFillBuy
  <2>1. signer \in Buyers /\ other \notin Buyers
    BY <1>3, <1>5, PartiesDiffer DEF MarketFillBuy
  <2>2. Swaps(signer, other, p, n)  BY <1>5, MarketFillBuySwaps
  <2> HIDE DEF other, n, p
  <2>3. Deal(MoneyGained', TokensGained', Buyers')
    BY <1>2, <1>3, <1>4, <2>1, <2>2, SwapExchange
  <2> QED  BY <1>2, <2>3 DEF ExchangeInv
<1>6. CASE MarketFillSell
  <2>1. other \in Buyers /\ signer \notin Buyers
    BY <1>3, <1>6, PartiesDiffer DEF MarketFillSell
  <2>2. Swaps(other, signer, p, n)  BY <1>6, MarketFillSellSwaps
  <2> HIDE DEF other, n, p
  <2>3. Deal(MoneyGained', TokensGained', Buyers')
    BY <1>2, <1>3, <1>4, <2>1, <2>2, SwapExchange
  <2> QED  BY <1>2, <2>3 DEF ExchangeInv
<1> QED  BY <1>5, <1>6

LEMMA ExchangeStep == TypeOK /\ TypeOK' /\ ExchangeInv /\ [Next]_vars => ExchangeInv'
<1> SUFFICES ASSUME TypeOK, TypeOK', ExchangeInv, [Next]_vars PROVE ExchangeInv'
  OBVIOUS
<1>1. CASE Begin  BY <1>1, BeginExchange
<1>2. CASE LimitPasses \/ MarketPasses
  BY <1>2, ExchangeStays DEF LimitPasses, MarketPasses, LimitLooksAt, MarketLooksAt, PassOver,
     funds, MarketInFlight, LimitInFlight, proceeds
<1>3. CASE LimitFillBuy \/ LimitFillSell  BY <1>3, LimitFillExchange
<1>4. CASE MarketFillBuy \/ MarketFillSell  BY <1>4, MarketFillExchange
<1>5. CASE LimitLoopEnds \/ MarketLoopEnds
  BY <1>5, ExchangeStays DEF LimitLoopEnds, MarketLoopEnds, funds, MarketInFlight,
     LimitInFlight, proceeds
<1>6. CASE LimitFilled \/ LimitRests \/ LimitReleasesBuy \/ LimitReleasesSell
           \/ MarketSettlesBuy \/ MarketSettlesSell
  <2>1. Commit  BY <1>6 DEF LimitFilled, LimitRests, LimitReleasesBuy, LimitReleasesSell,
                            MarketSettlesBuy, MarketSettlesSell
  <2> QED  BY <2>1, CommitExchange
<1>7. CASE Fails  BY <1>7, RollbackExchange DEF Fails
<1>8. CASE Tick \/ SetWinningSide \/ UNCHANGED vars
  BY <1>8, ExchangeStays DEF Tick, SetWinningSide, vars, funds, MarketInFlight,
     LimitInFlight, proceeds
<1> QED
  BY <1>1, <1>2, <1>3, <1>4, <1>5, <1>6, <1>7, <1>8 DEF Next, Step

LEMMA ExchangeInit == Init => ExchangeInv
<1> SUFFICES ASSUME Init PROVE ExchangeInv  OBVIOUS
<1>1. /\ pc = "idle" /\ ~MarketInFlight /\ ~LimitInFlight
  BY DEF Init, MarketInFlight, LimitInFlight
<1>2. Balanced  BY DEF Init, Accounts, Balanced
<1>3. ASSUME NEW v \in Users PROVE MoneyGained[v] = 0 /\ TokensGained[v] = 0
  <2>1. TypeOK  BY TypeInit
  <2>2. /\ CashBefore(v) = Cash(v) /\ GoodsBefore(v) = Goods(v)
        /\ Cash(v) \in Nat /\ Goods(v) \in Nat
    BY <1>2, <2>1, GainsTyped DEF Balanced, Cash, CashBefore, Goods, GoodsBefore, GainsInt
  <2>3. CashDue(v) = 0 /\ GoodsDue(v) = 0
    BY <1>1 DEF CashDue, GoodsDue, Earned, Spent, Bought, Sold
  <2> QED  BY <2>2, <2>3, GainsAre
<1>4. Deal(MoneyGained, TokensGained, Buyers)
  <2>1. MoneyGained \in [Users -> Int] /\ TokensGained \in [Users -> Int]
    BY TypeInit, GainsTyped DEF GainsInt
  <2> QED  BY <1>3, <2>1, NoDeal
<1> QED  BY <1>1, <1>2, <1>4 DEF ExchangeInv

-----------------------------------------------------------------------------
(* What a committed instruction has exchanged *)

Commits ==
  \/ LimitFilled \/ LimitRests \/ LimitReleasesBuy \/ LimitReleasesSell
  \/ MarketSettlesBuy \/ MarketSettlesSell

LEMMA OnlyCommitsSave == TypeOK /\ [Next]_vars /\ saved' # saved => Commits
BY DEF Next, Step, Commits, vars, Begin, PlaceOrder, MarketOrder, LimitPasses, MarketPasses,
       PassOver, LimitFillBuy, LimitFillSell, LimitFill, MarketFillBuy, MarketFillSell,
       MarketFill, LimitLoopEnds, MarketLoopEnds, Fails, Rollback, Tick, SetWinningSide

\* The last step pays the taker of a market order what it is due, and nothing else.
LEMMA CommitPays ==
  ASSUME TypeOK, TypeOK', Commits, NEW v \in Users
  PROVE  Cash(v)' = Cash(v) + CashDue(v) /\ Goods(v)' = Goods(v) + GoodsDue(v)
<1>1. Balances  BY AccountsTyped DEF TypeOK
<1>2. /\ wallet_collateral \in [Users -> Nat] /\ locked_collateral \in [Users -> Nat]
      /\ claimable_collateral \in [Users -> Nat]
      /\ wallet_token \in TokenTable /\ locked_token \in TokenTable
      /\ claimable_token \in TokenTable
  BY <1>1 DEF Balances, TokenTable
<1>3. /\ signer \in Users /\ token \in Tokens /\ taker.quantity \in Nat
      /\ remaining_amount \in Nat /\ fullfilled_qty \in Nat
  BY TakerTyped DEF TypeOK
<1>4. /\ wallet_collateral[v] \in Nat /\ locked_collateral[v] \in Nat
      /\ claimable_collateral[v] \in Nat
      /\ Cash(v) = wallet_collateral[v] + locked_collateral[v] + claimable_collateral[v]
      /\ Cash(v)' = wallet_collateral'[v] + locked_collateral'[v] + claimable_collateral'[v]
  BY <1>2 DEF Cash, Purse
<1>5. /\ Owned(wallet_token, v) \in Nat /\ Owned(locked_token, v) \in Nat
      /\ Owned(claimable_token, v) \in Nat
      /\ Goods(v) = Owned(wallet_token, v) + Owned(locked_token, v) + Owned(claimable_token, v)
      /\ Goods(v)' = Owned(wallet_token', v) + Owned(locked_token', v)
                       + Owned(claimable_token', v)
  <2>1. \A t \in TokenTable : Owned(t, v) \in Nat
    <3>1. 0 \in Nat  OBVIOUS
    <3> QED  BY <1>3, <3>1, RowMoves
  <2> QED  BY <1>2, <2>1 DEF Goods, Bag
<1>6. ~MarketInFlight => CashDue(v) = 0 /\ GoodsDue(v) = 0
  BY DEF CashDue, GoodsDue, Earned, Spent, Bought, Sold
<1>7. CASE LimitFilled \/ LimitRests
  <2>1. ~MarketInFlight /\ UNCHANGED <<stats, wallet_collateral, wallet_token>>
    BY <1>7 DEF LimitFilled, LimitRests, MarketInFlight, funds
  <2>2. Cash(v)' = Cash(v)  BY <2>1 DEF Cash, stats
  <2>3. Goods(v)' = Goods(v)  BY <2>1 DEF Goods, stats
  <2> QED  BY <1>4, <1>5, <1>6, <2>1, <2>2, <2>3
<1>8. CASE LimitReleasesBuy
  <2> DEFINE n == UnfilledCollateral
  <2>1. /\ ~MarketInFlight /\ UNCHANGED <<wallet_collateral, wallet_token,
                                          locked_token, claimable_token>>
        /\ locked_collateral' = Minus(locked_collateral, signer, n)
        /\ claimable_collateral' = Plus(claimable_collateral, signer, n)
    BY <1>8 DEF LimitReleasesBuy, Releases, MarketInFlight, funds, Plus, Minus
  <2>2. n \in Nat
    <3>1. Left(taker) \in Nat  BY <1>8, TakerTyped DEF LimitReleasesBuy, Releases, Left
    <3> QED  BY <3>1, CostNat, TakerTyped DEF UnfilledCollateral
  <2> HIDE DEF n
  <2>3. /\ locked_collateral[v] \in Nat
        /\ v = signer => Minus(locked_collateral, signer, n)[v] = locked_collateral[v] - n
        /\ v # signer => Minus(locked_collateral, signer, n)[v] = locked_collateral[v]
    BY <1>2, <1>3, <2>2, MinusAt
  <2>4. /\ v = signer => Plus(claimable_collateral, signer, n)[v] = claimable_collateral[v] + n
        /\ v # signer => Plus(claimable_collateral, signer, n)[v] = claimable_collateral[v]
    BY <1>2, <1>3, <2>2, PlusAt
  <2>5. Cash(v)' = Cash(v)  BY <1>4, <2>1, <2>2, <2>3, <2>4
  <2>6. Goods(v)' = Goods(v)  BY <2>1 DEF Goods
  <2> QED  BY <1>4, <1>5, <1>6, <2>1, <2>5, <2>6
<1>9. CASE LimitReleasesSell
  <2> DEFINE n == Left(taker)
  <2>1. /\ ~MarketInFlight /\ UNCHANGED <<wallet_collateral, wallet_token,
                                          locked_collateral, claimable_collateral>>
        /\ locked_token' = Lose(locked_token, signer, token, n)
        /\ claimable_token' = Gain(claimable_token, signer, token, n)
        /\ Of(locked_token, signer, token) >= n
    BY <1>9 DEF LimitReleasesSell, Releases, ReleaseAffords, MarketInFlight, funds,
                Gain, Lose, Of
  <2>2. n \in Nat  BY <1>9, TakerTyped DEF LimitReleasesSell, Releases, Left
  <2> HIDE DEF n
  <2>3. /\ v = signer => Owned(locked_token', v) = Owned(locked_token, v) - n
        /\ v # signer => Owned(locked_token', v) = Owned(locked_token, v)
    BY <1>2, <1>3, <2>1, <2>2, RowMoves
  <2>4. /\ v = signer => Owned(claimable_token', v) = Owned(claimable_token, v) + n
        /\ v # signer => Owned(claimable_token', v) = Owned(claimable_token, v)
    BY <1>2, <1>3, <2>1, <2>2, RowMoves
  <2>5. Goods(v)' = Goods(v)  BY <1>5, <2>1, <2>2, <2>3, <2>4
  <2>6. Cash(v)' = Cash(v)  BY <2>1 DEF Cash
  <2> QED  BY <1>4, <1>5, <1>6, <2>1, <2>5, <2>6
<1>10. CASE MarketSettlesBuy
  <2>1. /\ MarketInFlight /\ taker.side = "Buy"
        /\ wallet_collateral' = Plus(wallet_collateral, signer, remaining_amount)
        /\ locked_collateral' = Minus(locked_collateral, signer, taker.quantity)
        /\ wallet_token' = Gain(wallet_token, signer, token, fullfilled_qty)
        /\ UNCHANGED <<claimable_collateral, locked_token, claimable_token>>
    BY <1>10 DEF MarketSettlesBuy, MarketInFlight, Plus, Minus, Gain
  <2>2. /\ v = signer => /\ CashDue(v) = 0 - (taker.quantity - remaining_amount)
                         /\ GoodsDue(v) = fullfilled_qty - 0
        /\ v # signer => CashDue(v) = 0 /\ GoodsDue(v) = 0
    BY <2>1 DEF CashDue, GoodsDue, Earned, Spent, Bought, Sold
  <2>3. /\ locked_collateral[v] \in Nat
        /\ v = signer => Minus(locked_collateral, signer, taker.quantity)[v]
                           = locked_collateral[v] - taker.quantity
        /\ v # signer => Minus(locked_collateral, signer, taker.quantity)[v]
                           = locked_collateral[v]
    BY <1>2, <1>3, MinusAt
  <2>4. /\ v = signer => Plus(wallet_collateral, signer, remaining_amount)[v]
                           = wallet_collateral[v] + remaining_amount
        /\ v # signer => Plus(wallet_collateral, signer, remaining_amount)[v]
                           = wallet_collateral[v]
    BY <1>2, <1>3, PlusAt
  <2>5. /\ v = signer => Owned(wallet_token', v) = Owned(wallet_token, v) + fullfilled_qty
        /\ v # signer => Owned(wallet_token', v) = Owned(wallet_token, v)
    BY <1>2, <1>3, <2>1, RowMoves
  <2>6. CASE v = signer  BY <1>3, <1>4, <1>5, <2>1, <2>2, <2>3, <2>4, <2>5, <2>6
  <2>7. CASE v # signer  BY <1>4, <1>5, <2>1, <2>2, <2>3, <2>4, <2>5, <2>7
  <2> QED  BY <2>6, <2>7
<1>11. CASE MarketSettlesSell
  <2>1. /\ MarketInFlight /\ taker.side = "Sell"
        /\ wallet_collateral' = Plus(wallet_collateral, signer, fullfilled_qty)
        /\ locked_token' = Lose(locked_token, signer, token, taker.quantity)
        /\ Of(locked_token, signer, token) >= taker.quantity
        /\ wallet_token' = Gain(wallet_token, signer, token, remaining_amount)
        /\ UNCHANGED <<locked_collateral, claimable_collateral, claimable_token>>
    BY <1>11 DEF MarketSettlesSell, SettleAffords, MarketInFlight, Plus, Lose, Gain, Of
  <2>2. /\ v = signer => /\ CashDue(v) = fullfilled_qty - 0
                         /\ GoodsDue(v) = 0 - (taker.quantity - remaining_amount)
        /\ v # signer => CashDue(v) = 0 /\ GoodsDue(v) = 0
    BY <2>1 DEF CashDue, GoodsDue, Earned, Spent, Bought, Sold
  <2>3. /\ v = signer => Owned(locked_token', v) = Owned(locked_token, v) - taker.quantity
        /\ v # signer => Owned(locked_token', v) = Owned(locked_token, v)
    BY <1>2, <1>3, <2>1, RowMoves
  <2>4. /\ v = signer => Plus(wallet_collateral, signer, fullfilled_qty)[v]
                           = wallet_collateral[v] + fullfilled_qty
        /\ v # signer => Plus(wallet_collateral, signer, fullfilled_qty)[v]
                           = wallet_collateral[v]
    BY <1>2, <1>3, PlusAt
  <2>5. /\ v = signer => Owned(wallet_token', v) = Owned(wallet_token, v) + remaining_amount
        /\ v # signer => Owned(wallet_token', v) = Owned(wallet_token, v)
    BY <1>2, <1>3, <2>1, RowMoves
  <2>6. CASE v = signer  BY <1>3, <1>4, <1>5, <2>1, <2>2, <2>3, <2>4, <2>5, <2>6
  <2>7. CASE v # signer  BY <1>4, <1>5, <2>1, <2>2, <2>3, <2>4, <2>5, <2>7
  <2> QED  BY <2>6, <2>7
<1> QED  BY <1>7, <1>8, <1>9, <1>10, <1>11 DEF Commits

LEMMA CommitGains ==
  ASSUME TypeOK, TypeOK', Commits, NEW v \in Users
  PROVE  /\ CollateralIn(saved', v) - CollateralIn(saved, v) = MoneyGained[v]
         /\ TokensIn(saved', v) - TokensIn(saved, v) = TokensGained[v]
<1>1. Commit
  BY DEF Commits, LimitFilled, LimitRests, LimitReleasesBuy, LimitReleasesSell,
         MarketSettlesBuy, MarketSettlesSell
<1>2. CashBefore(v)' = Cash(v)' /\ GoodsBefore(v)' = Goods(v)'
  BY <1>1 DEF Commit, Accounts, Cash, CashBefore, Goods, GoodsBefore
<1>3. saved \in AccountsType /\ saved' \in AccountsType  BY DEF TypeOK
<1>4. CollateralIn(saved, v) = CashBefore(v) /\ CollateralIn(saved', v) = CashBefore(v)'
  BY DEF CollateralIn, CashBefore, Purse
<1>5. ASSUME NEW acc \in AccountsType
      PROVE  TokensIn(acc, v) = Bag(acc.wallet_token, acc.locked_token, acc.claimable_token, v)
  <2>1. /\ acc.wallet_token \in TokenTable /\ acc.locked_token \in TokenTable
        /\ acc.claimable_token \in TokenTable
    BY DEF AccountsType, TokenTable
  <2> QED  BY <2>1, BagIs DEF TokensIn
<1>6. TokensIn(saved, v) = GoodsBefore(v) /\ TokensIn(saved', v) = GoodsBefore(v)'
  BY <1>3, <1>5 DEF GoodsBefore
<1>7. /\ Cash(v) \in Int /\ CashBefore(v) \in Int /\ CashDue(v) \in Int
      /\ Goods(v) \in Int /\ GoodsBefore(v) \in Int /\ GoodsDue(v) \in Int
  BY GainsTyped DEF GainsInt
<1>8. Cash(v)' = Cash(v) + CashDue(v) /\ Goods(v)' = Goods(v) + GoodsDue(v)
  BY CommitPays
<1>9. /\ MoneyGained[v] = Cash(v) - CashBefore(v) + CashDue(v)
      /\ TokensGained[v] = Goods(v) - GoodsBefore(v) + GoodsDue(v)
  BY GainsAre
<1> QED  BY <1>2, <1>4, <1>6, <1>7, <1>8, <1>9

LEMMA ExchangeIsFair ==
  ASSUME TypeOK, TypeOK', ExchangeInv, [Next]_vars, saved' # saved
  PROVE  LET gain(v) == CollateralIn(saved', v) - CollateralIn(saved, v)
             bought(v) == TokensIn(saved', v) - TokensIn(saved, v)
         IN /\ \A v \in Users : gain(v) < 0 <=> bought(v) > 0
            /\ \A v \in Users : gain(v) > 0 <=> bought(v) < 0
            /\ SumFunction([v \in Users |-> gain(v)]) = 0
            /\ SumFunction([v \in Users |-> bought(v)]) = 0
<1> DEFINE gain(v) == CollateralIn(saved', v) - CollateralIn(saved, v)
           bought(v) == TokensIn(saved', v) - TokensIn(saved, v)
<1>1. Commits  BY OnlyCommitsSave
<1>2. \A v \in Users : gain(v) = MoneyGained[v] /\ bought(v) = TokensGained[v]
  BY <1>1, CommitGains
<1>3. Deal(MoneyGained, TokensGained, Buyers)  BY DEF ExchangeInv
<1>4. [v \in Users |-> gain(v)] = MoneyGained /\ [v \in Users |-> bought(v)] = TokensGained
  BY <1>2, <1>3 DEF Deal
<1>5. SumFunction(MoneyGained) = 0 /\ SumFunction(TokensGained) = 0
  BY <1>3 DEF Deal, SumFunction, Total
<1>6. ASSUME NEW v \in Users
      PROVE  (gain(v) < 0 <=> bought(v) > 0) /\ (gain(v) > 0 <=> bought(v) < 0)
  <2>1. gain(v) = MoneyGained[v] /\ bought(v) = TokensGained[v]  BY <1>2
  <2>2. /\ MoneyGained[v] \in Int /\ TokensGained[v] \in Int
        /\ v \in Buyers => MoneyGained[v] <= 0 /\ TokensGained[v] >= 0
        /\ v \notin Buyers => MoneyGained[v] >= 0 /\ TokensGained[v] <= 0
        /\ MoneyGained[v] = 0 <=> TokensGained[v] = 0
    BY <1>3 DEF Deal
  <2> HIDE DEF gain, bought
  <2> QED  BY <2>1, <2>2
<1> QED  BY <1>4, <1>5, <1>6

\* Over a whole instruction, for any number of users, tokens and orders: whoever
\* parts with collateral gets tokens and whoever gets tokens parts with
\* collateral, and the users' gains add up to nothing in both.
THEOREM FairExchangeCorrect == Spec => FairExchange
<1>1. TypeOK /\ TypeOK' /\ ExchangeInv /\ [Next]_vars =>
        (saved' # saved =>
           LET gain(v) == CollateralIn(saved', v) - CollateralIn(saved, v)
               bought(v) == TokensIn(saved', v) - TokensIn(saved, v)
           IN /\ \A v \in Users : gain(v) < 0 <=> bought(v) > 0
              /\ \A v \in Users : gain(v) > 0 <=> bought(v) < 0
              /\ SumFunction([v \in Users |-> gain(v)]) = 0
              /\ SumFunction([v \in Users |-> bought(v)]) = 0)
  BY ExchangeIsFair
<1> QED  BY <1>1, ExchangeInit, ExchangeStep, TypeCorrect, PTL DEF Spec, FairExchange

LEMMA PriceIsHonoured ==
  ASSUME TypeOK, TypeOK', ExchangeInv, [Next]_vars, pc = "rest", saved' # saved
  PROVE  LET gain == CollateralIn(saved', signer) - CollateralIn(saved, signer)
             bought == TokensIn(saved', signer) - TokensIn(saved, signer)
         IN IF taker.side = "Buy"
            THEN -gain * Scale <= bought * taker.price
            ELSE gain * Scale > -bought * taker.price - Scale * (Len(fills) + 1)
<1> DEFINE gain == CollateralIn(saved', signer) - CollateralIn(saved, signer)
           bought == TokensIn(saved', signer) - TokensIn(saved, signer)
<1>1. Commits  BY OnlyCommitsSave
<1>2. /\ signer \in Users /\ taker.side \in Sides /\ taker.price \in Nat
      /\ Len(fills) \in Nat /\ Scale \in Nat \ {0}
  <2>1. fills \in Seq(Fill)  BY DEF TypeOK
  <2> QED  BY <2>1, TakerTyped, LenProperties, ParametersAssumption
<1>3. gain = MoneyGained[signer] /\ bought = TokensGained[signer]
  BY <1>1, <1>2, CommitGains
<1>4. MoneyGained[signer] \in Int /\ TokensGained[signer] \in Int
  BY <1>2, GainsTyped DEF GainsInt
<1>5. PriceKept(gain, bought, taker.price, Len(fills))
  BY <1>3 DEF ExchangeInv, LimitInFlight
<1> HIDE DEF gain, bought
<1>6. gain \in Int /\ bought \in Int  BY <1>3, <1>4
<1>7. CASE taker.side = "Buy"
  <2>1. -(gain * Scale) <= bought * taker.price  BY <1>5, <1>7 DEF PriceKept
  <2>2. -gain * Scale = -(gain * Scale)  BY <1>2, <1>6
  <2>3. -gain * Scale <= bought * taker.price  BY <2>1, <2>2
  <2> QED  BY <1>7, <2>3 DEF gain, bought
<1>8. CASE taker.side = "Sell"
  <2>1. gain * Scale >= -(bought * taker.price) - Scale * Len(fills)
    BY <1>5, <1>8 DEF PriceKept
  <2>2. /\ -bought * taker.price = -(bought * taker.price)
        /\ Scale * (Len(fills) + 1) = Scale * Len(fills) + Scale
        /\ gain * Scale \in Int /\ bought * taker.price \in Int /\ Scale * Len(fills) \in Int
    BY <1>2, <1>6
  <2>3. gain * Scale > -bought * taker.price - Scale * (Len(fills) + 1)
    <3> DEFINE a == gain * Scale
               b == bought * taker.price
               c == Scale * Len(fills)
    <3>1. /\ a \in Int /\ b \in Int /\ c \in Int /\ a >= -b - c
          /\ -bought * taker.price = -b /\ Scale * (Len(fills) + 1) = c + Scale
      BY <2>1, <2>2
    <3> HIDE DEF a, b, c
    <3>2. a > -b - (c + Scale)  BY <1>2, <3>1
    <3> QED  BY <3>1, <3>2 DEF a
  <2> QED  BY <1>8, <2>3 DEF gain, bought
<1> QED  BY <1>2, <1>7, <1>8 DEF Sides

\* A limit order never pays more than its price for all that it bought, and the
\* truncated fills of a sale cost it less than a unit each below its price, for
\* any sequence of fills at any of the makers' prices.
THEOREM LimitPriceHonouredCorrect == Spec => LimitPriceHonoured
<1>1. TypeOK /\ TypeOK' /\ ExchangeInv /\ [Next]_vars =>
        (pc = "rest" /\ saved' # saved =>
           LET gain == CollateralIn(saved', signer) - CollateralIn(saved, signer)
               bought == TokensIn(saved', signer) - TokensIn(saved, signer)
           IN IF taker.side = "Buy"
              THEN -gain * Scale <= bought * taker.price
              ELSE gain * Scale > -bought * taker.price - Scale * (Len(fills) + 1))
  BY PriceIsHonoured
<1> QED  BY <1>1, ExchangeInit, ExchangeStep, TypeCorrect, PTL DEF Spec, LimitPriceHonoured

-----------------------------------------------------------------------------
(* The orders a user has on some of the books *)

LEMMA FiniteImage ==
  ASSUME NEW S, IsFiniteSet(S), NEW f
  PROVE  IsFiniteSet({f[x] : x \in S})
<1> DEFINE T == {f[x] : x \in S}
           g == [x \in S |-> f[x]]
<1>1. g \in Surjection(S, T)  BY DEF Surjection
<1> HIDE DEF g, T
<1>2. IsFiniteSet(T)  BY <1>1, FS_Surjection
<1> QED  BY <1>2 DEF T

BookTable == [Books -> Seq(RestingOrder)]

\* The orders of user v on the books B.
Mine(bk, B, v) == {o \in UNION {InBook(bk, b) : b \in B} : o.user_key = v}

LEMMA InMine ==
  ASSUME NEW bk, NEW B, NEW v, NEW o
  PROVE  o \in Mine(bk, B, v) <=> (\E b \in B : o \in InBook(bk, b)) /\ o.user_key = v
BY DEF Mine

LEMMA MineFinite ==
  ASSUME NEW bk \in BookTable, NEW B \in SUBSET Books, IsFiniteSet(B), NEW v
  PROVE  IsFiniteSet(Mine(bk, B, v)) /\ Mine(bk, B, v) \subseteq RestingOrder
<1>1. ASSUME NEW b \in Books PROVE IsFiniteSet(InBook(bk, b))
  <2> DEFINE q == bk[b]
  <2>1. q \in Seq(RestingOrder)  BY DEF BookTable
  <2>2. Len(q) \in Nat  BY <2>1, LenProperties
  <2>3. IsFiniteSet(1..Len(q))  BY <2>2, FS_Interval
  <2> HIDE DEF q
  <2>4. IsFiniteSet({q[i] : i \in 1..Len(q)})  BY <2>3, FiniteImage
  <2> QED  BY <2>4 DEF q, InBook
<1> DEFINE f == [b \in B |-> InBook(bk, b)]
           all == {f[b] : b \in B}
<1>2. all = {InBook(bk, b) : b \in B}  OBVIOUS
<1>3. \A S \in all : IsFiniteSet(S)  BY <1>1
<1> HIDE DEF f
<1>4. IsFiniteSet(all)  BY FiniteImage
<1> HIDE DEF all
<1>5. IsFiniteSet(UNION all)  BY <1>3, <1>4, FS_UNION
<1>6. Mine(bk, B, v) \in SUBSET UNION all  BY <1>2 DEF Mine
<1>7. IsFiniteSet(Mine(bk, B, v))  BY <1>5, <1>6, FS_Subset
<1>8. bk \in [Books -> Seq(RestingOrder)]  BY DEF BookTable
<1>9. Mine(bk, B, v) \subseteq RestingOrder  BY <1>8, InMine, InBookTyped
<1> QED  BY <1>7, <1>9

-----------------------------------------------------------------------------
(* What a removal, a fill and an insertion make of the orders of a book *)

Removed(bk, b, i) == [bk EXCEPT ![b] = Unlink(bk[b], i)]
Traded(bk, b, i, n) == [bk EXCEPT ![b] = Filled(bk[b], i, n)]
Inserted(bk, b, t, k) == [bk EXCEPT ![b] = Insert(bk[b], t, k)]
At(bk, b, i) == bk[b][i]
Positions(bk, b) == 1..Len(bk[b])
More(o, n) == [o EXCEPT !.filledquantity = @ + n]

LEMMA RemovedInBook ==
  ASSUME NEW bk \in BookTable, NEW m, BookOK(bk, m), NEW b \in Books,
         NEW i \in Positions(bk, b), NEW c \in Books, NEW o
  PROVE  o \in InBook(Removed(bk, b, i), c) <=> o \in InBook(bk, c) /\ o # At(bk, b, i)
<1> DEFINE q == bk[b]
<1>0. /\ q \in Seq(RestingOrder) /\ Len(q) \in Nat /\ i \in 1..Len(q)
      /\ bk \in [Books -> Seq(RestingOrder)]
  BY LenProperties DEF BookTable, Positions
<1>1. CASE c # b
  <2>1. InBook(Removed(bk, b, i), c) = InBook(bk, c)  BY <1>0, <1>1 DEF InBook, Removed
  <2>2. \A j \in 1..Len(bk[c]) : bk[c][j] # q[i]
    BY <1>0, <1>1 DEF BookOK, Distinct
  <2> QED  BY <2>1, <2>2 DEF InBook, At
<1>2. CASE c = b
  <2>1. Removed(bk, b, i)[b] = Unlink(q, i)  BY <1>0 DEF Removed
  <2>2. /\ Len(Unlink(q, i)) = Len(q) - 1
        /\ \A l \in 1..(Len(q) - 1) : Unlink(q, i)[l] = IF l < i THEN q[l] ELSE q[l + 1]
    BY <1>0, UnlinkProperties
  <2>3. \A j \in 1..Len(q) : q[j] = q[i] => j = i
    <3>1. \A j, l \in 1..Len(bk[b]) : bk[b][j].id = bk[b][l].id => j = l
      BY DEF BookOK, Distinct
    <3> QED  BY <1>0, <3>1
  <2>4. ASSUME NEW j \in 1..Len(Unlink(q, i))
        PROVE  \E l \in 1..Len(q) : l # i /\ Unlink(q, i)[j] = q[l]
    <3>1. CASE j < i
      <4>1. j \in 1..Len(q) /\ j # i /\ Unlink(q, i)[j] = q[j]  BY <1>0, <2>2, <2>4, <3>1
      <4> QED  BY <4>1
    <3>2. CASE ~(j < i)
      <4>1. j + 1 \in 1..Len(q) /\ j + 1 # i /\ Unlink(q, i)[j] = q[j + 1]
        BY <1>0, <2>2, <2>4, <3>2
      <4> QED  BY <4>1
    <3> QED  BY <3>1, <3>2
  <2>5. ASSUME NEW j \in 1..Len(q), j # i
        PROVE  \E l \in 1..Len(Unlink(q, i)) : Unlink(q, i)[l] = q[j]
    <3>1. CASE j < i
      <4>1. j \in 1..Len(Unlink(q, i)) /\ Unlink(q, i)[j] = q[j]  BY <1>0, <2>2, <2>5, <3>1
      <4> QED  BY <4>1
    <3>2. CASE ~(j < i)
      <4>1. j - 1 \in 1..Len(Unlink(q, i)) /\ Unlink(q, i)[j - 1] = q[j]
        BY <1>0, <2>2, <2>5, <3>2
      <4> QED  BY <4>1
    <3> QED  BY <3>1, <3>2
  <2> HIDE DEF q
  <2>6. o \in InBook(Removed(bk, b, i), b) <=> \E j \in 1..Len(Unlink(q, i)) : o = Unlink(q, i)[j]
    BY <2>1 DEF InBook
  <2>7. /\ o \in InBook(bk, b) <=> \E j \in 1..Len(q) : o = q[j]
        /\ At(bk, b, i) = q[i]
    BY DEF InBook, At, q
  <2>8. ASSUME o \in InBook(Removed(bk, b, i), b) PROVE o \in InBook(bk, b) /\ o # q[i]
    BY <1>0, <2>3, <2>4, <2>6, <2>7, <2>8
  <2>9. ASSUME o \in InBook(bk, b), o # q[i] PROVE o \in InBook(Removed(bk, b, i), b)
    BY <2>5, <2>6, <2>7, <2>9
  <2> QED  BY <1>2, <2>7, <2>8, <2>9
<1> QED  BY <1>1, <1>2

LEMMA TradedInBook ==
  ASSUME NEW bk \in BookTable, NEW m, BookOK(bk, m), NEW b \in Books,
         NEW i \in Positions(bk, b), NEW n \in Nat, NEW c \in Books, NEW o
  PROVE  o \in InBook(Traded(bk, b, i, n), c) <=>
           \/ o \in InBook(bk, c) /\ o # At(bk, b, i)
           \/ c = b /\ o = More(At(bk, b, i), n)
<1> DEFINE q == bk[b]
           r == Filled(q, i, n)
<1>0. /\ q \in Seq(RestingOrder) /\ Len(q) \in Nat /\ i \in 1..Len(q)
      /\ bk \in [Books -> Seq(RestingOrder)]
  BY LenProperties DEF BookTable, Positions
<1>1. CASE c # b
  <2>1. InBook(Traded(bk, b, i, n), c) = InBook(bk, c)  BY <1>0, <1>1 DEF InBook, Traded
  <2>2. \A j \in 1..Len(bk[c]) : bk[c][j] # q[i]
    BY <1>0, <1>1 DEF BookOK, Distinct
  <2> QED  BY <1>1, <2>1, <2>2 DEF InBook, At
<1>2. CASE c = b
  <2>1. Traded(bk, b, i, n)[b] = r  BY <1>0 DEF Traded
  <2>2. /\ Len(r) = Len(q)
        /\ \A l \in 1..Len(q) : r[l] = IF l = i THEN More(q[i], n) ELSE q[l]
    BY <1>0, FilledProperties DEF More
  <2>3. \A j \in 1..Len(q) : q[j] = q[i] => j = i
    <3>1. \A j, l \in 1..Len(bk[b]) : bk[b][j].id = bk[b][l].id => j = l
      BY DEF BookOK, Distinct
    <3> QED  BY <1>0, <3>1
  <2> HIDE DEF q, r
  <2>4. o \in InBook(Traded(bk, b, i, n), b) <=> \E j \in 1..Len(r) : o = r[j]
    BY <2>1 DEF InBook
  <2>5. /\ o \in InBook(bk, b) <=> \E j \in 1..Len(q) : o = q[j]
        /\ At(bk, b, i) = q[i]
    BY DEF InBook, At, q
  <2>6. (\E j \in 1..Len(r) : o = r[j]) <=>
          \/ \E j \in 1..Len(q) : j # i /\ o = q[j]
          \/ o = More(q[i], n)
    BY <1>0, <2>2
  <2>7. (\E j \in 1..Len(q) : j # i /\ o = q[j]) <=> (\E j \in 1..Len(q) : o = q[j]) /\ o # q[i]
    BY <1>0, <2>3
  <2> QED  BY <1>2, <2>4, <2>5, <2>6, <2>7
<1> QED  BY <1>1, <1>2

LEMMA InsertedInBook ==
  ASSUME NEW bk \in BookTable, NEW b \in Books, NEW t \in RestingOrder,
         NEW k \in 0..Len(bk[b]), NEW c \in Books, NEW o
  PROVE  o \in InBook(Inserted(bk, b, t, k), c) <=> o \in InBook(bk, c) \/ (c = b /\ o = t)
<1> DEFINE q == bk[b]
           r == Insert(q, t, k)
<1>0. /\ q \in Seq(RestingOrder) /\ Len(q) \in Nat
      /\ bk \in [Books -> Seq(RestingOrder)]
  BY LenProperties DEF BookTable
<1>1. o \in InBook(Inserted(bk, b, t, k), c) => o \in InBook(bk, c) \/ (c = b /\ o = t)
  BY <1>0, InsertInBook DEF Inserted
<1>2. CASE c # b
  BY <1>0, <1>1, <1>2 DEF InBook, Inserted
<1>3. CASE c = b
  <2>1. Inserted(bk, b, t, k)[b] = r  BY <1>0 DEF Inserted
  <2>2. /\ Len(r) = Len(q) + 1
        /\ \A l \in 1..(Len(q) + 1) : r[l] =
             IF l <= k THEN q[l] ELSE IF l = k + 1 THEN t ELSE q[l - 1]
    BY <1>0, InsertProperties
  <2>3. o = t => \E j \in 1..Len(r) : o = r[j]
    <3>1. k + 1 \in 1..Len(r) /\ r[k + 1] = t  BY <1>0, <2>2
    <3> QED  BY <3>1
  <2>4. ASSUME NEW j \in 1..Len(q) PROVE \E l \in 1..Len(r) : q[j] = r[l]
    <3>1. CASE j <= k
      <4>1. j \in 1..Len(r) /\ r[j] = q[j]  BY <1>0, <2>2, <2>4, <3>1
      <4> QED  BY <4>1
    <3>2. CASE ~(j <= k)
      <4>1. j + 1 \in 1..Len(r) /\ r[j + 1] = q[j]  BY <1>0, <2>2, <2>4, <3>2
      <4> QED  BY <4>1
    <3> QED  BY <3>1, <3>2
  <2> HIDE DEF q, r
  <2>5. o \in InBook(Inserted(bk, b, t, k), b) <=> \E j \in 1..Len(r) : o = r[j]
    BY <2>1 DEF InBook
  <2>6. o \in InBook(bk, b) <=> \E j \in 1..Len(q) : o = q[j]
    BY DEF InBook, q
  <2> QED  BY <1>1, <1>3, <2>3, <2>4, <2>5, <2>6
<1> QED  BY <1>2, <1>3

-----------------------------------------------------------------------------
(* What a user's orders are worth, as the book changes *)

LiveOrder == {o \in RestingOrder : o.filledquantity < o.quantity}

\* Of all orders of v on the books B, the sum of f.
Worth(f, bk, B, v) == SumFunctionOnSet(f, Mine(bk, B, v))

LEMMA MineLive ==
  ASSUME NEW bk \in BookTable, NEW m, BookOK(bk, m),
         NEW B \in SUBSET Books, IsFiniteSet(B), NEW v
  PROVE  IsFiniteSet(Mine(bk, B, v)) /\ Mine(bk, B, v) \subseteq LiveOrder
<1>1. ASSUME NEW o \in Mine(bk, B, v) PROVE o \in LiveOrder
  <2>1. o \in RestingOrder  BY MineFinite
  <2>2. PICK c \in B : o \in InBook(bk, c)  BY InMine
  <2>3. PICK j \in 1..Len(bk[c]) : o = bk[c][j]  BY <2>2 DEF InBook
  <2>4. bk[c][j].filledquantity < bk[c][j].quantity  BY DEF BookOK, Live
  <2> QED  BY <2>1, <2>3, <2>4 DEF LiveOrder
<1> QED  BY <1>1, MineFinite

\* An order is on one book only, and nothing there has its number.
LEMMA OnOneBook ==
  ASSUME NEW bk \in BookTable, NEW m, BookOK(bk, m), NEW b \in Books,
         NEW i \in Positions(bk, b), NEW c \in Books, NEW o \in InBook(bk, c),
         o.id = At(bk, b, i).id
  PROVE  c = b /\ o = At(bk, b, i)
<1>1. PICK j \in 1..Len(bk[c]) : o = bk[c][j]  BY DEF InBook
<1>2. bk[c][j].id = bk[b][i].id  BY <1>1 DEF At
<1>3. \A d, e \in Books : \A k \in 1..Len(bk[d]), l \in 1..Len(bk[e]) :
        bk[d][k].id = bk[e][l].id => d = e /\ k = l
  BY DEF BookOK, Distinct
<1>4. c = b /\ j = i  BY <1>2, <1>3 DEF Positions
<1> QED  BY <1>1, <1>4 DEF At

LEMMA AtInBook ==
  ASSUME NEW bk \in BookTable, NEW m, BookOK(bk, m), NEW b \in Books, NEW i \in Positions(bk, b)
  PROVE  At(bk, b, i) \in InBook(bk, b) /\ At(bk, b, i) \in LiveOrder
<1>1. At(bk, b, i) \in InBook(bk, b)  BY DEF At, InBook, Positions
<1>2. bk \in [Books -> Seq(RestingOrder)]  BY DEF BookTable
<1>3. At(bk, b, i) \in RestingOrder  BY <1>1, <1>2, InBookTyped
<1>4. At(bk, b, i).filledquantity < At(bk, b, i).quantity
  BY DEF BookOK, Live, At, Positions
<1> QED  BY <1>1, <1>3, <1>4 DEF LiveOrder

LEMMA RemovedWorth ==
  ASSUME NEW bk \in BookTable, NEW m, BookOK(bk, m), NEW b \in Books,
         NEW i \in Positions(bk, b), NEW B \in SUBSET Books, IsFiniteSet(B), NEW v,
         NEW f \in [LiveOrder -> Nat]
  PROVE  /\ b \in B /\ At(bk, b, i).user_key = v =>
              Worth(f, Removed(bk, b, i), B, v) = Worth(f, bk, B, v) - f[At(bk, b, i)]
         /\ ~(b \in B /\ At(bk, b, i).user_key = v) =>
              Worth(f, Removed(bk, b, i), B, v) = Worth(f, bk, B, v)
<1> DEFINE x == At(bk, b, i)
           S == Mine(bk, B, v)
           T == Mine(Removed(bk, b, i), B, v)
<1>1. x \in InBook(bk, b) /\ x \in LiveOrder  BY AtInBook
<1>2. IsFiniteSet(S) /\ S \subseteq LiveOrder  BY MineLive
<1>3. T = S \ {x}
  <2>1. ASSUME NEW o PROVE o \in T <=> o \in S /\ o # x
    BY RemovedInBook, InMine
  <2> HIDE DEF S, T, x
  <2> QED  BY <2>1
<1>4. ASSUME b \in B, x.user_key = v
      PROVE  Worth(f, Removed(bk, b, i), B, v) = Worth(f, bk, B, v) - f[x]
  <2>1. x \in S  BY <1>1, <1>4, InMine
  <2>2. \A o \in S : f[o] \in Int  BY <1>2
  <2> HIDE DEF S, T, x
  <2>3. /\ SumFunctionOnSet(f, S) = f[x] + SumFunctionOnSet(f, S \ {x})
        /\ SumFunctionOnSet(f, S \ {x}) \in Int
    BY <1>2, <2>1, <2>2, SumSplit
  <2>4. SumFunctionOnSet(f, T) = SumFunctionOnSet(f, S) - f[x]
    BY <1>3, <2>1, <2>2, <2>3
  <2> QED  BY <2>4 DEF Worth, S, T
<1>5. ASSUME ~(b \in B /\ x.user_key = v)
      PROVE  Worth(f, Removed(bk, b, i), B, v) = Worth(f, bk, B, v)
  <2>1. x \notin S
    <3> SUFFICES ASSUME x \in S PROVE FALSE  OBVIOUS
    <3>1. PICK c \in B : x \in InBook(bk, c)  BY InMine
    <3>2. x.user_key = v  BY InMine
    <3>3. c = b  BY <3>1, OnOneBook
    <3> QED  BY <1>5, <3>2, <3>3
  <2> HIDE DEF S, T, x
  <2>2. T = S  BY <1>3, <2>1
  <2> QED  BY <2>2 DEF Worth, S, T
<1> QED  BY <1>4, <1>5

LEMMA TradedWorth ==
  ASSUME NEW bk \in BookTable, NEW m, BookOK(bk, m), NEW b \in Books,
         NEW i \in Positions(bk, b), NEW n \in Nat \ {0}, n < Left(At(bk, b, i)),
         NEW B \in SUBSET Books, IsFiniteSet(B), NEW v,
         NEW f \in [LiveOrder -> Nat]
  PROVE  /\ b \in B /\ At(bk, b, i).user_key = v =>
              Worth(f, Traded(bk, b, i, n), B, v)
                = Worth(f, bk, B, v) - f[At(bk, b, i)] + f[More(At(bk, b, i), n)]
         /\ ~(b \in B /\ At(bk, b, i).user_key = v) =>
              Worth(f, Traded(bk, b, i, n), B, v) = Worth(f, bk, B, v)
<1> DEFINE x == At(bk, b, i)
           y == More(x, n)
           S == Mine(bk, B, v)
           T == Mine(Traded(bk, b, i, n), B, v)
<1>1. x \in InBook(bk, b) /\ x \in LiveOrder  BY AtInBook
<1>2. IsFiniteSet(S) /\ S \subseteq LiveOrder  BY MineLive
<1>3. /\ y \in LiveOrder /\ y.id = x.id /\ y.user_key = x.user_key
      /\ y.filledquantity = x.filledquantity + n /\ x.filledquantity \in Nat
  BY <1>1 DEF LiveOrder, RestingOrder, Order, More, Left
<1>4. y # x  BY <1>3
<1>5. \A c \in Books : y \notin InBook(bk, c)
  BY <1>3, <1>4, OnOneBook
<1>6. y \notin S  BY <1>5, InMine
<1>7. ASSUME b \in B, x.user_key = v
      PROVE  Worth(f, Traded(bk, b, i, n), B, v) = Worth(f, bk, B, v) - f[x] + f[y]
  <2>1. x \in S  BY <1>1, <1>7, InMine
  <2>2. ASSUME NEW o PROVE o \in T <=> (o \in S /\ o # x) \/ o = y
    <3>1. o \in T <=> (\E c \in B : o \in InBook(Traded(bk, b, i, n), c)) /\ o.user_key = v
      BY InMine
    <3>2. o \in S <=> (\E c \in B : o \in InBook(bk, c)) /\ o.user_key = v
      BY InMine
    <3>3. \A c \in B : o \in InBook(Traded(bk, b, i, n), c) <=>
             \/ o \in InBook(bk, c) /\ o # x
             \/ c = b /\ o = y
      BY TradedInBook
    <3> HIDE DEF S, T, x, y
    <3> QED  BY <1>3, <1>7, <3>1, <3>2, <3>3
  <2>3. \A o \in S \cup {y} : f[o] \in Int  BY <1>2, <1>3
  <2> HIDE DEF S, T, x, y
  <2>4. T = (S \ {x}) \cup {y}  BY <2>2
  <2>5. IsFiniteSet(S \ {x})  BY <1>2, FS_Subset, S \ {x} \subseteq S
  <2>6. y \notin S \ {x} /\ \A o \in (S \ {x}) \cup {y} : f[o] \in Int
    BY <1>6, <2>3
  <2>7. SumFunctionOnSet(f, T) = f[y] + SumFunctionOnSet(f, S \ {x})
    BY <2>4, <2>5, <2>6, SumAddsElement
  <2>8. /\ SumFunctionOnSet(f, S) = f[x] + SumFunctionOnSet(f, S \ {x})
        /\ SumFunctionOnSet(f, S \ {x}) \in Int
    BY <1>2, <2>1, <2>3, SumSplit
  <2>9. f[x] \in Int /\ f[y] \in Int  BY <2>1, <2>3
  <2>10. SumFunctionOnSet(f, T) = SumFunctionOnSet(f, S) - f[x] + f[y]
    BY <2>7, <2>8, <2>9
  <2> QED  BY <2>10 DEF Worth, S, T
<1>8. ASSUME ~(b \in B /\ x.user_key = v)
      PROVE  Worth(f, Traded(bk, b, i, n), B, v) = Worth(f, bk, B, v)
  <2>1. ASSUME NEW o PROVE o \in T <=> o \in S
    <3>1. o \in T <=> (\E c \in B : o \in InBook(Traded(bk, b, i, n), c)) /\ o.user_key = v
      BY InMine
    <3>2. o \in S <=> (\E c \in B : o \in InBook(bk, c)) /\ o.user_key = v
      BY InMine
    <3>3. \A c \in B : o \in InBook(Traded(bk, b, i, n), c) <=>
             \/ o \in InBook(bk, c) /\ o # x
             \/ c = b /\ o = y
      BY TradedInBook
    <3>4. \A c \in B : o \in InBook(bk, c) /\ o = x => c = b  BY OnOneBook
    <3> HIDE DEF S, T, x, y
    <3> QED  BY <1>3, <1>8, <3>1, <3>2, <3>3, <3>4
  <2> HIDE DEF S, T
  <2>2. T = S  BY <2>1
  <2> QED  BY <2>2 DEF Worth, S, T
<1> QED  BY <1>7, <1>8

LEMMA InsertedWorth ==
  ASSUME NEW bk \in BookTable, NEW m, BookOK(bk, m), NEW b \in Books,
         NEW t \in LiveOrder, t.id = m, NEW k \in 0..Len(bk[b]),
         NEW B \in SUBSET Books, IsFiniteSet(B), NEW v,
         NEW f \in [LiveOrder -> Nat]
  PROVE  /\ b \in B /\ t.user_key = v =>
              Worth(f, Inserted(bk, b, t, k), B, v) = Worth(f, bk, B, v) + f[t]
         /\ ~(b \in B /\ t.user_key = v) =>
              Worth(f, Inserted(bk, b, t, k), B, v) = Worth(f, bk, B, v)
<1> DEFINE S == Mine(bk, B, v)
           T == Mine(Inserted(bk, b, t, k), B, v)
<1>1. IsFiniteSet(S) /\ S \subseteq LiveOrder  BY MineLive
<1>2. t \in RestingOrder /\ t.id \in Nat  BY DEF LiveOrder, RestingOrder, Order
<1>3. t \notin S
  <2> SUFFICES ASSUME t \in S PROVE FALSE  OBVIOUS
  <2>1. PICK c \in B : t \in InBook(bk, c)  BY InMine
  <2>2. PICK j \in 1..Len(bk[c]) : t = bk[c][j]  BY <2>1 DEF InBook
  <2>3. bk[c][j].id < m  BY DEF BookOK, Live
  <2> QED  BY <1>2, <2>2, <2>3
<1>4. ASSUME NEW o PROVE o \in T <=> o \in S \/ (b \in B /\ o = t /\ t.user_key = v)
  <2>1. o \in T <=> (\E c \in B : o \in InBook(Inserted(bk, b, t, k), c)) /\ o.user_key = v
    BY InMine
  <2>2. o \in S <=> (\E c \in B : o \in InBook(bk, c)) /\ o.user_key = v
    BY InMine
  <2>3. \A c \in B : o \in InBook(Inserted(bk, b, t, k), c) <=>
           o \in InBook(bk, c) \/ (c = b /\ o = t)
    BY <1>2, InsertedInBook
  <2> HIDE DEF S, T
  <2> QED  BY <2>1, <2>2, <2>3
<1>5. \A o \in S \cup {t} : f[o] \in Int  BY <1>1
<1> HIDE DEF S, T
<1>6. ASSUME b \in B, t.user_key = v
      PROVE  Worth(f, Inserted(bk, b, t, k), B, v) = Worth(f, bk, B, v) + f[t]
  <2>1. T = S \cup {t}  BY <1>4, <1>6
  <2>2. SumFunctionOnSet(f, T) = f[t] + SumFunctionOnSet(f, S)
    BY <1>1, <1>3, <1>5, <2>1, SumAddsElement
  <2>3. SumFunctionOnSet(f, S) \in Int /\ f[t] \in Int  BY <1>1, <1>5, SumTyped
  <2>4. SumFunctionOnSet(f, T) = SumFunctionOnSet(f, S) + f[t]  BY <2>2, <2>3
  <2> QED  BY <2>4 DEF Worth, S, T
<1>7. ASSUME ~(b \in B /\ t.user_key = v)
      PROVE  Worth(f, Inserted(bk, b, t, k), B, v) = Worth(f, bk, B, v)
  <2>1. T = S  BY <1>4, <1>7
  <2> QED  BY <2>1 DEF Worth, S, T
<1> QED  BY <1>6, <1>7

-----------------------------------------------------------------------------
(* The truncating division: what is locked in one piece covers the pieces *)

LEMMA QuotientsAdd ==
  ASSUME NEW m \in Nat, NEW n \in Nat, NEW d \in Nat \ {0}
  PROVE  (m \div d) + (n \div d) <= (m + n) \div d
<1> DEFINE q == m \div d
           r == n \div d
           s == (m + n) \div d
<1>1. q \in Nat /\ r \in Nat /\ s \in Nat  OBVIOUS
<1>2. q * d <= m /\ r * d <= n  OBVIOUS
<1>3. m + n \in Nat  OBVIOUS
<1>4. m + n < s * d + d
  <2> DEFINE t == m + n
  <2>1. t \in Nat  BY <1>3
  <2> HIDE DEF t
  <2>2. t < (t \div d) * d + d  BY <2>1
  <2> QED  BY <2>2 DEF t
<1> HIDE DEF q, r, s
<1>5. ASSUME q + r > s PROVE FALSE
  <2>1. PICK k \in Nat : q + r = s + 1 + k
    <3>1. q + r - s - 1 \in Nat /\ q + r = s + 1 + (q + r - s - 1)
      BY <1>1, <1>5
    <3> QED  BY <3>1
  <2>2. (q + r) * d = q * d + r * d  BY <1>1
  <2>3. (s + 1 + k) * d = s * d + d + k * d /\ k * d \in Nat
    BY <1>1
  <2>4. q * d \in Nat /\ r * d \in Nat /\ s * d \in Nat  BY <1>1
  <2>5. q * d + r * d = s * d + d + k * d  BY <2>1, <2>2, <2>3
  <2> HIDE DEF q, r, s
  <2> QED  BY <1>2, <1>3, <1>4, <2>3, <2>4, <2>5
<1> QED  BY <1>1, <1>5 DEF q, r, s

LEMMA CostSplits ==
  ASSUME NEW a \in Nat, NEW n \in Nat, NEW p \in Nat, n <= a
  PROVE  /\ Cost(a - n, p) \in Nat /\ Cost(n, p) \in Nat /\ Cost(a, p) \in Nat
         /\ Cost(a - n, p) + Cost(n, p) <= Cost(a, p)
<1>1. a - n \in Nat /\ a = (a - n) + n  OBVIOUS
<1> DEFINE c == a - n
<1>2. c \in Nat /\ a = c + n  BY <1>1
<1> HIDE DEF c
<1>3. c * p \in Nat /\ n * p \in Nat /\ a * p = c * p + n * p  BY <1>2
<1>4. Scale \in Nat \ {0}  BY ParametersAssumption
<1>5. ((c * p) \div Scale) + ((n * p) \div Scale) <= (c * p + n * p) \div Scale
  BY <1>3, <1>4, QuotientsAdd
<1>6. Cost(c, p) + Cost(n, p) <= Cost(a, p)  BY <1>3, <1>5 DEF Cost
<1>7. Cost(c, p) \in Nat /\ Cost(n, p) \in Nat /\ Cost(a, p) \in Nat  BY <1>2, CostNat
<1> QED  BY <1>6, <1>7 DEF c

\* The same tokens cost no more at a lower price.
LEMMA CostFollowsPrice ==
  ASSUME NEW n \in Nat, NEW p \in Nat, NEW r \in Nat, p <= r
  PROVE  Cost(n, p) <= Cost(n, r)
<1>1. p * n \in Nat /\ r * n \in Nat /\ p * n <= r * n  BY ProductGrows
<1>2. n * p = p * n /\ n * r = r * n  OBVIOUS
<1>3. n * p \in Nat /\ n * r \in Nat /\ n * p <= n * r  BY <1>1, <1>2
<1>4. Scale \in Nat \ {0}  BY ParametersAssumption
<1> DEFINE x == n * p
           y == n * r
<1>5. x \in Nat /\ y \in Nat /\ x <= y  BY <1>3
<1> HIDE DEF x, y
<1>6. x \div Scale <= y \div Scale  BY <1>4, <1>5, QuotientGrows
<1> QED  BY <1>6 DEF Cost, x, y

\* Fewer tokens cost no more at the same price.
LEMMA CostFollowsQuantity ==
  ASSUME NEW n \in Nat, NEW m \in Nat, NEW p \in Nat, n <= m
  PROVE  Cost(n, p) <= Cost(m, p)
<1>1. n * p \in Nat /\ m * p \in Nat /\ n * p <= m * p  BY ProductGrows
<1>2. Scale \in Nat \ {0}  BY ParametersAssumption
<1> DEFINE x == n * p
           y == m * p
<1>3. x \in Nat /\ y \in Nat /\ x <= y  BY <1>1
<1> HIDE DEF x, y
<1>4. x \div Scale <= y \div Scale  BY <1>2, <1>3, QuotientGrows
<1> QED  BY <1>4 DEF Cost, x, y

-----------------------------------------------------------------------------
(* What a user's asks offer and what its bids can cost *)

LeftOf == [o \in LiveOrder |-> Left(o)]
CostOf == [o \in LiveOrder |-> Cost(Left(o), o.price)]

Asks(k) == {<<k, "Sell">>}
Bids == {<<k, "Buy">> : k \in Tokens}

AskWorth(bk, v, k) == Worth(LeftOf, bk, Asks(k), v)
BidWorth(bk, v) == Worth(CostOf, bk, Bids, v)

LEMMA LiveTyped ==
  ASSUME NEW o \in LiveOrder
  PROVE  Left(o) \in Nat \ {0} /\ o.price \in Nat /\ o.user_key \in Users
BY DEF LiveOrder, RestingOrder, Order, Left

LEMMA ValuesTyped == LeftOf \in [LiveOrder -> Nat] /\ CostOf \in [LiveOrder -> Nat]
<1>1. \A o \in LiveOrder : Left(o) \in Nat  BY LiveTyped
<1>2. \A o \in LiveOrder : Cost(Left(o), o.price) \in Nat  BY LiveTyped, CostNat
<1> QED  BY <1>1, <1>2 DEF LeftOf, CostOf

LEMMA SidesTyped ==
  /\ \A k \in Tokens : Asks(k) \in SUBSET Books /\ IsFiniteSet(Asks(k))
  /\ Bids \in SUBSET Books /\ IsFiniteSet(Bids)
<1>1. ASSUME NEW k \in Tokens PROVE Asks(k) \in SUBSET Books /\ IsFiniteSet(Asks(k))
  <2>1. IsFiniteSet({<<k, "Sell">>})  BY FS_Singleton
  <2> QED  BY <2>1 DEF Asks, Books, Sides
<1>2. Bids \in SUBSET Books  BY DEF Bids, Books, Sides
<1>3. IsFiniteSet(Bids)
  <2> DEFINE f == [k \in Tokens |-> <<k, "Buy">>]
  <2>1. Bids = {f[k] : k \in Tokens}  BY DEF Bids
  <2> HIDE DEF f
  <2>2. IsFiniteSet({f[k] : k \in Tokens})  BY FiniteImage, ParametersAssumption
  <2> QED  BY <2>1, <2>2
<1> QED  BY <1>1, <1>2, <1>3

LEMMA WorthNat ==
  ASSUME NEW bk \in BookTable, NEW m, BookOK(bk, m), NEW B \in SUBSET Books,
         IsFiniteSet(B), NEW v, NEW f \in [LiveOrder -> Nat]
  PROVE  /\ Worth(f, bk, B, v) \in Nat
         /\ \A o \in Mine(bk, B, v) : f[o] <= Worth(f, bk, B, v)
<1> DEFINE S == Mine(bk, B, v)
<1>1. IsFiniteSet(S) /\ \A o \in S : f[o] \in Nat  BY MineLive
<1> HIDE DEF S
<1>2. SumFunctionOnSet(f, S) \in Nat /\ \A o \in S : f[o] <= SumFunctionOnSet(f, S)
  BY <1>1, SumCovers
<1> QED  BY <1>2 DEF S, Worth

LEMMA WorthsTyped ==
  ASSUME NEW bk \in BookTable, NEW m, BookOK(bk, m), NEW v
  PROVE  /\ \A k \in Tokens : AskWorth(bk, v, k) \in Nat
         /\ BidWorth(bk, v) \in Nat
BY WorthNat, ValuesTyped, SidesTyped DEF AskWorth, BidWorth

\* What a fill of n tokens makes of the book.
AfterFill(bk, b, i, n) ==
  IF At(bk, b, i).filledquantity + n >= At(bk, b, i).quantity
  THEN Removed(bk, b, i) ELSE Traded(bk, b, i, n)

LEMMA MoreLeft ==
  ASSUME NEW o \in LiveOrder, NEW n \in Nat \ {0}, n < Left(o)
  PROVE  /\ More(o, n) \in LiveOrder /\ Left(More(o, n)) = Left(o) - n
         /\ More(o, n).price = o.price
BY DEF LiveOrder, RestingOrder, Order, More, Left

LEMMA FillWorth ==
  ASSUME NEW bk \in BookTable, NEW m, BookOK(bk, m), NEW b \in Books,
         NEW i \in Positions(bk, b), NEW n \in Nat \ {0}, n <= Left(At(bk, b, i)),
         NEW B \in SUBSET Books, IsFiniteSet(B), NEW v
  PROVE  /\ b \in B /\ At(bk, b, i).user_key = v =>
              /\ Worth(LeftOf, AfterFill(bk, b, i, n), B, v) = Worth(LeftOf, bk, B, v) - n
              /\ Worth(CostOf, AfterFill(bk, b, i, n), B, v)
                   + Cost(n, At(bk, b, i).price) <= Worth(CostOf, bk, B, v)
         /\ ~(b \in B /\ At(bk, b, i).user_key = v) =>
              /\ Worth(LeftOf, AfterFill(bk, b, i, n), B, v) = Worth(LeftOf, bk, B, v)
              /\ Worth(CostOf, AfterFill(bk, b, i, n), B, v) = Worth(CostOf, bk, B, v)
<1> DEFINE x == At(bk, b, i)
           new == AfterFill(bk, b, i, n)
<1>1. x \in LiveOrder /\ x \in InBook(bk, b)  BY AtInBook
<1>2. /\ Left(x) \in Nat \ {0} /\ x.price \in Nat
      /\ LeftOf[x] = Left(x) /\ CostOf[x] = Cost(Left(x), x.price)
  BY <1>1, LiveTyped DEF LeftOf, CostOf
<1>3. Worth(LeftOf, bk, B, v) \in Nat /\ Worth(CostOf, bk, B, v) \in Nat
  BY WorthNat, ValuesTyped
<1>4. Cost(Left(x) - n, x.price) + Cost(n, x.price) <= Cost(Left(x), x.price)
      /\ Cost(Left(x) - n, x.price) \in Nat /\ Cost(n, x.price) \in Nat
      /\ Cost(Left(x), x.price) \in Nat
  BY <1>2, CostSplits
<1>5. x.filledquantity + n >= x.quantity <=> n = Left(x)
  BY <1>1 DEF LiveOrder, RestingOrder, Order, Left
<1>6. CASE n = Left(x)
  <2>1. new = Removed(bk, b, i)  BY <1>5, <1>6 DEF AfterFill
  <2>2. /\ b \in B /\ x.user_key = v =>
             /\ Worth(LeftOf, new, B, v) = Worth(LeftOf, bk, B, v) - LeftOf[x]
             /\ Worth(CostOf, new, B, v) = Worth(CostOf, bk, B, v) - CostOf[x]
        /\ ~(b \in B /\ x.user_key = v) =>
             /\ Worth(LeftOf, new, B, v) = Worth(LeftOf, bk, B, v)
             /\ Worth(CostOf, new, B, v) = Worth(CostOf, bk, B, v)
    BY <2>1, RemovedWorth, ValuesTyped
  <2> HIDE DEF x, new
  <2>3. LeftOf[x] = n /\ CostOf[x] = Cost(n, x.price)  BY <1>2, <1>6
  <2> QED  BY <1>3, <1>4, <2>2, <2>3 DEF x, new
<1>7. CASE n # Left(x)
  <2>1. new = Traded(bk, b, i, n)  BY <1>5, <1>7 DEF AfterFill
  <2>2. n < Left(x)  BY <1>2, <1>7
  <2>3. /\ b \in B /\ x.user_key = v =>
             /\ Worth(LeftOf, new, B, v)
                  = Worth(LeftOf, bk, B, v) - LeftOf[x] + LeftOf[More(x, n)]
             /\ Worth(CostOf, new, B, v)
                  = Worth(CostOf, bk, B, v) - CostOf[x] + CostOf[More(x, n)]
        /\ ~(b \in B /\ x.user_key = v) =>
             /\ Worth(LeftOf, new, B, v) = Worth(LeftOf, bk, B, v)
             /\ Worth(CostOf, new, B, v) = Worth(CostOf, bk, B, v)
    BY <2>1, <2>2, TradedWorth, ValuesTyped
  <2>4. /\ More(x, n) \in LiveOrder /\ Left(More(x, n)) = Left(x) - n
        /\ More(x, n).price = x.price
    BY <1>1, <2>2, MoreLeft
  <2>5. LeftOf[More(x, n)] = Left(x) - n /\ CostOf[More(x, n)] = Cost(Left(x) - n, x.price)
    BY <2>4 DEF LeftOf, CostOf
  <2> HIDE DEF x, new
  <2> QED  BY <1>2, <1>3, <1>4, <2>3, <2>5 DEF x, new
<1> QED  BY <1>6, <1>7

-----------------------------------------------------------------------------
(* The locks *)

\* What the order in flight still needs of its owner's locks.
AskTaking(v, k) ==
  IF LimitInFlight /\ Taking(v, "Sell") /\ token = k THEN Left(taker)
  ELSE IF MarketInFlight /\ Taking(v, "Sell") /\ token = k THEN taker.quantity ELSE 0
BidTaking(v) ==
  IF LimitInFlight /\ Taking(v, "Buy") THEN Cost(Left(taker), taker.price)
  ELSE IF MarketInFlight /\ Taking(v, "Buy") THEN taker.quantity ELSE 0

\* The locked tokens of every user are its asks, of every kind.
AsksHold(locked, bk, v, k, n) == Of(locked, v, k) = AskWorth(bk, v, k) + n
\* The locked collateral of every user covers its bids.
BidsHold(locked, bk, v, n) == locked[v] >= BidWorth(bk, v) + n

AsksInv == \A v \in Users, k \in Tokens : AsksHold(locked_token, book, v, k, AskTaking(v, k))
BidsInv == \A v \in Users : BidsHold(locked_collateral, book, v, BidTaking(v))

\* The last committed accounts cover them, too: a rollback returns to them.
SavedBacked ==
  /\ \A v \in Users, k \in Tokens : AsksHold(saved.locked_token, saved.book, v, k, 0)
  /\ \A v \in Users : BidsHold(saved.locked_collateral, saved.book, v, 0)

BackedInv == AsksInv /\ BidsInv /\ SavedBacked

LEMMA BackedIs ==
  ASSUME TypeOK, BookInv
  PROVE  BackedInv => AsksBacked /\ BidsBacked
<1> SUFFICES ASSUME BackedInv PROVE AsksBacked /\ BidsBacked
  OBVIOUS
<1>1. book \in BookTable /\ BookOK(book, next_order_id)
  BY AccountsTyped DEF TypeOK, Balances, BookTable, BookInv
<1>2. \A b \in Books : Resting(b) = InBook(book, b)  BY DEF Resting, InBook
<1>3. ASSUME NEW v \in Users, NEW k \in Tokens
      PROVE  locked_token[<<v, k>>]
               = SumFunction([o \in {o \in Resting(<<k, "Sell">>) : o.user_key = v} |-> Left(o)])
                 + AskTaking(v, k)
  <2> DEFINE asks == {o \in Resting(<<k, "Sell">>) : o.user_key = v}
             f == [o \in asks |-> Left(o)]
             S == Mine(book, Asks(k), v)
  <2>1. asks = S
    <3>1. <<k, "Sell">> \in Books  BY DEF Books, Sides
    <3>2. UNION {InBook(book, b) : b \in Asks(k)} = InBook(book, <<k, "Sell">>)  BY DEF Asks
    <3> QED  BY <1>2, <3>1, <3>2 DEF Mine
  <2>2. IsFiniteSet(S) /\ S \subseteq LiveOrder  BY <1>1, MineLive, SidesTyped
  <2>3. \A o \in S : LeftOf[o] \in Int /\ LeftOf[o] = f[o]
    BY <2>1, <2>2, LiveTyped DEF LeftOf
  <2>4. SumFunction(f) = SumFunctionOnSet(f, S)
    <3>1. DOMAIN f = S  BY <2>1
    <3> QED  BY <3>1 DEF SumFunction
  <2> HIDE DEF f, S, asks
  <2>5. SumFunctionOnSet(LeftOf, S) = SumFunctionOnSet(f, S)  BY <2>2, <2>3, SumAgrees
  <2>6. Of(locked_token, v, k) = SumFunctionOnSet(LeftOf, S) + AskTaking(v, k)
    BY DEF BackedInv, AsksInv, AsksHold, AskWorth, Worth, S
  <2> QED  BY <2>4, <2>5, <2>6 DEF Of, f, asks
<1>4. AsksBacked  BY <1>3 DEF AsksBacked, AskTaking
<1>5. ASSUME NEW v \in Users
      PROVE  locked_collateral[v] >=
               SumFunction([o \in {o \in UNION {Resting(<<k, "Buy">>) : k \in Tokens} :
                                     o.user_key = v} |-> Cost(Left(o), o.price)])
               + BidTaking(v)
  <2> DEFINE bids == {o \in UNION {Resting(<<k, "Buy">>) : k \in Tokens} : o.user_key = v}
             f == [o \in bids |-> Cost(Left(o), o.price)]
             S == Mine(book, Bids, v)
  <2>1. bids = S
    <3>1. \A k \in Tokens : <<k, "Buy">> \in Books  BY DEF Books, Sides
    <3>2. {InBook(book, b) : b \in Bids} = {InBook(book, <<k, "Buy">>) : k \in Tokens}
      BY DEF Bids
    <3>3. {InBook(book, <<k, "Buy">>) : k \in Tokens} = {Resting(<<k, "Buy">>) : k \in Tokens}
      BY <1>2, <3>1
    <3> QED  BY <3>2, <3>3 DEF Mine
  <2>2. IsFiniteSet(S) /\ S \subseteq LiveOrder  BY <1>1, MineLive, SidesTyped
  <2>3. \A o \in S : CostOf[o] \in Int /\ CostOf[o] = f[o]
    <3>1. \A o \in S : CostOf[o] = Cost(Left(o), o.price) /\ f[o] = Cost(Left(o), o.price)
      BY <2>1, <2>2 DEF CostOf
    <3>2. \A o \in S : CostOf[o] \in Nat  BY <2>2, ValuesTyped
    <3> QED  BY <3>1, <3>2
  <2>4. SumFunction(f) = SumFunctionOnSet(f, S)
    <3>1. DOMAIN f = S  BY <2>1
    <3> QED  BY <3>1 DEF SumFunction
  <2> HIDE DEF f, S, bids
  <2>5. SumFunctionOnSet(CostOf, S) = SumFunctionOnSet(f, S)  BY <2>2, <2>3, SumAgrees
  <2>6. locked_collateral[v] >= SumFunctionOnSet(CostOf, S) + BidTaking(v)
    BY DEF BackedInv, BidsInv, BidsHold, BidWorth, Worth, S
  <2> QED  BY <2>4, <2>5, <2>6 DEF f, bids
<1>6. BidsBacked  BY <1>5 DEF BidsBacked, BidTaking
<1> QED  BY <1>4, <1>6

LEMMA NothingTaken ==
  ~LimitInFlight /\ ~MarketInFlight =>
    /\ \A v, k : AskTaking(v, k) = 0
    /\ \A v : BidTaking(v) = 0
BY DEF AskTaking, BidTaking

LEMMA NothingTakenNext ==
  ~LimitInFlight' /\ ~MarketInFlight' =>
    /\ \A v, k : AskTaking(v, k)' = 0
    /\ \A v : BidTaking(v)' = 0
BY DEF AskTaking, BidTaking

LEMMA CommitBacked ==
  ASSUME Commit,
         \A v \in Users, k \in Tokens : AsksHold(locked_token', book', v, k, 0),
         \A v \in Users : BidsHold(locked_collateral', book', v, 0)
  PROVE  BackedInv'
<1>1. ~LimitInFlight' /\ ~MarketInFlight'
  BY DEF Commit, Idle, LimitInFlight, MarketInFlight
<1>2. /\ \A v, k : AskTaking(v, k)' = 0
      /\ \A v : BidTaking(v)' = 0
  BY <1>1, NothingTakenNext
<1>3. \A v \in Users, k \in Tokens : AsksHold(locked_token', book', v, k, AskTaking(v, k)')
  BY <1>2
<1>4. \A v \in Users : BidsHold(locked_collateral', book', v, BidTaking(v)')
  BY <1>2
<1>5. AsksInv' /\ BidsInv'  BY <1>3, <1>4 DEF AsksInv, BidsInv
<1>6. /\ saved'.locked_token = locked_token' /\ saved'.locked_collateral = locked_collateral'
      /\ saved'.book = book'
  BY DEF Commit, Accounts
<1>7. SavedBacked'  BY <1>6 DEF SavedBacked
<1> QED  BY <1>5, <1>7 DEF BackedInv

LEMMA SavedStays ==
  ASSUME SavedBacked, saved' = saved
  PROVE  SavedBacked'
BY DEF SavedBacked

LEMMA KeepsBacked ==
  ASSUME BackedInv, UNCHANGED <<saved, book, locked_token, locked_collateral>>,
         \A v \in Users, k \in Tokens : AskTaking(v, k)' = AskTaking(v, k),
         \A v \in Users : BidTaking(v)' = BidTaking(v)
  PROVE  BackedInv'
<1>1. SavedBacked'  BY SavedStays DEF BackedInv
<1>2. \A v \in Users, k \in Tokens : AsksHold(locked_token', book', v, k, AskTaking(v, k)')
  BY DEF BackedInv, AsksInv
<1>3. \A v \in Users : BidsHold(locked_collateral', book', v, BidTaking(v)')
  BY DEF BackedInv, BidsInv
<1> QED  BY <1>1, <1>2, <1>3 DEF BackedInv, AsksInv, BidsInv

\* A user's tokens of one kind, after it locked or lost some of them.
LEMMA LocksMove ==
  ASSUME NEW f \in [Users -> Nat], NEW v \in Users, NEW n \in Nat, NEW w \in Users
  PROVE  /\ f[w] \in Nat
         /\ w = v => Plus(f, v, n)[w] = f[w] + n /\ Minus(f, v, n)[w] = f[w] - n
         /\ w # v => Plus(f, v, n)[w] = f[w] /\ Minus(f, v, n)[w] = f[w]
BY PlusAt, MinusAt

\* The two instructions lock what they are about to need.
LEMMA LockBacked ==
  ASSUME Balances, BookInv, NEW v \in Users, NEW side \in Sides, NEW k \in Tokens,
         NEW tokens \in Nat, NEW amount \in Nat, Lock(v, side, k, tokens, amount),
         UNCHANGED <<book, saved>>, BackedInv, ~LimitInFlight, ~MarketInFlight,
         \A w \in Users, j \in Tokens :
           /\ side = "Sell" /\ w = v /\ j = k => AskTaking(w, j)' = tokens
           /\ ~(side = "Sell" /\ w = v /\ j = k) => AskTaking(w, j)' = 0,
         \A w \in Users :
           /\ side = "Buy" /\ w = v => BidTaking(w)' = amount
           /\ ~(side = "Buy" /\ w = v) => BidTaking(w)' = 0
  PROVE  BackedInv'
<1>0. /\ book \in BookTable /\ BookOK(book, next_order_id) /\ locked_token \in TokenTable
      /\ locked_collateral \in [Users -> Nat] /\ book' = book
  BY DEF Balances, TokenTable, BookTable, BookInv
<1>1. SavedBacked'  BY SavedStays DEF BackedInv
<1>2. /\ \A w \in Users, j \in Tokens : Of(locked_token, w, j) = AskWorth(book, w, j)
      /\ \A w \in Users : locked_collateral[w] >= BidWorth(book, w)
  <2>1. /\ \A w \in Users, j \in Tokens : Of(locked_token, w, j) = AskWorth(book, w, j) + 0
        /\ \A w \in Users : locked_collateral[w] >= BidWorth(book, w) + 0
    BY NothingTaken DEF BackedInv, AsksInv, BidsInv, AsksHold, BidsHold
  <2> QED  BY <1>0, <2>1, WorthsTyped
<1>3. CASE side = "Buy" /\ LockCollateral(v, amount)
  <2>1. /\ locked_collateral' = Plus(locked_collateral, v, amount)
        /\ locked_token' = locked_token
    BY <1>3 DEF LockCollateral, Plus
  <2>2. ASSUME NEW w \in Users, NEW j \in Tokens
        PROVE  AsksHold(locked_token', book', w, j, AskTaking(w, j)')
    BY <1>0, <1>2, <1>3, <2>1, WorthsTyped DEF AsksHold
  <2>3. ASSUME NEW w \in Users PROVE BidsHold(locked_collateral', book', w, BidTaking(w)')
    <3>1. BidWorth(book, w) \in Nat /\ locked_collateral[w] >= BidWorth(book, w)
      BY <1>0, <1>2, WorthsTyped
    <3>2. /\ locked_collateral[w] \in Nat
          /\ w = v => locked_collateral'[w] = locked_collateral[w] + amount
          /\ w # v => locked_collateral'[w] = locked_collateral[w]
      BY <1>0, <2>1, LocksMove
    <3>3. w = v => BidTaking(w)' = amount  BY <1>3
    <3>4. w # v => BidTaking(w)' = 0  BY <1>3
    <3> QED  BY <1>0, <3>1, <3>2, <3>3, <3>4 DEF BidsHold
  <2> QED  BY <1>1, <2>2, <2>3 DEF BackedInv, AsksInv, BidsInv
<1>4. CASE side = "Sell" /\ LockTokens(v, k, tokens)
  <2>1. /\ locked_token' = Gain(locked_token, v, k, tokens)
        /\ locked_collateral' = locked_collateral
    BY <1>4 DEF LockTokens, Gain
  <2>2. ASSUME NEW w \in Users, NEW j \in Tokens
        PROVE  AsksHold(locked_token', book', w, j, AskTaking(w, j)')
    <3>1. AskWorth(book, w, j) \in Nat /\ Of(locked_token, w, j) = AskWorth(book, w, j)
      BY <1>0, <1>2, WorthsTyped
    <3>2. /\ w = v /\ j = k => Of(locked_token', w, j) = Of(locked_token, w, j) + tokens
          /\ ~(w = v /\ j = k) => Of(locked_token', w, j) = Of(locked_token, w, j)
      BY <1>0, <2>1, OfMoves
    <3>3. /\ w = v /\ j = k => AskTaking(w, j)' = tokens
          /\ ~(w = v /\ j = k) => AskTaking(w, j)' = 0
      BY <1>4
    <3> QED  BY <1>0, <3>1, <3>2, <3>3 DEF AsksHold
  <2>3. ASSUME NEW w \in Users PROVE BidsHold(locked_collateral', book', w, BidTaking(w)')
    <3>1. BidTaking(w)' = 0 /\ locked_collateral[w] >= BidWorth(book, w)
          /\ BidWorth(book, w) \in Nat /\ locked_collateral[w] \in Nat
      BY <1>0, <1>2, <1>4, WorthsTyped
    <3> QED  BY <1>0, <2>1, <3>1 DEF BidsHold
  <2> QED  BY <1>1, <2>2, <2>3 DEF BackedInv, AsksInv, BidsInv
<1> QED  BY <1>3, <1>4 DEF Lock

LEMMA BeginBacked == TypeOK /\ BookInv /\ BackedInv /\ Begin => BackedInv'
<1> SUFFICES ASSUME TypeOK, BookInv, BackedInv, Begin PROVE BackedInv'  OBVIOUS
<1>1. Balances  BY AccountsTyped DEF TypeOK
<1>2. PICK v \in Users, side \in Sides, k \in Tokens, n \in Iterations,
           accounts \in AccountLists :
        \/ \E quantity \in Quantities, price \in Prices :
             PlaceOrder(v, side, k, quantity, price, n, accounts)
        \/ \E amount \in Amounts : MarketOrder(v, side, k, amount, n, accounts)
  BY DEF Begin
<1>3. side \in {"Buy", "Sell"}  BY DEF Sides
<1>4. ASSUME NEW quantity \in Quantities, NEW price \in Prices,
             PlaceOrder(v, side, k, quantity, price, n, accounts)
      PROVE  BackedInv'
  <2>1. /\ ~LimitInFlight /\ ~MarketInFlight /\ LimitInFlight' /\ ~MarketInFlight'
    BY <1>4 DEF PlaceOrder, Open, MarketInFlight, LimitInFlight
  <2>2. quantity \in Nat /\ price \in Nat /\ Cost(quantity, price) \in Nat
    BY CostNat, ParametersAssumption
  <2>3. /\ Lock(v, side, k, quantity, Cost(quantity, price))
        /\ UNCHANGED <<book, saved>>
    BY <1>4 DEF PlaceOrder
  <2>4. /\ taker'.user_key = v /\ taker'.side = side /\ taker'.token_type = k
        /\ taker'.price = price /\ Left(taker') = quantity
    BY <1>4, <2>2 DEF PlaceOrder, Left
  <2>5. ASSUME NEW w \in Users, NEW j \in Tokens
        PROVE  /\ side = "Sell" /\ w = v /\ j = k => AskTaking(w, j)' = quantity
               /\ ~(side = "Sell" /\ w = v /\ j = k) => AskTaking(w, j)' = 0
    BY <2>1, <2>4 DEF AskTaking, Taking, token
  <2>6. ASSUME NEW w \in Users
        PROVE  /\ side = "Buy" /\ w = v => BidTaking(w)' = Cost(quantity, price)
               /\ ~(side = "Buy" /\ w = v) => BidTaking(w)' = 0
    BY <2>1, <2>4 DEF BidTaking, Taking
  <2> QED  BY <1>1, <2>1, <2>2, <2>3, <2>5, <2>6, LockBacked
<1>5. ASSUME NEW amount \in Amounts, MarketOrder(v, side, k, amount, n, accounts)
      PROVE  BackedInv'
  <2>1. /\ ~LimitInFlight /\ ~MarketInFlight /\ ~LimitInFlight' /\ MarketInFlight'
    BY <1>5 DEF MarketOrder, Open, MarketInFlight, LimitInFlight
  <2>2. amount \in Nat  BY ParametersAssumption
  <2>3. /\ Lock(v, side, k, amount, amount)
        /\ UNCHANGED <<book, saved>>
    BY <1>5 DEF MarketOrder
  <2>4. /\ taker'.user_key = v /\ taker'.side = side /\ taker'.token_type = k
        /\ taker'.quantity = amount
    BY <1>5 DEF MarketOrder
  <2>5. ASSUME NEW w \in Users, NEW j \in Tokens
        PROVE  /\ side = "Sell" /\ w = v /\ j = k => AskTaking(w, j)' = amount
               /\ ~(side = "Sell" /\ w = v /\ j = k) => AskTaking(w, j)' = 0
    BY <2>1, <2>4 DEF AskTaking, Taking, token
  <2>6. ASSUME NEW w \in Users
        PROVE  /\ side = "Buy" /\ w = v => BidTaking(w)' = amount
               /\ ~(side = "Buy" /\ w = v) => BidTaking(w)' = 0
    BY <2>1, <2>4 DEF BidTaking, Taking
  <2> QED  BY <1>1, <2>1, <2>2, <2>3, <2>5, <2>6, LockBacked
<1> QED  BY <1>2, <1>4, <1>5

\* A fill takes from one order of one book.
LEMMA FillMakerBook ==
  ASSUME TypeOK, BookInv, InLoop, NEW n \in Nat \ {0}, n <= Left(maker), FillMaker(n)
  PROVE  /\ \A v \in Users, k \in Tokens :
              /\ taker.side = "Buy" /\ v = maker.user_key /\ k = token =>
                   AskWorth(book', v, k) = AskWorth(book, v, k) - n
              /\ ~(taker.side = "Buy" /\ v = maker.user_key /\ k = token) =>
                   AskWorth(book', v, k) = AskWorth(book, v, k)
         /\ \A v \in Users :
              /\ taker.side = "Sell" /\ v = maker.user_key =>
                   BidWorth(book', v) + Cost(n, maker.price) <= BidWorth(book, v)
              /\ ~(taker.side = "Sell" /\ v = maker.user_key) =>
                   BidWorth(book', v) = BidWorth(book, v)
<1>1. /\ book \in BookTable /\ BookOK(book, next_order_id)
  BY AccountsTyped DEF TypeOK, Balances, BookTable, BookInv
<1>2. /\ opposite \in Books /\ idx \in Positions(book, opposite)
      /\ maker = At(book, opposite, idx) /\ taker.side \in Sides /\ token \in Tokens
  BY TakerTyped, MakerTyped DEF Positions, At, maker
<1>3. book' = AfterFill(book, opposite, idx, n)
  BY <1>2 DEF FillMaker, AfterFill, Removed, Traded
<1>4. /\ \A k \in Tokens : opposite \in Asks(k) <=> taker.side = "Buy" /\ k = token
      /\ opposite \in Bids <=> taker.side = "Sell"
  BY <1>2 DEF opposite, Asks, Bids, Other, Sides, token
<1>5. ASSUME NEW v \in Users, NEW k \in Tokens
      PROVE  /\ taker.side = "Buy" /\ v = maker.user_key /\ k = token =>
                   AskWorth(book', v, k) = AskWorth(book, v, k) - n
             /\ ~(taker.side = "Buy" /\ v = maker.user_key /\ k = token) =>
                   AskWorth(book', v, k) = AskWorth(book, v, k)
  <2>1. /\ opposite \in Asks(k) /\ maker.user_key = v =>
              Worth(LeftOf, AfterFill(book, opposite, idx, n), Asks(k), v)
                = Worth(LeftOf, book, Asks(k), v) - n
        /\ ~(opposite \in Asks(k) /\ maker.user_key = v) =>
              Worth(LeftOf, AfterFill(book, opposite, idx, n), Asks(k), v)
                = Worth(LeftOf, book, Asks(k), v)
    BY <1>1, <1>2, FillWorth, SidesTyped
  <2> QED  BY <1>3, <1>4, <2>1 DEF AskWorth
<1>6. ASSUME NEW v \in Users
      PROVE  /\ taker.side = "Sell" /\ v = maker.user_key =>
                   BidWorth(book', v) + Cost(n, maker.price) <= BidWorth(book, v)
             /\ ~(taker.side = "Sell" /\ v = maker.user_key) =>
                   BidWorth(book', v) = BidWorth(book, v)
  <2>1. /\ opposite \in Bids /\ maker.user_key = v =>
              Worth(CostOf, AfterFill(book, opposite, idx, n), Bids, v)
                + Cost(n, maker.price) <= Worth(CostOf, book, Bids, v)
        /\ ~(opposite \in Bids /\ maker.user_key = v) =>
              Worth(CostOf, AfterFill(book, opposite, idx, n), Bids, v)
                = Worth(CostOf, book, Bids, v)
    BY <1>1, <1>2, FillWorth, SidesTyped
  <2> QED  BY <1>3, <1>4, <2>1 DEF BidWorth
<1> QED  BY <1>5, <1>6

\* The accounts after a step that leaves the next order number alone.
LEMMA NextBook ==
  ASSUME TypeOK, TypeOK', BookInv'
  PROVE  /\ book \in BookTable /\ book' \in BookTable /\ BookOK(book', next_order_id')
         /\ locked_token \in TokenTable /\ locked_token' \in TokenTable
         /\ locked_collateral \in [Users -> Nat] /\ locked_collateral' \in [Users -> Nat]
BY AccountsTyped, AccountsTypedNext DEF TypeOK, Balances, BookTable, TokenTable, BookInv

LEMMA TakingTyped ==
  ASSUME TypeOK, NEW v, NEW k, LimitInFlight => Left(taker) \in Nat
  PROVE  AskTaking(v, k) \in Nat /\ BidTaking(v) \in Nat
<1>1. taker.quantity \in Nat /\ taker.price \in Nat  BY TakerTyped
<1>2. LimitInFlight => Cost(Left(taker), taker.price) \in Nat  BY <1>1, CostNat
<1> QED  BY <1>1, <1>2 DEF AskTaking, BidTaking

LEMMA LimitFillBacked ==
  TypeOK /\ TypeOK' /\ BookInv /\ BookInv' /\ BackedInv /\ (LimitFillBuy \/ LimitFillSell)
    => BackedInv'
<1> SUFFICES ASSUME TypeOK, TypeOK', BookInv, BookInv', BackedInv,
                    LimitFillBuy \/ LimitFillSell
             PROVE  BackedInv'
  OBVIOUS
<1> DEFINE n == LimitQty
           other == maker.user_key
<1>1. LimitTrades /\ LimitAffords /\ LimitFill /\ FillMaker(n)
  BY DEF LimitFillBuy, LimitFillSell, LimitFill
<1>2. /\ InLoop /\ pc = "limit" /\ n \in Nat \ {0} /\ n <= Left(taker) /\ n <= Left(maker)
      /\ other \in Users /\ other # signer /\ maker.price \in Nat /\ Left(taker) \in Nat
  <2>1. /\ InLoop /\ pc = "limit" /\ n \in Nat \ {0} /\ n <= Left(taker) /\ n <= Left(maker)
        /\ other \in Users /\ other # signer
    BY <1>1, LimitTradeTyped
  <2> HIDE DEF n, other
  <2>2. maker.price \in Nat  BY <2>1, MakerTyped
  <2>3. taker.quantity \in Nat /\ taker.filledquantity \in Nat  BY TakerTyped
  <2>4. Left(taker) \in Nat  BY <2>1, <2>3 DEF Left
  <2> QED  BY <2>1, <2>2, <2>4
<1>3. /\ signer \in Users /\ token \in Tokens /\ taker.price \in Nat /\ taker.side \in {"Buy", "Sell"}
  BY TakerTyped DEF Sides
<1>4. /\ LimitInFlight /\ LimitInFlight' /\ ~MarketInFlight /\ ~MarketInFlight'
      /\ saved' = saved
  BY <1>1, <1>2 DEF LimitFill, LimitInFlight, MarketInFlight
<1>5. /\ taker'.side = taker.side /\ taker'.user_key = signer /\ taker'.token_type = token
      /\ taker'.price = taker.price /\ Left(taker') = Left(taker) - n
  <2>1. taker \in Order /\ taker' = [taker EXCEPT !.filledquantity = @ + n]
    BY <1>1 DEF LimitFill, TypeOK
  <2> HIDE DEF n
  <2> QED  BY <1>2, <2>1 DEF Order, Left, signer, token
<1>6. /\ \A v \in Users, k \in Tokens :
              /\ taker.side = "Buy" /\ v = other /\ k = token =>
                   AskWorth(book', v, k) = AskWorth(book, v, k) - n
              /\ ~(taker.side = "Buy" /\ v = other /\ k = token) =>
                   AskWorth(book', v, k) = AskWorth(book, v, k)
      /\ \A v \in Users :
              /\ taker.side = "Sell" /\ v = other =>
                   BidWorth(book', v) + Cost(n, maker.price) <= BidWorth(book, v)
              /\ ~(taker.side = "Sell" /\ v = other) =>
                   BidWorth(book', v) = BidWorth(book, v)
  BY <1>1, <1>2, FillMakerBook
<1>7. /\ book \in BookTable /\ book' \in BookTable
      /\ BookOK(book, next_order_id) /\ BookOK(book', next_order_id')
      /\ locked_token \in TokenTable /\ locked_collateral \in [Users -> Nat]
  BY NextBook DEF BookInv
<1>8. /\ Cost(Left(taker) - n, taker.price) \in Nat /\ Cost(n, taker.price) \in Nat
      /\ Cost(Left(taker), taker.price) \in Nat
      /\ Cost(Left(taker) - n, taker.price) + Cost(n, taker.price)
           <= Cost(Left(taker), taker.price)
      /\ Cost(n, maker.price) \in Nat
  BY <1>2, <1>3, CostSplits, CostNat
<1>9. SavedBacked'  BY <1>4, SavedStays DEF BackedInv
<1>10. /\ \A v \in Users, k \in Tokens : Of(locked_token, v, k) = AskWorth(book, v, k) + AskTaking(v, k)
       /\ \A v \in Users : locked_collateral[v] >= BidWorth(book, v) + BidTaking(v)
  BY DEF BackedInv, AsksInv, BidsInv, AsksHold, BidsHold
<1>11. CASE LimitFillBuy
  <2>1. /\ taker.side = "Buy"
        /\ locked_collateral' = Minus(locked_collateral, signer, Cost(n, taker.price))
        /\ locked_token' = Lose(locked_token, other, token, n)
    BY <1>11 DEF LimitFillBuy, LockedAtOurPrice, Minus, Lose
  <2>2. /\ \A v, k : AskTaking(v, k) = 0 /\ AskTaking(v, k)' = 0
        /\ \A v : /\ v = signer => /\ BidTaking(v) = Cost(Left(taker), taker.price)
                                   /\ BidTaking(v)' = Cost(Left(taker) - n, taker.price)
                  /\ v # signer => BidTaking(v) = 0 /\ BidTaking(v)' = 0
    BY <1>4, <1>5, <2>1 DEF AskTaking, BidTaking, Taking, signer
  <2> HIDE DEF n, other
  <2>3. ASSUME NEW v \in Users, NEW k \in Tokens
        PROVE  AsksHold(locked_token', book', v, k, AskTaking(v, k)')
    <3>1. /\ v = other /\ k = token => Of(locked_token', v, k) = Of(locked_token, v, k) - n
          /\ ~(v = other /\ k = token) => Of(locked_token', v, k) = Of(locked_token, v, k)
      BY <1>2, <1>3, <1>7, <2>1, OfMoves
    <3>2. /\ v = other /\ k = token => AskWorth(book', v, k) = AskWorth(book, v, k) - n
          /\ ~(v = other /\ k = token) => AskWorth(book', v, k) = AskWorth(book, v, k)
      BY <1>6, <2>1
    <3>3. Of(locked_token, v, k) = AskWorth(book, v, k) + 0 /\ AskWorth(book, v, k) \in Nat
      BY <1>7, <1>10, <2>2, WorthsTyped
    <3>4. Of(locked_token', v, k) = AskWorth(book', v, k) + 0
      BY <1>2, <3>1, <3>2, <3>3
    <3> QED  BY <2>2, <3>4 DEF AsksHold
  <2>4. ASSUME NEW v \in Users PROVE BidsHold(locked_collateral', book', v, BidTaking(v)')
    <3>1. /\ locked_collateral[v] \in Nat
          /\ v = signer => locked_collateral'[v] = locked_collateral[v] - Cost(n, taker.price)
          /\ v # signer => locked_collateral'[v] = locked_collateral[v]
      BY <1>3, <1>7, <1>8, <2>1, LocksMove
    <3>2. BidWorth(book', v) = BidWorth(book, v)  BY <1>6, <2>1
    <3>3. locked_collateral[v] >= BidWorth(book, v) + BidTaking(v) /\ BidWorth(book, v) \in Nat
      BY <1>7, <1>10, WorthsTyped
    <3>4. locked_collateral'[v] >= BidWorth(book', v) + BidTaking(v)'
      <4>1. CASE v = signer  BY <1>8, <2>2, <3>1, <3>2, <3>3, <4>1
      <4>2. CASE v # signer  BY <2>2, <3>1, <3>2, <3>3, <4>2
      <4> QED  BY <4>1, <4>2
    <3> QED  BY <3>4 DEF BidsHold
  <2> QED  BY <1>9, <2>3, <2>4 DEF BackedInv, AsksInv, BidsInv
<1>12. CASE LimitFillSell
  <2>1. /\ taker.side = "Sell"
        /\ locked_collateral' = Minus(locked_collateral, other, Cost(n, maker.price))
        /\ locked_token' = Lose(locked_token, signer, token, n)
    BY <1>12 DEF LimitFillSell, LimitPaid, Minus, Lose
  <2>2. /\ \A v : BidTaking(v) = 0 /\ BidTaking(v)' = 0
        /\ \A v, k :
             /\ v = signer /\ k = token => /\ AskTaking(v, k) = Left(taker)
                                           /\ AskTaking(v, k)' = Left(taker) - n
             /\ ~(v = signer /\ k = token) => AskTaking(v, k) = 0 /\ AskTaking(v, k)' = 0
    BY <1>4, <1>5, <2>1 DEF AskTaking, BidTaking, Taking, signer, token
  <2> HIDE DEF n, other
  <2>3. ASSUME NEW v \in Users, NEW k \in Tokens
        PROVE  AsksHold(locked_token', book', v, k, AskTaking(v, k)')
    <3>1. /\ v = signer /\ k = token => Of(locked_token', v, k) = Of(locked_token, v, k) - n
          /\ ~(v = signer /\ k = token) => Of(locked_token', v, k) = Of(locked_token, v, k)
      BY <1>2, <1>3, <1>7, <2>1, OfMoves
    <3>2. AskWorth(book', v, k) = AskWorth(book, v, k)
      BY <1>6, <2>1
    <3>3. Of(locked_token, v, k) = AskWorth(book, v, k) + AskTaking(v, k)
          /\ AskWorth(book, v, k) \in Nat
      BY <1>7, <1>10, WorthsTyped
    <3>4. Of(locked_token', v, k) = AskWorth(book', v, k) + AskTaking(v, k)'
      <4>1. CASE v = signer /\ k = token  BY <1>2, <2>2, <3>1, <3>2, <3>3, <4>1
      <4>2. CASE ~(v = signer /\ k = token)  BY <2>2, <3>1, <3>2, <3>3, <4>2
      <4> QED  BY <4>1, <4>2
    <3> QED  BY <3>4 DEF AsksHold
  <2>4. ASSUME NEW v \in Users PROVE BidsHold(locked_collateral', book', v, BidTaking(v)')
    <3>1. /\ locked_collateral[v] \in Nat
          /\ v = other => locked_collateral'[v] = locked_collateral[v] - Cost(n, maker.price)
          /\ v # other => locked_collateral'[v] = locked_collateral[v]
      BY <1>2, <1>7, <1>8, <2>1, LocksMove
    <3>2. /\ v = other => BidWorth(book', v) + Cost(n, maker.price) <= BidWorth(book, v)
          /\ v # other => BidWorth(book', v) = BidWorth(book, v)
      BY <1>6, <2>1
    <3>3. /\ locked_collateral[v] >= BidWorth(book, v) + 0
          /\ BidWorth(book, v) \in Nat /\ BidWorth(book', v) \in Nat
      BY <1>7, <1>10, <2>2, WorthsTyped
    <3>4. locked_collateral'[v] >= BidWorth(book', v) + 0
      BY <1>8, <3>1, <3>2, <3>3
    <3> QED  BY <2>2, <3>4 DEF BidsHold
  <2> QED  BY <1>9, <2>3, <2>4 DEF BackedInv, AsksInv, BidsInv
<1> QED  BY <1>11, <1>12

LEMMA MarketFillBacked ==
  TypeOK /\ TypeOK' /\ BookInv /\ BookInv' /\ BackedInv /\ (MarketFillBuy \/ MarketFillSell)
    => BackedInv'
<1> SUFFICES ASSUME TypeOK, TypeOK', BookInv, BookInv', BackedInv,
                    MarketFillBuy \/ MarketFillSell
             PROVE  BackedInv'
  OBVIOUS
<1> DEFINE n == MarketQty
           other == maker.user_key
<1>1. MarketTrades /\ MarketFill /\ FillMaker(n)
  BY DEF MarketFillBuy, MarketFillSell, MarketFill
<1>2. /\ InLoop /\ pc = "market" /\ n \in Nat \ {0} /\ n <= Left(maker)
      /\ other \in Users /\ maker.price \in Nat /\ MarketPaid = Cost(n, maker.price)
      /\ MarketPaid \in Nat
  BY <1>1, MarketTradeTyped, MakerTyped DEF MarketPaid
<1>3. token \in Tokens /\ taker.quantity \in Nat /\ taker.side \in {"Buy", "Sell"}
  BY TakerTyped DEF Sides
<1>4. /\ ~LimitInFlight /\ ~LimitInFlight' /\ MarketInFlight /\ MarketInFlight'
      /\ saved' = saved /\ taker' = taker
  BY <1>1, <1>2 DEF MarketFill, LimitInFlight, MarketInFlight
<1>5. /\ \A v, k : AskTaking(v, k)' = AskTaking(v, k)
      /\ \A v : BidTaking(v)' = BidTaking(v)
  BY <1>4 DEF AskTaking, BidTaking, Taking, token
<1>6. /\ \A v \in Users, k \in Tokens :
              /\ taker.side = "Buy" /\ v = other /\ k = token =>
                   AskWorth(book', v, k) = AskWorth(book, v, k) - n
              /\ ~(taker.side = "Buy" /\ v = other /\ k = token) =>
                   AskWorth(book', v, k) = AskWorth(book, v, k)
      /\ \A v \in Users :
              /\ taker.side = "Sell" /\ v = other =>
                   BidWorth(book', v) + Cost(n, maker.price) <= BidWorth(book, v)
              /\ ~(taker.side = "Sell" /\ v = other) =>
                   BidWorth(book', v) = BidWorth(book, v)
  BY <1>1, <1>2, FillMakerBook
<1>7. /\ book \in BookTable /\ book' \in BookTable
      /\ BookOK(book, next_order_id) /\ BookOK(book', next_order_id')
      /\ locked_token \in TokenTable /\ locked_collateral \in [Users -> Nat]
  BY NextBook DEF BookInv
<1>8. SavedBacked'  BY <1>4, SavedStays DEF BackedInv
<1>9. /\ \A v \in Users, k \in Tokens : Of(locked_token, v, k) = AskWorth(book, v, k) + AskTaking(v, k)
      /\ \A v \in Users : locked_collateral[v] >= BidWorth(book, v) + BidTaking(v)
      /\ \A v \in Users, k \in Tokens : AskTaking(v, k) \in Nat
      /\ \A v \in Users : BidTaking(v) \in Nat
  BY <1>4, TakingTyped DEF BackedInv, AsksInv, BidsInv, AsksHold, BidsHold
<1>10. CASE MarketFillBuy
  <2>1. /\ taker.side = "Buy" /\ locked_collateral' = locked_collateral
        /\ locked_token' = Lose(locked_token, other, token, n)
    BY <1>10 DEF MarketFillBuy, Lose
  <2> HIDE DEF n, other
  <2>2. ASSUME NEW v \in Users, NEW k \in Tokens
        PROVE  AsksHold(locked_token', book', v, k, AskTaking(v, k)')
    <3>1. /\ v = other /\ k = token => Of(locked_token', v, k) = Of(locked_token, v, k) - n
          /\ ~(v = other /\ k = token) => Of(locked_token', v, k) = Of(locked_token, v, k)
      BY <1>2, <1>3, <1>7, <2>1, OfMoves
    <3>2. /\ v = other /\ k = token => AskWorth(book', v, k) = AskWorth(book, v, k) - n
          /\ ~(v = other /\ k = token) => AskWorth(book', v, k) = AskWorth(book, v, k)
      BY <1>6, <2>1
    <3>3. /\ Of(locked_token, v, k) = AskWorth(book, v, k) + AskTaking(v, k)
          /\ AskTaking(v, k) \in Nat /\ AskWorth(book, v, k) \in Nat
      BY <1>7, <1>9, WorthsTyped
    <3>4. Of(locked_token', v, k) = AskWorth(book', v, k) + AskTaking(v, k)
      BY <1>2, <3>1, <3>2, <3>3
    <3> QED  BY <1>5, <3>4 DEF AsksHold
  <2>3. ASSUME NEW v \in Users PROVE BidsHold(locked_collateral', book', v, BidTaking(v)')
    <3>1. BidWorth(book', v) = BidWorth(book, v)  BY <1>6, <2>1
    <3> QED  BY <1>5, <1>9, <2>1, <3>1 DEF BidsHold
  <2> QED  BY <1>8, <2>2, <2>3 DEF BackedInv, AsksInv, BidsInv
<1>11. CASE MarketFillSell
  <2>1. /\ taker.side = "Sell" /\ locked_token' = locked_token
        /\ locked_collateral' = Minus(locked_collateral, other, MarketPaid)
    BY <1>11 DEF MarketFillSell, Minus
  <2> HIDE DEF n, other
  <2>2. ASSUME NEW v \in Users, NEW k \in Tokens
        PROVE  AsksHold(locked_token', book', v, k, AskTaking(v, k)')
    <3>1. AskWorth(book', v, k) = AskWorth(book, v, k)  BY <1>6, <2>1
    <3> QED  BY <1>5, <1>9, <2>1, <3>1 DEF AsksHold
  <2>3. ASSUME NEW v \in Users PROVE BidsHold(locked_collateral', book', v, BidTaking(v)')
    <3>1. /\ locked_collateral[v] \in Nat
          /\ v = other => locked_collateral'[v] = locked_collateral[v] - MarketPaid
          /\ v # other => locked_collateral'[v] = locked_collateral[v]
      BY <1>2, <1>7, <2>1, LocksMove
    <3>2. /\ v = other => BidWorth(book', v) + MarketPaid <= BidWorth(book, v)
          /\ v # other => BidWorth(book', v) = BidWorth(book, v)
      BY <1>2, <1>6, <2>1
    <3>3. /\ locked_collateral[v] >= BidWorth(book, v) + BidTaking(v) /\ BidTaking(v) \in Nat
          /\ BidWorth(book, v) \in Nat /\ BidWorth(book', v) \in Nat
      BY <1>7, <1>9, WorthsTyped
    <3>4. locked_collateral'[v] >= BidWorth(book', v) + BidTaking(v)
      BY <1>2, <3>1, <3>2, <3>3
    <3> QED  BY <1>5, <3>4 DEF BidsHold
  <2> QED  BY <1>8, <2>2, <2>3 DEF BackedInv, AsksInv, BidsInv
<1> QED  BY <1>10, <1>11

LEMMA PassesBacked ==
  TypeOK /\ BookInv /\ BackedInv /\ (LimitPasses \/ MarketPasses) => BackedInv'
<1> SUFFICES ASSUME TypeOK, BookInv, BackedInv, LimitPasses \/ MarketPasses PROVE BackedInv'
  OBVIOUS
<1>1. InLoop  BY DEF LimitPasses, MarketPasses, LimitLooksAt, MarketLooksAt
<1>2. Left(maker) # 0  BY <1>1, MakerLive DEF BookInv
<1>3. PassOver(FALSE)  BY <1>2 DEF LimitPasses, MarketPasses, PassOver
<1>4. /\ UNCHANGED <<saved, book, locked_token, locked_collateral, taker, pc>>
  BY <1>3 DEF PassOver, stats
<1>5. /\ \A v \in Users, k \in Tokens : AskTaking(v, k)' = AskTaking(v, k)
      /\ \A v \in Users : BidTaking(v)' = BidTaking(v)
  BY <1>4 DEF AskTaking, BidTaking, Taking, token, LimitInFlight, MarketInFlight
<1> QED  BY <1>4, <1>5, KeepsBacked

\* The invariant, opened at the end of a limit order.
LEMMA AtRest ==
  ASSUME TypeOK, BookInv, BackedInv, pc = "rest", Left(taker) \in Nat
  PROVE  /\ \A v \in Users, k \in Tokens :
              /\ Of(locked_token, v, k) \in Nat /\ AskWorth(book, v, k) \in Nat
              /\ taker.side = "Sell" /\ v = signer /\ k = token =>
                   Of(locked_token, v, k) = AskWorth(book, v, k) + Left(taker)
              /\ ~(taker.side = "Sell" /\ v = signer /\ k = token) =>
                   Of(locked_token, v, k) = AskWorth(book, v, k)
         /\ \A v \in Users :
              /\ locked_collateral[v] \in Nat /\ BidWorth(book, v) \in Nat
              /\ taker.side = "Buy" /\ v = signer =>
                   locked_collateral[v] >= BidWorth(book, v) + Cost(Left(taker), taker.price)
              /\ ~(taker.side = "Buy" /\ v = signer) =>
                   locked_collateral[v] >= BidWorth(book, v)
<1>1. /\ book \in BookTable /\ BookOK(book, next_order_id)
      /\ locked_token \in TokenTable /\ locked_collateral \in [Users -> Nat]
  BY AccountsTyped DEF TypeOK, Balances, BookTable, TokenTable, BookInv
<1>2. LimitInFlight /\ ~MarketInFlight  BY DEF LimitInFlight, MarketInFlight
<1>3. ASSUME NEW v \in Users, NEW k \in Tokens
      PROVE  /\ Of(locked_token, v, k) \in Nat /\ AskWorth(book, v, k) \in Nat
             /\ taker.side = "Sell" /\ v = signer /\ k = token =>
                   Of(locked_token, v, k) = AskWorth(book, v, k) + Left(taker)
             /\ ~(taker.side = "Sell" /\ v = signer /\ k = token) =>
                   Of(locked_token, v, k) = AskWorth(book, v, k)
  <2>1. /\ taker.side = "Sell" /\ v = signer /\ k = token => AskTaking(v, k) = Left(taker)
        /\ ~(taker.side = "Sell" /\ v = signer /\ k = token) => AskTaking(v, k) = 0
    BY <1>2 DEF AskTaking, Taking, signer
  <2>2. Of(locked_token, v, k) = AskWorth(book, v, k) + AskTaking(v, k)
    BY DEF BackedInv, AsksInv, AsksHold
  <2>3. Of(locked_token, v, k) \in Nat /\ AskWorth(book, v, k) \in Nat
    BY <1>1, OfMoves, WorthsTyped
  <2> QED  BY <2>1, <2>2, <2>3
<1>4. ASSUME NEW v \in Users
      PROVE  /\ locked_collateral[v] \in Nat /\ BidWorth(book, v) \in Nat
             /\ taker.side = "Buy" /\ v = signer =>
                   locked_collateral[v] >= BidWorth(book, v) + Cost(Left(taker), taker.price)
             /\ ~(taker.side = "Buy" /\ v = signer) =>
                   locked_collateral[v] >= BidWorth(book, v)
  <2>1. /\ taker.side = "Buy" /\ v = signer => BidTaking(v) = Cost(Left(taker), taker.price)
        /\ ~(taker.side = "Buy" /\ v = signer) => BidTaking(v) = 0
    BY <1>2 DEF BidTaking, Taking, signer
  <2>2. locked_collateral[v] >= BidWorth(book, v) + BidTaking(v)
    BY DEF BackedInv, BidsInv, BidsHold
  <2>3. locked_collateral[v] \in Nat /\ BidWorth(book, v) \in Nat
    BY <1>1, WorthsTyped
  <2> QED  BY <2>1, <2>2, <2>3
<1> QED  BY <1>3, <1>4

\* What is left of a limit order takes its locks to the book.
LEMMA LimitRestsBacked ==
  TypeOK /\ TypeOK' /\ BookInv /\ BookInv' /\ BackedInv /\ LimitRests => BackedInv'
<1> SUFFICES ASSUME TypeOK, TypeOK', BookInv, BookInv', BackedInv, LimitRests
             PROVE  BackedInv'
  OBVIOUS
<1>1. /\ pc = "rest" /\ Commit /\ Left(taker) > 0
      /\ locked_token' = locked_token /\ locked_collateral' = locked_collateral
  BY DEF LimitRests, stats
<1>2. PICK k \in 0..Len(book[own]) : book' = Inserted(book, own, taker, k)
  BY DEF LimitRests, Inserted
<1>3. taker \in LiveOrder /\ Left(taker) \in Nat
  <2>1. taker \in Order /\ taker.price > 0  BY <1>1 DEF TypeOK
  <2>2. taker.quantity \in Nat /\ taker.filledquantity \in Nat  BY TakerTyped
  <2>3. taker.filledquantity < taker.quantity /\ Left(taker) \in Nat
    BY <1>1, <2>2 DEF Left
  <2> QED  BY <2>1, <2>3 DEF LiveOrder, RestingOrder
<1>4. book \in BookTable /\ BookOK(book, taker.id) /\ own \in Books
  BY <1>1, NextBook, TakerTyped DEF BookInv
<1>5. /\ \A j \in Tokens : own \in Asks(j) <=> taker.side = "Sell" /\ j = token
      /\ own \in Bids <=> taker.side = "Buy"
  BY TakerTyped DEF own, Asks, Bids, Sides, token
<1>6. ASSUME NEW v \in Users, NEW j \in Tokens
      PROVE  AsksHold(locked_token', book', v, j, 0)
  <2>1. /\ own \in Asks(j) /\ signer = v =>
             AskWorth(book', v, j) = AskWorth(book, v, j) + LeftOf[taker]
        /\ ~(own \in Asks(j) /\ signer = v) => AskWorth(book', v, j) = AskWorth(book, v, j)
    BY <1>2, <1>3, <1>4, InsertedWorth, SidesTyped, ValuesTyped DEF AskWorth, signer
  <2>2. LeftOf[taker] = Left(taker)  BY <1>3 DEF LeftOf
  <2>3. /\ taker.side = "Sell" /\ v = signer /\ j = token =>
              Of(locked_token, v, j) = AskWorth(book, v, j) + Left(taker)
        /\ ~(taker.side = "Sell" /\ v = signer /\ j = token) =>
              Of(locked_token, v, j) = AskWorth(book, v, j)
        /\ AskWorth(book, v, j) \in Nat
    BY <1>1, <1>3, AtRest
  <2>4. Of(locked_token', v, j) = AskWorth(book', v, j) + 0
    BY <1>1, <1>3, <1>5, <2>1, <2>2, <2>3
  <2> QED  BY <2>4 DEF AsksHold
<1>7. ASSUME NEW v \in Users PROVE BidsHold(locked_collateral', book', v, 0)
  <2>1. /\ own \in Bids /\ signer = v => BidWorth(book', v) = BidWorth(book, v) + CostOf[taker]
        /\ ~(own \in Bids /\ signer = v) => BidWorth(book', v) = BidWorth(book, v)
    BY <1>2, <1>3, <1>4, InsertedWorth, SidesTyped, ValuesTyped DEF BidWorth, signer
  <2>2. CostOf[taker] = Cost(Left(taker), taker.price) /\ CostOf[taker] \in Nat
    BY <1>3, ValuesTyped DEF CostOf
  <2>3. /\ taker.side = "Buy" /\ v = signer =>
              locked_collateral[v] >= BidWorth(book, v) + Cost(Left(taker), taker.price)
        /\ ~(taker.side = "Buy" /\ v = signer) =>
              locked_collateral[v] >= BidWorth(book, v)
        /\ BidWorth(book, v) \in Nat /\ locked_collateral[v] \in Nat
    BY <1>1, <1>3, AtRest
  <2>4. locked_collateral'[v] >= BidWorth(book', v) + 0
    BY <1>1, <1>5, <2>1, <2>2, <2>3
  <2> QED  BY <2>4 DEF BidsHold
<1> QED  BY <1>1, <1>6, <1>7, CommitBacked

LEMMA LimitFilledBacked ==
  TypeOK /\ BookInv /\ BackedInv /\ LimitFilled => BackedInv'
<1> SUFFICES ASSUME TypeOK, BookInv, BackedInv, LimitFilled PROVE BackedInv'
  OBVIOUS
<1>1. /\ pc = "rest" /\ Commit /\ Left(taker) = 0 /\ book' = book
      /\ locked_token' = locked_token /\ locked_collateral' = locked_collateral
  BY DEF LimitFilled, stats
<1>2. Cost(Left(taker), taker.price) = 0
  BY <1>1, CostOfNone, TakerTyped
<1>3. ASSUME NEW v \in Users, NEW k \in Tokens
      PROVE  AsksHold(locked_token', book', v, k, 0)
  BY <1>1, AtRest DEF AsksHold
<1>4. ASSUME NEW v \in Users PROVE BidsHold(locked_collateral', book', v, 0)
  BY <1>1, <1>2, AtRest DEF BidsHold
<1> QED  BY <1>1, <1>3, <1>4, CommitBacked

LEMMA LimitReleasesBacked ==
  TypeOK /\ BookInv /\ BackedInv /\ (LimitReleasesBuy \/ LimitReleasesSell) => BackedInv'
<1> SUFFICES ASSUME TypeOK, BookInv, BackedInv, LimitReleasesBuy \/ LimitReleasesSell
             PROVE BackedInv'
  OBVIOUS
<1>1. /\ pc = "rest" /\ Commit /\ Left(taker) > 0 /\ book' = book
  BY DEF LimitReleasesBuy, LimitReleasesSell, Releases
<1>2. /\ signer \in Users /\ token \in Tokens /\ taker.price \in Nat
      /\ taker.quantity \in Nat /\ taker.filledquantity \in Nat
  BY TakerTyped
<1>3. Left(taker) \in Nat /\ Cost(Left(taker), taker.price) \in Nat
  <2>1. Left(taker) \in Nat  BY <1>1, <1>2 DEF Left
  <2> QED  BY <1>2, <2>1, CostNat
<1>4. locked_token \in TokenTable /\ locked_collateral \in [Users -> Nat]
  BY AccountsTyped DEF TypeOK, Balances, TokenTable
<1>5. CASE LimitReleasesBuy
  <2>1. /\ taker.side = "Buy" /\ locked_token' = locked_token
        /\ locked_collateral' = Minus(locked_collateral, signer, Cost(Left(taker), taker.price))
    BY <1>5 DEF LimitReleasesBuy, UnfilledCollateral, Minus
  <2>2. ASSUME NEW v \in Users, NEW k \in Tokens
        PROVE  AsksHold(locked_token', book', v, k, 0)
    BY <1>1, <1>3, <2>1, AtRest DEF AsksHold
  <2>3. ASSUME NEW v \in Users PROVE BidsHold(locked_collateral', book', v, 0)
    <3>1. /\ v = signer => locked_collateral'[v]
                             = locked_collateral[v] - Cost(Left(taker), taker.price)
          /\ v # signer => locked_collateral'[v] = locked_collateral[v]
      BY <1>2, <1>3, <1>4, <2>1, LocksMove
    <3>2. /\ locked_collateral[v] \in Nat /\ BidWorth(book, v) \in Nat
          /\ v = signer =>
               locked_collateral[v] >= BidWorth(book, v) + Cost(Left(taker), taker.price)
          /\ v # signer => locked_collateral[v] >= BidWorth(book, v)
      BY <1>1, <1>3, <2>1, AtRest
    <3>3. locked_collateral'[v] >= BidWorth(book, v) + 0  BY <1>3, <3>1, <3>2
    <3> QED  BY <1>1, <3>3 DEF BidsHold
  <2> QED  BY <1>1, <2>2, <2>3, CommitBacked
<1>6. CASE LimitReleasesSell
  <2>1. /\ taker.side = "Sell" /\ locked_collateral' = locked_collateral
        /\ locked_token' = Lose(locked_token, signer, token, Left(taker))
    BY <1>6 DEF LimitReleasesSell, Lose
  <2>2. ASSUME NEW v \in Users, NEW k \in Tokens
        PROVE  AsksHold(locked_token', book', v, k, 0)
    <3>1. /\ v = signer /\ k = token =>
               Of(locked_token', v, k) = Of(locked_token, v, k) - Left(taker)
          /\ ~(v = signer /\ k = token) => Of(locked_token', v, k) = Of(locked_token, v, k)
      BY <1>2, <1>3, <1>4, <2>1, OfMoves
    <3>2. /\ AskWorth(book, v, k) \in Nat
          /\ v = signer /\ k = token =>
               Of(locked_token, v, k) = AskWorth(book, v, k) + Left(taker)
          /\ ~(v = signer /\ k = token) => Of(locked_token, v, k) = AskWorth(book, v, k)
      BY <1>1, <1>3, <2>1, AtRest
    <3>3. Of(locked_token', v, k) = AskWorth(book, v, k) + 0  BY <1>3, <3>1, <3>2
    <3> QED  BY <1>1, <3>3 DEF AsksHold
  <2>3. ASSUME NEW v \in Users PROVE BidsHold(locked_collateral', book', v, 0)
    BY <1>1, <1>3, <2>1, AtRest DEF BidsHold
  <2> QED  BY <1>1, <2>2, <2>3, CommitBacked
<1> QED  BY <1>5, <1>6

\* The invariant, opened at the end of a market order.
LEMMA AtSettle ==
  ASSUME TypeOK, BookInv, BackedInv, MarketInFlight
  PROVE  /\ \A v \in Users, k \in Tokens :
              /\ Of(locked_token, v, k) \in Nat /\ AskWorth(book, v, k) \in Nat
              /\ taker.side = "Sell" /\ v = signer /\ k = token =>
                   Of(locked_token, v, k) = AskWorth(book, v, k) + taker.quantity
              /\ ~(taker.side = "Sell" /\ v = signer /\ k = token) =>
                   Of(locked_token, v, k) = AskWorth(book, v, k)
         /\ \A v \in Users :
              /\ locked_collateral[v] \in Nat /\ BidWorth(book, v) \in Nat
              /\ taker.side = "Buy" /\ v = signer =>
                   locked_collateral[v] >= BidWorth(book, v) + taker.quantity
              /\ ~(taker.side = "Buy" /\ v = signer) =>
                   locked_collateral[v] >= BidWorth(book, v)
<1>1. /\ book \in BookTable /\ BookOK(book, next_order_id)
      /\ locked_token \in TokenTable /\ locked_collateral \in [Users -> Nat]
  BY AccountsTyped DEF TypeOK, Balances, BookTable, TokenTable, BookInv
<1>2. ~LimitInFlight  BY DEF LimitInFlight, MarketInFlight
<1>3. ASSUME NEW v \in Users, NEW k \in Tokens
      PROVE  /\ Of(locked_token, v, k) \in Nat /\ AskWorth(book, v, k) \in Nat
             /\ taker.side = "Sell" /\ v = signer /\ k = token =>
                   Of(locked_token, v, k) = AskWorth(book, v, k) + taker.quantity
             /\ ~(taker.side = "Sell" /\ v = signer /\ k = token) =>
                   Of(locked_token, v, k) = AskWorth(book, v, k)
  <2>1. /\ taker.side = "Sell" /\ v = signer /\ k = token => AskTaking(v, k) = taker.quantity
        /\ ~(taker.side = "Sell" /\ v = signer /\ k = token) => AskTaking(v, k) = 0
    BY <1>2 DEF AskTaking, Taking, signer
  <2>2. Of(locked_token, v, k) = AskWorth(book, v, k) + AskTaking(v, k)
    BY DEF BackedInv, AsksInv, AsksHold
  <2>3. Of(locked_token, v, k) \in Nat /\ AskWorth(book, v, k) \in Nat
    BY <1>1, OfMoves, WorthsTyped
  <2> QED  BY <2>1, <2>2, <2>3
<1>4. ASSUME NEW v \in Users
      PROVE  /\ locked_collateral[v] \in Nat /\ BidWorth(book, v) \in Nat
             /\ taker.side = "Buy" /\ v = signer =>
                   locked_collateral[v] >= BidWorth(book, v) + taker.quantity
             /\ ~(taker.side = "Buy" /\ v = signer) =>
                   locked_collateral[v] >= BidWorth(book, v)
  <2>1. /\ taker.side = "Buy" /\ v = signer => BidTaking(v) = taker.quantity
        /\ ~(taker.side = "Buy" /\ v = signer) => BidTaking(v) = 0
    BY <1>2 DEF BidTaking, Taking, signer
  <2>2. locked_collateral[v] >= BidWorth(book, v) + BidTaking(v)
    BY DEF BackedInv, BidsInv, BidsHold
  <2>3. locked_collateral[v] \in Nat /\ BidWorth(book, v) \in Nat
    BY <1>1, WorthsTyped
  <2> QED  BY <2>1, <2>2, <2>3
<1> QED  BY <1>3, <1>4

LEMMA MarketSettlesBacked ==
  TypeOK /\ BookInv /\ BackedInv /\ (MarketSettlesBuy \/ MarketSettlesSell) => BackedInv'
<1> SUFFICES ASSUME TypeOK, BookInv, BackedInv, MarketSettlesBuy \/ MarketSettlesSell
             PROVE BackedInv'
  OBVIOUS
<1>1. MarketInFlight /\ Commit /\ book' = book
  BY DEF MarketSettlesBuy, MarketSettlesSell, MarketInFlight
<1>2. signer \in Users /\ token \in Tokens /\ taker.quantity \in Nat
  BY TakerTyped
<1>3. locked_token \in TokenTable /\ locked_collateral \in [Users -> Nat]
  BY AccountsTyped DEF TypeOK, Balances, TokenTable
<1>4. CASE MarketSettlesBuy
  <2>1. /\ taker.side = "Buy" /\ locked_token' = locked_token
        /\ locked_collateral' = Minus(locked_collateral, signer, taker.quantity)
    BY <1>4 DEF MarketSettlesBuy, Minus
  <2>2. ASSUME NEW v \in Users, NEW k \in Tokens
        PROVE  AsksHold(locked_token', book', v, k, 0)
    BY <1>1, <2>1, AtSettle DEF AsksHold
  <2>3. ASSUME NEW v \in Users PROVE BidsHold(locked_collateral', book', v, 0)
    <3>1. /\ v = signer => locked_collateral'[v] = locked_collateral[v] - taker.quantity
          /\ v # signer => locked_collateral'[v] = locked_collateral[v]
      BY <1>2, <1>3, <2>1, LocksMove
    <3>2. /\ locked_collateral[v] \in Nat /\ BidWorth(book, v) \in Nat
          /\ v = signer => locked_collateral[v] >= BidWorth(book, v) + taker.quantity
          /\ v # signer => locked_collateral[v] >= BidWorth(book, v)
      BY <1>1, <2>1, AtSettle
    <3>3. locked_collateral'[v] >= BidWorth(book, v) + 0  BY <1>2, <3>1, <3>2
    <3> QED  BY <1>1, <3>3 DEF BidsHold
  <2> QED  BY <1>1, <2>2, <2>3, CommitBacked
<1>5. CASE MarketSettlesSell
  <2>1. /\ taker.side = "Sell" /\ locked_collateral' = locked_collateral
        /\ locked_token' = Lose(locked_token, signer, token, taker.quantity)
    BY <1>5 DEF MarketSettlesSell, Lose
  <2>2. ASSUME NEW v \in Users, NEW k \in Tokens
        PROVE  AsksHold(locked_token', book', v, k, 0)
    <3>1. /\ v = signer /\ k = token =>
               Of(locked_token', v, k) = Of(locked_token, v, k) - taker.quantity
          /\ ~(v = signer /\ k = token) => Of(locked_token', v, k) = Of(locked_token, v, k)
      BY <1>2, <1>3, <2>1, OfMoves
    <3>2. /\ AskWorth(book, v, k) \in Nat
          /\ v = signer /\ k = token =>
               Of(locked_token, v, k) = AskWorth(book, v, k) + taker.quantity
          /\ ~(v = signer /\ k = token) => Of(locked_token, v, k) = AskWorth(book, v, k)
      BY <1>1, <2>1, AtSettle
    <3>3. Of(locked_token', v, k) = AskWorth(book, v, k) + 0  BY <1>2, <3>1, <3>2
    <3> QED  BY <1>1, <3>3 DEF AsksHold
  <2>3. ASSUME NEW v \in Users PROVE BidsHold(locked_collateral', book', v, 0)
    BY <1>1, <2>1, AtSettle DEF BidsHold
  <2> QED  BY <1>1, <2>2, <2>3, CommitBacked
<1> QED  BY <1>4, <1>5

LEMMA FailsBacked == BackedInv /\ Fails => BackedInv'
<1> SUFFICES ASSUME BackedInv, Fails PROVE BackedInv'  OBVIOUS
<1>1. /\ locked_token' = saved.locked_token /\ book' = saved.book
      /\ locked_collateral' = saved.locked_collateral /\ saved' = saved
  BY DEF Fails, Rollback
<1>2. ~LimitInFlight' /\ ~MarketInFlight'
  BY DEF Fails, Rollback, Idle, LimitInFlight, MarketInFlight
<1>3. /\ \A v, k : AskTaking(v, k)' = 0
      /\ \A v : BidTaking(v)' = 0
  BY <1>2, NothingTakenNext
<1>4. \A v \in Users, k \in Tokens : AsksHold(locked_token', book', v, k, AskTaking(v, k)')
  BY <1>1, <1>3 DEF BackedInv, SavedBacked
<1>5. \A v \in Users : BidsHold(locked_collateral', book', v, BidTaking(v)')
  BY <1>1, <1>3 DEF BackedInv, SavedBacked
<1>6. SavedBacked'  BY <1>1, SavedStays DEF BackedInv
<1> QED  BY <1>4, <1>5, <1>6 DEF BackedInv, AsksInv, BidsInv

LEMMA BackedStep ==
  TypeOK /\ TypeOK' /\ BookInv /\ BookInv' /\ BackedInv /\ [Next]_vars => BackedInv'
<1> SUFFICES ASSUME TypeOK, TypeOK', BookInv, BookInv', BackedInv, [Next]_vars
             PROVE  BackedInv'
  OBVIOUS
<1>1. ASSUME UNCHANGED <<saved, book, locked_token, locked_collateral, taker>>,
             LimitInFlight' = LimitInFlight, MarketInFlight' = MarketInFlight
      PROVE  BackedInv'
  <2>1. /\ \A v \in Users, k \in Tokens : AskTaking(v, k)' = AskTaking(v, k)
        /\ \A v \in Users : BidTaking(v)' = BidTaking(v)
    BY <1>1 DEF AskTaking, BidTaking, Taking, token
  <2> QED  BY <1>1, <2>1, KeepsBacked
<1>2. CASE Begin  BY <1>2, BeginBacked
<1>3. CASE LimitPasses \/ MarketPasses  BY <1>3, PassesBacked
<1>4. CASE LimitFillBuy \/ LimitFillSell  BY <1>4, LimitFillBacked
<1>5. CASE MarketFillBuy \/ MarketFillSell  BY <1>5, MarketFillBacked
<1>6. CASE LimitLoopEnds \/ MarketLoopEnds
  BY <1>1, <1>6 DEF LimitLoopEnds, MarketLoopEnds, stats, LimitInFlight, MarketInFlight
<1>7. CASE LimitFilled  BY <1>7, LimitFilledBacked
<1>8. CASE LimitRests  BY <1>8, LimitRestsBacked
<1>9. CASE LimitReleasesBuy \/ LimitReleasesSell  BY <1>9, LimitReleasesBacked
<1>10. CASE MarketSettlesBuy \/ MarketSettlesSell  BY <1>10, MarketSettlesBacked
<1>11. CASE Fails  BY <1>11, FailsBacked
<1>12. CASE Tick \/ SetWinningSide \/ UNCHANGED vars
  BY <1>1, <1>12 DEF Tick, SetWinningSide, vars, stats, LimitInFlight, MarketInFlight
<1> QED
  BY <1>2, <1>3, <1>4, <1>5, <1>6, <1>7, <1>8, <1>9, <1>10, <1>11, <1>12 DEF Next, Step

LEMMA BackedInit == Init => BackedInv
<1> SUFFICES ASSUME Init PROVE BackedInv  OBVIOUS
<1>1. ASSUME NEW f, NEW B \in SUBSET Books, NEW v PROVE Worth(f, book, B, v) = 0
  <2>1. \A b \in Books : InBook(book, b) = {}  BY EmptySeq DEF Init, InBook
  <2>2. Mine(book, B, v) = {}  BY <2>1 DEF Mine
  <2> QED  BY <2>2, SumOfNone DEF Worth
<1>2. /\ \A v \in Users, k \in Tokens : AskWorth(book, v, k) = 0
      /\ \A v \in Users : BidWorth(book, v) = 0
  BY <1>1, SidesTyped DEF AskWorth, BidWorth
<1>3. /\ \A v \in Users, k \in Tokens : Of(locked_token, v, k) = 0
      /\ \A v \in Users : locked_collateral[v] = 0
  BY DEF Init, Of
<1>4. /\ \A v, k : AskTaking(v, k) = 0
      /\ \A v : BidTaking(v) = 0
  BY NothingTaken DEF Init, LimitInFlight, MarketInFlight
<1>5. /\ saved.locked_token = locked_token /\ saved.book = book
      /\ saved.locked_collateral = locked_collateral
  BY DEF Init, Accounts
<1> QED  BY <1>2, <1>3, <1>4, <1>5 DEF BackedInv, AsksInv, BidsInv, SavedBacked, AsksHold, BidsHold

\* A user's locked tokens are to the unit what its asks still offer, and what its
\* sale in flight has not sold: no order can be filled out of another one's lock.
THEOREM AsksBackedCorrect == Spec => []AsksBacked
<1>1. TypeOK /\ BookInv /\ BackedInv => AsksBacked  BY BackedIs
<1> QED  BY <1>1, BackedInit, BackedStep, BookInit, BookStep, TypeCorrect, PTL DEF Spec

\* A user's locked collateral covers what each of its bids can still cost: the
\* cost of an order that fills in pieces never exceeds what it locked in one.
THEOREM BidsBackedCorrect == Spec => []BidsBacked
<1>1. TypeOK /\ BookInv /\ BackedInv => BidsBacked  BY BackedIs
<1> QED  BY <1>1, BackedInit, BackedStep, BookInit, BookStep, TypeCorrect, PTL DEF Spec

-----------------------------------------------------------------------------
(* No instruction is refused by its own bookkeeping *)

\* The locks of the order at idx cover all that a fill can take from it.
LEMMA MakerCovered ==
  ASSUME TypeOK, BookInv, BackedInv, InLoop, NEW n \in Nat, n <= Left(maker),
         LimitInFlight => Left(taker) \in Nat
  PROVE  /\ taker.side = "Buy" => Of(locked_token, maker.user_key, token) >= n
         /\ taker.side = "Sell" => locked_collateral[maker.user_key] >= Cost(n, maker.price)
<1> DEFINE v == maker.user_key
<1>1. /\ book \in BookTable /\ BookOK(book, next_order_id)
      /\ locked_token \in TokenTable /\ locked_collateral \in [Users -> Nat]
  BY AccountsTyped DEF TypeOK, Balances, BookTable, TokenTable, BookInv
<1>2. /\ opposite \in Books /\ idx \in Positions(book, opposite)
      /\ maker = At(book, opposite, idx) /\ taker.side \in Sides /\ token \in Tokens
      /\ v \in Users
  BY TakerTyped, MakerTyped DEF Positions, At, maker
<1>3. maker \in InBook(book, opposite) /\ maker \in LiveOrder  BY <1>1, <1>2, AtInBook
<1>4. Left(maker) \in Nat /\ maker.price \in Nat  BY <1>3, LiveTyped
<1> HIDE DEF v
<1>5. maker.user_key = v  BY DEF v
<1>6. ASSUME taker.side = "Buy" PROVE Of(locked_token, v, token) >= n
  <2>1. opposite \in Asks(token)  BY <1>6 DEF opposite, Asks, Other, token
  <2>2. maker \in Mine(book, Asks(token), v)  BY <1>3, <1>5, <2>1, InMine
  <2>3. LeftOf[maker] <= AskWorth(book, v, token) /\ AskWorth(book, v, token) \in Nat
    BY <1>1, <1>2, <2>2, WorthNat, SidesTyped, ValuesTyped DEF AskWorth
  <2>4. LeftOf[maker] = Left(maker)  BY <1>3 DEF LeftOf
  <2>5. Of(locked_token, v, token) = AskWorth(book, v, token) + AskTaking(v, token)
    BY <1>2 DEF BackedInv, AsksInv, AsksHold
  <2>6. AskTaking(v, token) \in Nat  BY TakingTyped
  <2> QED  BY <1>4, <2>3, <2>4, <2>5, <2>6
<1>7. ASSUME taker.side = "Sell" PROVE locked_collateral[v] >= Cost(n, maker.price)
  <2>1. opposite \in Bids  BY <1>2, <1>7 DEF opposite, Bids, Other, token
  <2>2. maker \in Mine(book, Bids, v)  BY <1>3, <1>5, <2>1, InMine
  <2>3. CostOf[maker] <= BidWorth(book, v) /\ BidWorth(book, v) \in Nat
    BY <1>1, <2>2, WorthNat, SidesTyped, ValuesTyped DEF BidWorth
  <2>4. CostOf[maker] = Cost(Left(maker), maker.price)  BY <1>3 DEF CostOf
  <2>5. locked_collateral[v] >= BidWorth(book, v) + BidTaking(v)
    BY <1>2 DEF BackedInv, BidsInv, BidsHold
  <2>6. BidTaking(v) \in Nat /\ locked_collateral[v] \in Nat  BY <1>1, <1>2, TakingTyped
  <2>7. /\ Cost(n, maker.price) <= Cost(Left(maker), maker.price)
        /\ Cost(n, maker.price) \in Nat /\ Cost(Left(maker), maker.price) \in Nat
    BY <1>4, CostFollowsQuantity, CostNat
  <2> QED  BY <2>3, <2>4, <2>5, <2>6, <2>7
<1> QED  BY <1>5, <1>6, <1>7

LEMMA LimitAlwaysAffords ==
  TypeOK /\ BookInv /\ BackedInv /\ LimitTrades => LimitAffords
<1> SUFFICES ASSUME TypeOK, BookInv, BackedInv, LimitTrades PROVE LimitAffords
  OBVIOUS
<1> DEFINE n == LimitQty
<1>1. /\ InLoop /\ pc = "limit" /\ n \in Nat \ {0} /\ n <= Left(taker) /\ n <= Left(maker)
  BY LimitTradeTyped
<1>2. /\ signer \in Users /\ token \in Tokens /\ taker.price \in Nat
      /\ taker.side \in {"Buy", "Sell"}
      /\ taker.quantity \in Nat /\ taker.filledquantity \in Nat /\ maker.price \in Nat
  BY <1>1, TakerTyped, MakerTyped DEF Sides
<1>3. LimitPaid = Cost(n, maker.price) /\ LockedAtOurPrice = Cost(n, taker.price)
  BY DEF LimitPaid, LockedAtOurPrice
<1> HIDE DEF n
<1>4. Left(taker) \in Nat  BY <1>1, <1>2 DEF Left
<1>5. LimitInFlight /\ ~MarketInFlight  BY <1>1 DEF LimitInFlight, MarketInFlight
<1>6. MakerAffords(n, LimitPaid)
  BY <1>1, <1>2, <1>3, <1>4, MakerCovered DEF MakerAffords, Of
<1>7. /\ book \in BookTable /\ BookOK(book, next_order_id)
      /\ locked_token \in TokenTable /\ locked_collateral \in [Users -> Nat]
  BY AccountsTyped DEF TypeOK, Balances, BookTable, TokenTable, BookInv
<1>8. ASSUME taker.side = "Buy"
      PROVE  LockedAtOurPrice >= LimitPaid /\ locked_collateral[signer] >= LockedAtOurPrice
  <2>1. maker.price <= taker.price  BY <1>2, <1>8 DEF LimitTrades, Eligible, PriceMatches
  <2>2. Cost(n, maker.price) <= Cost(n, taker.price)  BY <1>1, <1>2, <2>1, CostFollowsPrice
  <2>3. /\ Cost(n, taker.price) <= Cost(Left(taker), taker.price)
        /\ Cost(n, taker.price) \in Nat /\ Cost(Left(taker), taker.price) \in Nat
        /\ Cost(n, maker.price) \in Nat
    BY <1>1, <1>2, <1>4, CostFollowsQuantity, CostNat
  <2>4. BidTaking(signer) = Cost(Left(taker), taker.price)
    BY <1>5, <1>8 DEF BidTaking, Taking, signer
  <2>5. locked_collateral[signer] >= BidWorth(book, signer) + BidTaking(signer)
    BY <1>2 DEF BackedInv, BidsInv, BidsHold
  <2>6. BidWorth(book, signer) \in Nat /\ locked_collateral[signer] \in Nat
    BY <1>2, <1>7, WorthsTyped
  <2> QED  BY <1>3, <2>2, <2>3, <2>4, <2>5, <2>6
<1>9. ASSUME taker.side = "Sell" PROVE Of(locked_token, signer, token) >= n
  <2>1. AskTaking(signer, token) = Left(taker)
    BY <1>5, <1>9 DEF AskTaking, Taking, signer
  <2>2. Of(locked_token, signer, token) = AskWorth(book, signer, token) + AskTaking(signer, token)
    BY <1>2 DEF BackedInv, AsksInv, AsksHold
  <2>3. AskWorth(book, signer, token) \in Nat  BY <1>2, <1>7, WorthsTyped
  <2> QED  BY <1>1, <1>4, <2>1, <2>2, <2>3
<1> QED  BY <1>2, <1>6, <1>8, <1>9 DEF LimitAffords, Of, n

LEMMA ReleaseAlwaysAffords ==
  TypeOK /\ BookInv /\ BackedInv /\ Releases => ReleaseAffords
<1> SUFFICES ASSUME TypeOK, BookInv, BackedInv, Releases PROVE ReleaseAffords
  OBVIOUS
<1>1. pc = "rest" /\ Left(taker) > 0  BY DEF Releases
<1>2. /\ signer \in Users /\ token \in Tokens /\ taker.price \in Nat
      /\ taker.side \in {"Buy", "Sell"}
      /\ taker.quantity \in Nat /\ taker.filledquantity \in Nat
  BY TakerTyped DEF Sides
<1>3. Left(taker) \in Nat  BY <1>1, <1>2 DEF Left
<1>4. Cost(Left(taker), taker.price) \in Nat  BY <1>2, <1>3, CostNat
<1>5. /\ taker.side = "Buy" => locked_collateral[signer] >= Cost(Left(taker), taker.price)
  BY <1>1, <1>2, <1>3, <1>4, AtRest
<1>6. taker.side = "Sell" => Of(locked_token, signer, token) >= Left(taker)
  BY <1>1, <1>2, <1>3, AtRest
<1> QED  BY <1>2, <1>5, <1>6 DEF ReleaseAffords, UnfilledCollateral, Of

\* What a budget can buy, by the truncating division, costs no more than it.
LEMMA BuyableAffordable ==
  ASSUME NEW r \in Nat, NEW p \in Nat \ {0}, NEW n \in Nat, n <= (r * Scale) \div p
  PROVE  Cost(n, p) <= r
<1>1. Scale \in Nat \ {0}  BY ParametersAssumption
<1> DEFINE c == r * Scale
           q == c \div p
<1>2. c \in Nat  BY <1>1
<1> HIDE DEF c
<1>3. q \in Nat /\ q * p <= c  BY <1>2
<1>4. n <= q  BY DEF c
<1> HIDE DEF q
<1>5. n * p \in Nat /\ q * p \in Nat /\ n * p <= q * p  BY <1>3, <1>4, ProductGrows
<1> DEFINE x == n * p
<1>6. x \in Nat /\ x <= c  BY <1>2, <1>3, <1>5
<1> HIDE DEF x
<1>7. x \div Scale <= c \div Scale  BY <1>1, <1>2, <1>6, QuotientGrows
<1>8. c \div Scale = r
  <2>1. \A d \in Nat \ {0} : (r * d) \div d = r  OBVIOUS
  <2> QED  BY <1>1, <2>1 DEF c
<1> QED  BY <1>7, <1>8 DEF Cost, x

LEMMA MarketAlwaysAffords ==
  TypeOK /\ BookInv /\ BackedInv /\ MarketTrades => MarketAffords
<1> SUFFICES ASSUME TypeOK, BookInv, BackedInv, MarketTrades PROVE MarketAffords
  OBVIOUS
<1> DEFINE n == MarketQty
<1>1. InLoop /\ pc = "market" /\ n \in Nat \ {0} /\ n <= Left(maker)
  BY MarketTradeTyped
<1>2. /\ taker.side \in {"Buy", "Sell"} /\ maker.price \in Nat \ {0}
      /\ maker.quantity \in Nat /\ maker.filledquantity \in Nat
      /\ remaining_amount \in Nat /\ token \in Tokens
  BY <1>1, TakerTyped, MakerTyped DEF Sides, TypeOK
<1>3. ~LimitInFlight /\ MarketPaid = Cost(n, maker.price)
  BY <1>1 DEF LimitInFlight, MarketPaid
<1>4. taker.side = "Buy" => n <= Buyable
  <2>1. Left(maker) \in Nat  BY <1>1, <1>2 DEF Left
  <2>2. Buyable \in Nat
    <3>1. \A m \in Nat, d \in Nat \ {0} : m \div d \in Nat  OBVIOUS
    <3>2. remaining_amount * Scale \in Nat  BY <1>2, ParametersAssumption
    <3> QED  BY <1>2, <3>1, <3>2 DEF Buyable
  <2> QED  BY <2>1, <2>2 DEF MarketQty, Smaller
<1> HIDE DEF n
<1>5. MakerAffords(n, MarketPaid)
  BY <1>1, <1>2, <1>3, MakerCovered DEF MakerAffords, Of
<1>6. taker.side = "Buy" => MarketPaid <= remaining_amount
  BY <1>1, <1>2, <1>3, <1>4, BuyableAffordable DEF Buyable
<1>7. MarketPaid \in Nat  BY <1>1, <1>2, <1>3, CostNat
<1> QED  BY <1>2, <1>5, <1>6, <1>7 DEF MarketAffords, n

LEMMA SettleAlwaysAffords ==
  TypeOK /\ BookInv /\ BackedInv /\ SolventInv /\ VaultInv /\ pc = "settle" => SettleAffords
<1> SUFFICES ASSUME TypeOK, BookInv, BackedInv, SolventInv, VaultInv, pc = "settle"
             PROVE  SettleAffords
  OBVIOUS
<1>1. MarketInFlight  BY DEF MarketInFlight
<1>2. /\ signer \in Users /\ token \in Tokens /\ taker.quantity \in Nat
      /\ taker.side \in {"Buy", "Sell"}
      /\ remaining_amount \in Nat /\ fullfilled_qty \in Nat
  BY TakerTyped DEF Sides, TypeOK
<1>3. Balances  BY AccountsTyped DEF TypeOK
<1>4. /\ locked_collateral \in [Users -> Nat] /\ locked_token \in TokenTable
      /\ Column(locked_token, token) \in [Users -> Nat]
      /\ Column(locked_token, token)[signer] = Of(locked_token, signer, token)
      /\ Total(locked_collateral) \in Nat /\ Total(claimable_collateral) \in Nat
      /\ Total(Column(locked_token, token)) \in Nat
      /\ Total(Column(claimable_token, token)) \in Nat
      /\ escrow[token] \in Nat /\ vault \in Nat /\ total_collateral_locked = vault
  BY <1>2, <1>3, ColumnTyped, TotalsTyped
     DEF Balances, TokenTable, Column, Of, VaultInv, VaultTracked
<1>5. /\ locked_collateral[signer] <= Total(locked_collateral)
      /\ Column(locked_token, token)[signer] <= Total(Column(locked_token, token))
      /\ locked_collateral[signer] \in Nat /\ Of(locked_token, signer, token) \in Nat
  BY <1>2, <1>4, TotalNat
<1>6. /\ vault = Total(locked_collateral) + Total(claimable_collateral) + (Earned - Spent)
      /\ escrow[token] = Total(Column(locked_token, token))
           + Total(Column(claimable_token, token)) + (Bought(token) - Sold(token))
  BY <1>2 DEF SolventInv, HoldsCollateral, HoldsTokens
<1>7. CASE taker.side = "Buy"
  <2>1. /\ Earned = 0 /\ Spent = taker.quantity - remaining_amount
        /\ Bought(token) = fullfilled_qty /\ Sold(token) = 0
    BY <1>1, <1>7 DEF Earned, Spent, Sold, Bought
  <2>2. /\ locked_collateral[signer] >= BidWorth(book, signer) + taker.quantity
        /\ BidWorth(book, signer) \in Nat
    BY <1>1, <1>2, <1>7, AtSettle
  <2> QED  BY <1>2, <1>4, <1>5, <1>6, <1>7, <2>1, <2>2 DEF SettleAffords
<1>8. CASE taker.side = "Sell"
  <2>1. /\ Earned = fullfilled_qty /\ Spent = 0
        /\ Bought(token) = 0 /\ Sold(token) = taker.quantity - remaining_amount
    BY <1>1, <1>8 DEF Earned, Spent, Sold, Bought
  <2>2. /\ Of(locked_token, signer, token) = AskWorth(book, signer, token) + taker.quantity
        /\ AskWorth(book, signer, token) \in Nat
    BY <1>1, <1>2, <1>8, AtSettle
  <2>3. locked_token[<<signer, token>>] = Of(locked_token, signer, token)  BY DEF Of
  <2> QED  BY <1>2, <1>4, <1>5, <1>6, <1>8, <2>1, <2>2, <2>3 DEF SettleAffords
<1> QED  BY <1>2, <1>7, <1>8

\* Every checked_sub of a fill, a release or a settlement succeeds: an order at
\* rest never makes the instruction that meets it fail, and an order that has
\* traded can always be settled.
THEOREM AccountingNeverFailsCorrect == Spec => []AccountingNeverFails
<1>1. TypeOK /\ BookInv /\ BackedInv /\ SolventInv /\ VaultInv => AccountingNeverFails
  BY LimitAlwaysAffords, ReleaseAlwaysAffords, MarketAlwaysAffords, SettleAlwaysAffords
     DEF AccountingNeverFails
<1>2. Init => VaultInv  BY DEF Init, VaultInv, VaultTracked, Accounts
<1> QED  BY <1>1, <1>2, VaultStep, SolventInit, SolventStep, BackedInit, BackedStep,
            BookInit, BookStep, TypeCorrect, PTL DEF Spec
=============================================================================
