------------------------ MODULE MatchingEngineProofs ------------------------
(***************************************************************************)
(* Theorems about the matching engine for every value of its constants:    *)
(* types, the vault, the orders on the books, and what the two matching    *)
(* loops do: who is filled, how often and in which order, and who is left. *)
(***************************************************************************)
EXTENDS MatchingEngineProperties, SequenceTheorems, TLAPS

-----------------------------------------------------------------------------
(* Operators of the engine *)

\* Collateral is a natural number whenever quantity and price are.
LEMMA CostNat ==
  ASSUME NEW q \in Nat, NEW p \in Nat
  PROVE  Cost(q, p) \in Nat
<1>1. q * p \in Nat  OBVIOUS
<1>2. \A n \in Nat, d \in Nat \ {0} : n \div d \in Nat  OBVIOUS
<1> QED  BY <1>1, <1>2, ParametersAssumption DEF Cost

\* checked_add and a checked_sub that succeeds keep a table of balances typed.
LEMMA Credit ==
  ASSUME NEW D, NEW f \in [D -> Nat], NEW d \in D, NEW n \in Nat
  PROVE  [f EXCEPT ![d] = @ + n] \in [D -> Nat]
<1>1. f[d] + n \in Nat  OBVIOUS
<1> QED  BY <1>1

LEMMA Credits ==
  ASSUME NEW D, NEW f \in [D -> Nat], NEW d \in D, NEW n \in Nat,
         NEW e \in D, NEW m \in Nat, d # e
  PROVE  [f EXCEPT ![d] = @ + n, ![e] = @ + m] \in [D -> Nat]
<1>1. f[d] + n \in Nat /\ f[e] + m \in Nat  OBVIOUS
<1> QED  BY <1>1

LEMMA Debit ==
  ASSUME NEW D, NEW f \in [D -> Nat], NEW d \in D, NEW n \in Nat, f[d] >= n
  PROVE  [f EXCEPT ![d] = @ - n] \in [D -> Nat]
<1>1. f[d] - n \in Nat  OBVIOUS
<1> QED  BY <1>1

\* Vec::remove keeps the other orders in their order.
LEMMA UnlinkProperties ==
  ASSUME NEW q \in Seq(RestingOrder), NEW i \in 1..Len(q)
  PROVE  /\ Unlink(q, i) \in Seq(RestingOrder)
         /\ Len(Unlink(q, i)) = Len(q) - 1
         /\ \A j \in 1..(Len(q) - 1) :
              Unlink(q, i)[j] = IF j < i THEN q[j] ELSE q[j + 1]
<1> DEFINE n == Len(q) - 1
<1>1. Len(q) \in Nat /\ n \in Nat  BY LenProperties
<1>2. \A j \in 1..n : (IF j < i THEN q[j] ELSE q[j + 1]) \in RestingOrder
  BY <1>1, ElementOfSeq
<1>3. Unlink(q, i) \in [1..n -> RestingOrder]  BY <1>2 DEF Unlink
<1>4. Unlink(q, i) \in Seq(RestingOrder)  BY <1>1, <1>3, SeqDef
<1>5. DOMAIN Unlink(q, i) = 1..n  BY <1>3
<1>6. Len(Unlink(q, i)) = n  BY <1>1, <1>4, <1>5, LenProperties
<1> QED  BY <1>4, <1>6 DEF Unlink

\* An order put behind the first k keeps the others in their order.
LEMMA InsertProperties ==
  ASSUME NEW q \in Seq(RestingOrder), NEW o \in RestingOrder, NEW k \in 0..Len(q)
  PROVE  /\ Insert(q, o, k) \in Seq(RestingOrder)
         /\ Len(Insert(q, o, k)) = Len(q) + 1
         /\ \A j \in 1..(Len(q) + 1) : Insert(q, o, k)[j] =
              IF j <= k THEN q[j] ELSE IF j = k + 1 THEN o ELSE q[j - 1]
<1> DEFINE n == Len(q) + 1
<1>1. Len(q) \in Nat /\ n \in Nat  BY LenProperties
<1>2. \A j \in 1..n :
        (IF j <= k THEN q[j] ELSE IF j = k + 1 THEN o ELSE q[j - 1]) \in RestingOrder
  BY <1>1, ElementOfSeq
<1>3. Insert(q, o, k) \in [1..n -> RestingOrder]  BY <1>2 DEF Insert
<1>4. Insert(q, o, k) \in Seq(RestingOrder)  BY <1>1, <1>3, SeqDef
<1>5. DOMAIN Insert(q, o, k) = 1..n  BY <1>3
<1>6. Len(Insert(q, o, k)) = n  BY <1>1, <1>4, <1>5, LenProperties
<1> QED  BY <1>4, <1>6 DEF Insert

\* An order with more of it filled is still an order.
LEMMA FilledOrder ==
  ASSUME NEW o \in Order, NEW n \in Nat
  PROVE  /\ [o EXCEPT !.filledquantity = @ + n] \in Order
         /\ [o EXCEPT !.filledquantity = @ + n].price = o.price
<1>1. o.filledquantity + n \in Nat  BY DEF Order
<1> QED  BY <1>1 DEF Order

\* A partial fill changes nothing but the filled quantity of one order.
LEMMA FilledProperties ==
  ASSUME NEW q \in Seq(RestingOrder), NEW i \in 1..Len(q), NEW n \in Nat
  PROVE  /\ Filled(q, i, n) \in Seq(RestingOrder)
         /\ Len(Filled(q, i, n)) = Len(q)
         /\ \A j \in 1..Len(q) : Filled(q, i, n)[j] =
              IF j = i THEN [q[i] EXCEPT !.filledquantity = @ + n] ELSE q[j]
<1> DEFINE o == [q[i] EXCEPT !.filledquantity = @ + n]
<1>1. q[i] \in RestingOrder  BY ElementOfSeq
<1>2. o \in RestingOrder  BY <1>1, FilledOrder DEF RestingOrder
<1>3. Filled(q, i, n) = [q EXCEPT ![i] = o]  BY DEF Filled
<1> HIDE DEF o
<1>4. /\ [q EXCEPT ![i] = o] \in Seq(RestingOrder)
      /\ Len([q EXCEPT ![i] = o]) = Len(q)
      /\ \A j \in 1..Len(q) : [q EXCEPT ![i] = o][j] = IF j = i THEN o ELSE q[j]
  BY <1>2, ExceptSeq
<1> QED  BY <1>3, <1>4 DEF o

-----------------------------------------------------------------------------
(* Type correctness *)

\* The accounts of TypeOK, one by one.
Balances ==
  /\ total_collateral_locked \in Nat /\ next_order_id \in Nat
  /\ book \in [Books -> Seq(RestingOrder)]
  /\ locked_collateral \in [Users -> Nat] /\ claimable_collateral \in [Users -> Nat]
  /\ locked_token \in [Users \X Tokens -> Nat]
  /\ claimable_token \in [Users \X Tokens -> Nat]
  /\ wallet_collateral \in [Users -> Nat] /\ wallet_token \in [Users \X Tokens -> Nat]
  /\ vault \in Nat /\ escrow \in [Tokens -> Nat]

LEMMA AccountsTyped == Accounts \in AccountsType <=> Balances
BY DEF Accounts, AccountsType, Balances

LEMMA AccountsTypedNext == (Accounts \in AccountsType)' <=> Balances'
BY DEF Accounts, AccountsType, Balances

LEMMA TakerTyped ==
  ASSUME TypeOK
  PROVE  /\ signer \in Users /\ token \in Tokens
         /\ taker.side \in Sides /\ taker.price \in Nat /\ taker.id \in Nat
         /\ taker.quantity \in Nat /\ taker.filledquantity \in Nat
         /\ opposite \in Books /\ own \in Books
         /\ book[opposite] \in Seq(RestingOrder) /\ book[own] \in Seq(RestingOrder)
         /\ Len(book[opposite]) \in Nat /\ Len(book[own]) \in Nat
<1>1. taker \in Order  BY DEF TypeOK
<1>2. /\ signer \in Users /\ token \in Tokens
      /\ taker.side \in Sides /\ taker.price \in Nat /\ taker.id \in Nat
      /\ taker.quantity \in Nat /\ taker.filledquantity \in Nat
  BY <1>1 DEF Order, signer, token
<1>3. opposite \in Books /\ own \in Books
  BY <1>2 DEF opposite, own, Books, Sides, Other, token
<1>4. book \in [Books -> Seq(RestingOrder)]  BY AccountsTyped DEF TypeOK, Balances
<1>5. book[opposite] \in Seq(RestingOrder) /\ book[own] \in Seq(RestingOrder)
  BY <1>3, <1>4
<1> QED  BY <1>2, <1>3, <1>5, LenProperties

LEMMA MakerTyped ==
  ASSUME TypeOK, InLoop
  PROVE  /\ idx \in 1..Len(book[opposite]) /\ maker \in RestingOrder
         /\ maker.user_key \in Users /\ maker.id \in Nat
         /\ maker.price \in Nat \ {0}
         /\ maker.quantity \in Nat /\ maker.filledquantity \in Nat
<1>1. idx \in 1..Len(book[opposite])  BY TakerTyped DEF TypeOK, InLoop
<1>2. maker \in RestingOrder  BY <1>1, TakerTyped, ElementOfSeq DEF maker
<1> QED  BY <1>1, <1>2 DEF RestingOrder, Order

LEMMA TypeInit == Init => TypeOK
<1> SUFFICES ASSUME Init PROVE TypeOK  OBVIOUS
<1>1. NoOrder \in Order  BY ParametersAssumption DEF NoOrder, Order, Sides
<1>2. Accounts \in AccountsType
  <2>1. book \in [Books -> Seq(RestingOrder)]  BY EmptySeq DEF Init
  <2> QED  BY <2>1, AccountsTyped, ParametersAssumption DEF Init, Balances
<1>3. fills \in Seq(Fill)  BY EmptySeq DEF Init
<1>4. is_settled \in BOOLEAN  BY DEF Init
<1>5. /\ clock \in Nat /\ saved \in AccountsType
      /\ pc \in Phases /\ pc \notin {"limit", "rest"} /\ taker \in Order
  BY <1>1, <1>2 DEF Init, Phases
<1>6. /\ max_iteration \in Nat /\ remaining_accounts \in SUBSET Users
      /\ idx \in Nat \ {0} /\ iteration \in Nat
      /\ remaining_amount \in Nat /\ fullfilled_qty \in Nat
      /\ truncated \in SUBSET Nat
  BY DEF Init
<1> QED  BY <1>2, <1>3, <1>4, <1>5, <1>6 DEF TypeOK

\* The end of every instruction leaves the in-flight state typed.
LEMMA IdleTyped ==
  ASSUME Idle
  PROVE  /\ pc' \in Phases /\ taker' \in Order
         /\ pc' \notin {"limit", "rest"}
         /\ max_iteration' \in Nat /\ remaining_accounts' \in SUBSET Users
         /\ idx' \in Nat \ {0} /\ iteration' \in Nat
         /\ remaining_amount' \in Nat /\ fullfilled_qty' \in Nat
         /\ fills' \in Seq(Fill)
<1>1. NoOrder \in Order  BY ParametersAssumption DEF NoOrder, Order, Sides
<1>2. << >> \in Seq(Fill)  BY EmptySeq
<1> QED  BY <1>1, <1>2 DEF Idle, Phases

LEMMA CommitTyped ==
  ASSUME TypeOK, Commit, (Accounts \in AccountsType)',
         UNCHANGED <<is_settled, clock>>, truncated' \in SUBSET Nat
  PROVE  TypeOK'
BY IdleTyped DEF TypeOK, Commit

LEMMA RollbackTyped ==
  ASSUME TypeOK, Rollback
  PROVE  TypeOK'
<1>1. Idle  BY DEF Rollback
<1>2. Accounts' = saved  
  BY DEF Rollback, Accounts, TypeOK, AccountsType
<1> QED  BY <1>1, <1>2, IdleTyped DEF TypeOK, Rollback

LEMMA LockCollateralTyped ==
  ASSUME Balances, NEW v \in Users, NEW amount \in Nat, LockCollateral(v, amount)
  PROVE  /\ total_collateral_locked' \in Nat /\ vault' \in Nat
         /\ locked_collateral' \in [Users -> Nat]
         /\ locked_token' \in [Users \X Tokens -> Nat]
         /\ wallet_collateral' \in [Users -> Nat]
         /\ wallet_token' \in [Users \X Tokens -> Nat] /\ escrow' \in [Tokens -> Nat]
<1>1. wallet_collateral' \in [Users -> Nat] /\ locked_collateral' \in [Users -> Nat]
  BY DEF LockCollateral, Balances
<1>2. total_collateral_locked' \in Nat /\ vault' \in Nat
  BY DEF LockCollateral, Balances
<1> QED  BY <1>1, <1>2 DEF LockCollateral, Balances

LEMMA LockTokensTyped ==
  ASSUME Balances, NEW v \in Users, NEW k \in Tokens, NEW amount \in Nat,
         LockTokens(v, k, amount)
  PROVE  /\ total_collateral_locked' \in Nat /\ vault' \in Nat
         /\ locked_collateral' \in [Users -> Nat]
         /\ locked_token' \in [Users \X Tokens -> Nat]
         /\ wallet_collateral' \in [Users -> Nat]
         /\ wallet_token' \in [Users \X Tokens -> Nat] /\ escrow' \in [Tokens -> Nat]
<1>1. wallet_token[<<v, k>>] \in Nat /\ locked_token[<<v, k>>] \in Nat /\ escrow[k] \in Nat
  BY DEF Balances
<1>2. wallet_token' \in [Users \X Tokens -> Nat]  BY <1>1 DEF LockTokens, Balances
<1>3. locked_token' \in [Users \X Tokens -> Nat]  BY <1>1 DEF LockTokens, Balances
<1>4. escrow' \in [Tokens -> Nat]  BY <1>1 DEF LockTokens, Balances
<1> QED  BY <1>2, <1>3, <1>4 DEF LockTokens, Balances

LEMMA PlaceOrderTyped ==
  ASSUME TypeOK,
         NEW v \in Users, NEW side \in Sides, NEW k \in Tokens,
         NEW n \in Iterations, NEW accounts \in AccountLists,
         NEW quantity \in Quantities, NEW price \in Prices,
         PlaceOrder(v, side, k, quantity, price, n, accounts)
  PROVE  TypeOK'
<1>1. /\ quantity \in Nat /\ price \in Nat /\ n \in Nat
      /\ accounts \in SUBSET Users /\ price > 0
  BY ParametersAssumption DEF PlaceOrder
<1>2. taker' \in Order /\ taker'.price > 0
  BY <1>1, AccountsTyped DEF PlaceOrder, Order, TypeOK, Balances
<1>3. Balances  BY AccountsTyped DEF TypeOK
<1>4. Lock(v, side, k, quantity, Cost(quantity, price))  BY DEF PlaceOrder
<1>5. Cost(quantity, price) \in Nat  BY <1>1, CostNat
<1>6. /\ book' = book /\ next_order_id' \in Nat
      /\ claimable_collateral' = claimable_collateral
      /\ claimable_token' = claimable_token
  BY <1>3 DEF PlaceOrder, Balances
<1>7. Balances'
  <2>1. CASE LockCollateral(v, Cost(quantity, price))
    BY <2>1, <1>3, <1>5, <1>6, LockCollateralTyped DEF Balances
  <2>2. CASE LockTokens(v, k, quantity)
    BY <2>2, <1>1, <1>3, <1>6, LockTokensTyped DEF Balances
  <2> QED  BY <1>4, <2>1, <2>2 DEF Lock
<1> QED  BY <1>1, <1>2, <1>7, AccountsTypedNext DEF TypeOK, PlaceOrder, Phases, proceeds

LEMMA MarketOrderTyped ==
  ASSUME TypeOK,
         NEW v \in Users, NEW side \in Sides, NEW k \in Tokens,
         NEW n \in Iterations, NEW accounts \in AccountLists, NEW amount \in Amounts,
         MarketOrder(v, side, k, amount, n, accounts)
  PROVE  TypeOK'
<1>1. amount \in Nat /\ n \in Nat /\ accounts \in SUBSET Users
  BY ParametersAssumption
<1>2. taker' \in Order  BY <1>1 DEF MarketOrder, Order
<1>3. Balances  BY AccountsTyped DEF TypeOK
<1>4. Lock(v, side, k, amount, amount)  BY DEF MarketOrder
<1>5. /\ book' = book /\ next_order_id' = next_order_id
      /\ claimable_collateral' = claimable_collateral
      /\ claimable_token' = claimable_token
  BY DEF MarketOrder
<1>6. Balances'
  <2>1. CASE LockCollateral(v, amount)
    BY <2>1, <1>1, <1>3, <1>5, LockCollateralTyped DEF Balances
  <2>2. CASE LockTokens(v, k, amount)
    BY <2>2, <1>1, <1>3, <1>5, LockTokensTyped DEF Balances
  <2> QED  BY <1>4, <2>1, <2>2 DEF Lock
<1> QED  BY <1>1, <1>2, <1>6, AccountsTypedNext DEF TypeOK, MarketOrder, Phases

\* Removing or skipping an order, and filling one, keep the loop's state typed.
LEMMA PassOverTyped ==
  ASSUME TypeOK, InLoop, NEW remove \in BOOLEAN, PassOver(remove)
  PROVE  TypeOK'
<1>1. idx \in 1..Len(book[opposite])  BY MakerTyped
<1>2. Unlink(book[opposite], idx) \in Seq(RestingOrder)
  BY <1>1, TakerTyped, UnlinkProperties
<1>3. book' \in [Books -> Seq(RestingOrder)]
  <2>1. book \in [Books -> Seq(RestingOrder)]  BY AccountsTyped DEF TypeOK, Balances
  <2>2. CASE remove  BY <1>2, <2>1, <2>2, TakerTyped DEF PassOver
  <2>3. CASE ~remove  BY <2>1, <2>3 DEF PassOver
  <2> QED  BY <2>2, <2>3
<1>4. idx' \in Nat \ {0}  BY <1>1, TakerTyped DEF PassOver
<1>5. Balances  BY AccountsTyped DEF TypeOK
<1>6. Balances'  BY <1>3, <1>5 DEF Balances, PassOver, market, stats, funds
<1> QED  BY <1>4, <1>6, AccountsTypedNext
         DEF TypeOK, PassOver, market, control, proceeds

LEMMA FillMakerTyped ==
  ASSUME TypeOK, InLoop, NEW qty \in Nat, FillMaker(qty)
  PROVE  /\ book' \in [Books -> Seq(RestingOrder)]
         /\ idx' \in Nat \ {0} /\ iteration' \in Nat /\ fills' \in Seq(Fill)
<1>1. idx \in 1..Len(book[opposite])  BY MakerTyped
<1>2. /\ Unlink(book[opposite], idx) \in Seq(RestingOrder)
      /\ Filled(book[opposite], idx, qty) \in Seq(RestingOrder)
  BY <1>1, TakerTyped, UnlinkProperties, FilledProperties
<1>3. book' \in [Books -> Seq(RestingOrder)]
  <2>1. book \in [Books -> Seq(RestingOrder)]  BY AccountsTyped DEF TypeOK, Balances
  <2>2. \/ book' = [book EXCEPT ![opposite] = Unlink(book[opposite], idx)]
        \/ book' = [book EXCEPT ![opposite] = Filled(book[opposite], idx, qty)]
    BY <2>1, TakerTyped DEF FillMaker
  <2> QED  BY <1>2, <2>1, <2>2, TakerTyped
<1>4. idx' \in Nat \ {0} /\ iteration' \in Nat
  BY <1>1, TakerTyped DEF FillMaker, TypeOK
<1>5. fills' \in Seq(Fill)
  <2> DEFINE f == [maker |-> maker.id, owner |-> maker.user_key,
                   price |-> maker.price, quantity |-> qty]
  <2>1. f \in Fill  BY MakerTyped DEF Fill
  <2>2. fills' = Append(fills, f)  BY DEF FillMaker
  <2> HIDE DEF f
  <2> QED  BY <2>1, <2>2, AppendProperties DEF TypeOK
<1> QED  BY <1>3, <1>4, <1>5

\* What a limit fill trades, pays and releases.
LEMMA LimitTradeTyped ==
  ASSUME TypeOK, LimitTrades
  PROVE  /\ InLoop /\ pc = "limit"
         /\ LimitQty \in Nat \ {0}
         /\ LimitQty <= Left(taker) /\ LimitQty <= Left(maker)
         /\ LimitPaid \in Nat /\ LockedAtOurPrice \in Nat
         /\ maker.user_key \in Users /\ maker.user_key # signer
<1>1. InLoop /\ pc = "limit" /\ maker.user_key # signer
  BY DEF LimitTrades, LimitLooksAt, Eligible
<1>2. Left(taker) \in Nat \ {0} /\ Left(maker) \in Nat \ {0}
  <2>1. Left(taker) > 0 /\ Left(maker) > 0  BY DEF LimitTrades
  <2>2. taker.quantity \in Nat /\ taker.filledquantity \in Nat  BY TakerTyped
  <2>3. maker.quantity \in Nat /\ maker.filledquantity \in Nat  BY <1>1, MakerTyped
  <2> QED  BY <2>1, <2>2, <2>3 DEF Left
<1>3. LimitQty \in Nat \ {0} /\ LimitQty <= Left(taker) /\ LimitQty <= Left(maker)
  BY <1>2 DEF LimitQty, Smaller
<1>4. LimitPaid \in Nat /\ LockedAtOurPrice \in Nat
  <2>1. LimitQty \in Nat  BY <1>3
  <2>2. taker.price \in Nat /\ maker.price \in Nat  BY <1>1, TakerTyped, MakerTyped
  <2>3. Cost(LimitQty, maker.price) \in Nat  BY <2>1, <2>2, CostNat
  <2>4. Cost(LimitQty, taker.price) \in Nat  BY <2>1, <2>2, CostNat
  <2> QED  BY <2>3, <2>4 DEF LimitPaid, LockedAtOurPrice
<1> QED  BY <1>1, <1>3, <1>4, MakerTyped

LEMMA LimitFillTyped ==
  ASSUME TypeOK, LimitTrades, LimitFill,
         locked_collateral' \in [Users -> Nat],
         claimable_collateral' \in [Users -> Nat],
         locked_token' \in [Users \X Tokens -> Nat],
         claimable_token' \in [Users \X Tokens -> Nat]
  PROVE  TypeOK'
<1>1. taker' \in Order /\ taker'.price = taker.price
  BY LimitTradeTyped, FilledOrder DEF LimitFill, TypeOK
<1>2. /\ book' \in [Books -> Seq(RestingOrder)]
      /\ idx' \in Nat \ {0} /\ iteration' \in Nat /\ fills' \in Seq(Fill)
  BY LimitTradeTyped, FillMakerTyped DEF LimitFill
<1>3. Balances  BY AccountsTyped DEF TypeOK
<1>4. Balances'  BY <1>2, <1>3 DEF Balances, LimitFill, market, funds
<1> QED  BY <1>1, <1>2, <1>4, AccountsTypedNext
         DEF TypeOK, LimitFill, market, control, proceeds

LEMMA LimitFillBuyTyped == TypeOK /\ LimitFillBuy => TypeOK'
<1> SUFFICES ASSUME TypeOK, LimitFillBuy PROVE TypeOK'  OBVIOUS
<1> DEFINE seller == maker.user_key
           surplus == LockedAtOurPrice - LimitPaid
<1>1. LimitTrades /\ LimitAffords /\ LimitFill /\ taker.side = "Buy"
  BY DEF LimitFillBuy
<1>2. /\ seller \in Users /\ signer \in Users /\ token \in Tokens
      /\ signer # seller /\ LimitQty \in Nat /\ LimitPaid \in Nat /\ LockedAtOurPrice \in Nat
  BY <1>1, LimitTradeTyped, TakerTyped
<1>3. /\ surplus \in Nat /\ locked_collateral[signer] >= LockedAtOurPrice
      /\ locked_token[<<seller, token>>] >= LimitQty
  BY <1>1, <1>2 DEF LimitAffords, MakerAffords
<1>4. Balances  BY AccountsTyped DEF TypeOK
<1>5. /\ locked_collateral' = [locked_collateral EXCEPT ![signer] = @ - LockedAtOurPrice]
      /\ claimable_collateral' = [claimable_collateral EXCEPT
           ![signer] = @ + surplus, ![seller] = @ + LimitPaid]
      /\ claimable_token' = [claimable_token EXCEPT ![<<signer, token>>] = @ + LimitQty]
      /\ locked_token' = [locked_token EXCEPT ![<<seller, token>>] = @ - LimitQty]
  BY DEF LimitFillBuy
<1> HIDE DEF seller, surplus
<1>6. locked_collateral' \in [Users -> Nat]
  BY <1>2, <1>3, <1>4, <1>5, Debit DEF Balances
<1>7. claimable_collateral' \in [Users -> Nat]
  BY <1>2, <1>3, <1>4, <1>5, Credits DEF Balances
<1>8. locked_token' \in [Users \X Tokens -> Nat]
  BY <1>2, <1>3, <1>4, <1>5, Debit DEF Balances
<1>9. claimable_token' \in [Users \X Tokens -> Nat]
  BY <1>2, <1>4, <1>5, Credit DEF Balances
<1> QED  BY <1>1, <1>6, <1>7, <1>8, <1>9, LimitFillTyped

LEMMA LimitFillSellTyped == TypeOK /\ LimitFillSell => TypeOK'
<1> SUFFICES ASSUME TypeOK, LimitFillSell PROVE TypeOK'  OBVIOUS
<1> DEFINE buyer == maker.user_key
<1>1. LimitTrades /\ LimitAffords /\ LimitFill /\ taker.side = "Sell"
  BY DEF LimitFillSell
<1>2. /\ buyer \in Users /\ signer \in Users /\ token \in Tokens
      /\ LimitQty \in Nat /\ LimitPaid \in Nat
  BY <1>1, LimitTradeTyped, TakerTyped
<1>3. /\ locked_token[<<signer, token>>] >= LimitQty
      /\ locked_collateral[buyer] >= LimitPaid
  BY <1>1 DEF LimitAffords, MakerAffords
<1>4. Balances  BY AccountsTyped DEF TypeOK
<1>5. /\ claimable_collateral' = [claimable_collateral EXCEPT ![signer] = @ + LimitPaid]
      /\ locked_token' = [locked_token EXCEPT ![<<signer, token>>] = @ - LimitQty]
      /\ claimable_token' = [claimable_token EXCEPT ![<<buyer, token>>] = @ + LimitQty]
      /\ locked_collateral' = [locked_collateral EXCEPT ![buyer] = @ - LimitPaid]
  BY DEF LimitFillSell
<1> HIDE DEF buyer
<1>6. locked_collateral' \in [Users -> Nat]
  BY <1>2, <1>3, <1>4, <1>5, Debit DEF Balances
<1>7. claimable_collateral' \in [Users -> Nat]
  BY <1>2, <1>4, <1>5, Credit DEF Balances
<1>8. locked_token' \in [Users \X Tokens -> Nat]
  BY <1>2, <1>3, <1>4, <1>5, Debit DEF Balances
<1>9. claimable_token' \in [Users \X Tokens -> Nat]
  BY <1>2, <1>4, <1>5, Credit DEF Balances
<1> QED  BY <1>1, <1>6, <1>7, <1>8, <1>9, LimitFillTyped

LEMMA LimitRestsTyped == TypeOK /\ LimitRests => TypeOK'
<1> SUFFICES ASSUME TypeOK, LimitRests PROVE TypeOK'  OBVIOUS
<1>1. PICK k \in 0..Len(book[own]) : book' = [book EXCEPT ![own] = Insert(@, taker, k)]
  BY DEF LimitRests
<1>2. taker \in RestingOrder  BY DEF LimitRests, TypeOK, RestingOrder
<1>3. Insert(book[own], taker, k) \in Seq(RestingOrder)
  BY <1>2, TakerTyped, InsertProperties
<1>4. Balances  BY AccountsTyped DEF TypeOK
<1>5. book' \in [Books -> Seq(RestingOrder)]  BY <1>1, <1>3, <1>4, TakerTyped DEF Balances
<1>6. Balances'  BY <1>4, <1>5 DEF Balances, LimitRests, market, stats, funds
<1>7. truncated' \in SUBSET Nat  BY TakerTyped DEF LimitRests, TypeOK
<1> QED  BY <1>6, <1>7, AccountsTypedNext, CommitTyped DEF LimitRests, market

LEMMA LimitReleasesTyped == TypeOK /\ (LimitReleasesBuy \/ LimitReleasesSell) => TypeOK'
<1> SUFFICES ASSUME TypeOK, LimitReleasesBuy \/ LimitReleasesSell PROVE TypeOK'
  OBVIOUS
<1>1. Releases /\ ReleaseAffords /\ Commit
  BY DEF LimitReleasesBuy, LimitReleasesSell
<1>2. Left(taker) \in Nat  BY <1>1, TakerTyped DEF Releases, Left
<1>3. UnfilledCollateral \in Nat  BY <1>2, CostNat, TakerTyped DEF UnfilledCollateral
<1>4. Balances  BY AccountsTyped DEF TypeOK
<1>5. Balances' /\ UNCHANGED <<is_settled, clock, truncated>>
  <2>1. CASE LimitReleasesBuy
    <3>1. locked_collateral' \in [Users -> Nat]
      BY <1>1, <1>3, <1>4, <2>1, TakerTyped, Debit
      DEF LimitReleasesBuy, ReleaseAffords, Balances
    <3>2. claimable_collateral' \in [Users -> Nat]
      BY <1>3, <1>4, <2>1, TakerTyped, Credit DEF LimitReleasesBuy, Balances
    <3> QED  BY <1>4, <2>1, <3>1, <3>2 DEF Balances, LimitReleasesBuy, market, funds
  <2>2. CASE LimitReleasesSell
    <3>1. <<signer, token>> \in Users \X Tokens  BY TakerTyped
    <3>2. locked_token[<<signer, token>>] >= Left(taker)
      BY <1>1, <2>2 DEF LimitReleasesSell, ReleaseAffords
    <3>3. locked_token' \in [Users \X Tokens -> Nat]
      BY <1>2, <1>4, <2>2, <3>1, <3>2, Debit DEF LimitReleasesSell, Balances
    <3>4. claimable_token' \in [Users \X Tokens -> Nat]
      BY <1>2, <1>4, <2>2, <3>1, Credit DEF LimitReleasesSell, Balances
    <3> QED  BY <1>4, <2>2, <3>3, <3>4 DEF Balances, LimitReleasesSell, market, funds
  <2> QED  BY <2>1, <2>2
<1> QED  BY <1>1, <1>5, AccountsTypedNext, CommitTyped DEF TypeOK

\* What a market fill trades and pays.
LEMMA MarketTradeTyped ==
  ASSUME TypeOK, MarketTrades
  PROVE  /\ InLoop /\ pc = "market"
         /\ MarketQty \in Nat \ {0} /\ MarketQty <= Left(maker)
         /\ taker.side = "Sell" => MarketQty <= remaining_amount
         /\ MarketPaid \in Nat
         /\ maker.user_key \in Users /\ maker.user_key # signer
<1>1. InLoop /\ pc = "market" /\ maker.user_key # signer
  BY DEF MarketTrades, MarketLooksAt
<1>2. Left(maker) \in Nat \ {0} /\ remaining_amount \in Nat
  BY <1>1, MakerTyped DEF MarketTrades, Left, TypeOK
<1>3. Buyable \in Nat
  <2>1. \A n \in Nat, d \in Nat \ {0} : n \div d \in Nat  OBVIOUS
  <2>2. remaining_amount * Scale \in Nat  BY <1>2, ParametersAssumption
  <2> QED  BY <1>1, <2>1, <2>2, MakerTyped DEF Buyable
<1>4. MarketQty \in Nat \ {0} /\ MarketQty <= Left(maker)
  BY <1>2, <1>3 DEF MarketQty, Smaller, MarketTrades
<1>5. taker.side = "Sell" => MarketQty <= remaining_amount
  BY <1>2 DEF MarketQty, Smaller
<1>6. MarketPaid \in Nat  BY <1>1, <1>4, CostNat, MakerTyped DEF MarketPaid
<1> QED  BY <1>1, <1>4, <1>5, <1>6, MakerTyped

LEMMA MarketFillTyped ==
  ASSUME TypeOK, MarketFill,
         locked_collateral' \in [Users -> Nat],
         claimable_collateral' \in [Users -> Nat],
         locked_token' \in [Users \X Tokens -> Nat],
         claimable_token' \in [Users \X Tokens -> Nat],
         remaining_amount' \in Nat, fullfilled_qty' \in Nat
  PROVE  TypeOK'
<1>1. MarketTrades  BY DEF MarketFill
<1>2. /\ book' \in [Books -> Seq(RestingOrder)]
      /\ idx' \in Nat \ {0} /\ iteration' \in Nat /\ fills' \in Seq(Fill)
  BY <1>1, MarketTradeTyped, FillMakerTyped DEF MarketFill
<1>3. Balances  BY AccountsTyped DEF TypeOK
<1>4. Balances'  BY <1>2, <1>3 DEF Balances, MarketFill, market, funds
<1> QED  BY <1>2, <1>4, AccountsTypedNext DEF TypeOK, MarketFill, market, control

LEMMA MarketFillBuyTyped == TypeOK /\ MarketFillBuy => TypeOK'
<1> SUFFICES ASSUME TypeOK, MarketFillBuy PROVE TypeOK'  OBVIOUS
<1> DEFINE seller == maker.user_key
<1>1. MarketFill /\ MarketTrades /\ MarketAffords /\ taker.side = "Buy"
  BY DEF MarketFillBuy, MarketFill
<1>2. /\ seller \in Users /\ token \in Tokens /\ <<seller, token>> \in Users \X Tokens
      /\ MarketQty \in Nat /\ MarketPaid \in Nat
  BY <1>1, MarketTradeTyped, TakerTyped
<1>3. locked_token[<<seller, token>>] >= MarketQty /\ remaining_amount >= MarketPaid
  BY <1>1 DEF MarketAffords, MakerAffords
<1>4. Balances  BY AccountsTyped DEF TypeOK
<1>5. claimable_collateral' \in [Users -> Nat]
  BY <1>2, <1>4, Credit DEF MarketFillBuy, Balances
<1>6. locked_token' \in [Users \X Tokens -> Nat]
  BY <1>2, <1>3, <1>4, Debit DEF MarketFillBuy, Balances
<1>7. remaining_amount' \in Nat /\ fullfilled_qty' \in Nat
  BY <1>2, <1>3 DEF MarketFillBuy, TypeOK
<1> QED  BY <1>1, <1>4, <1>5, <1>6, <1>7, MarketFillTyped DEF MarketFillBuy, Balances

LEMMA MarketFillSellTyped == TypeOK /\ MarketFillSell => TypeOK'
<1> SUFFICES ASSUME TypeOK, MarketFillSell PROVE TypeOK'  OBVIOUS
<1> DEFINE buyer == maker.user_key
<1>1. MarketFill /\ MarketTrades /\ MarketAffords /\ taker.side = "Sell"
  BY DEF MarketFillSell, MarketFill
<1>2. /\ buyer \in Users /\ token \in Tokens /\ <<buyer, token>> \in Users \X Tokens
      /\ MarketQty \in Nat /\ MarketPaid \in Nat /\ MarketQty <= remaining_amount
  BY <1>1, MarketTradeTyped, TakerTyped
<1>3. locked_collateral[buyer] >= MarketPaid
  BY <1>1 DEF MarketAffords, MakerAffords
<1>4. Balances  BY AccountsTyped DEF TypeOK
<1>5. claimable_token' \in [Users \X Tokens -> Nat]
  BY <1>2, <1>4, Credit DEF MarketFillSell, Balances
<1>6. locked_collateral' \in [Users -> Nat]
  BY <1>2, <1>3, <1>4, Debit DEF MarketFillSell, Balances
<1>7. remaining_amount' \in Nat /\ fullfilled_qty' \in Nat
  BY <1>2 DEF MarketFillSell, TypeOK
<1> QED  BY <1>1, <1>4, <1>5, <1>6, <1>7, MarketFillTyped DEF MarketFillSell, Balances

LEMMA MarketSettlesBuyTyped == TypeOK /\ MarketSettlesBuy => TypeOK'
<1> SUFFICES ASSUME TypeOK, MarketSettlesBuy PROVE TypeOK'  OBVIOUS
<1>1. /\ signer \in Users /\ token \in Tokens /\ <<signer, token>> \in Users \X Tokens
      /\ taker.quantity \in Nat /\ remaining_amount \in Nat /\ fullfilled_qty \in Nat
  BY TakerTyped DEF TypeOK
<1>2. /\ escrow[token] >= fullfilled_qty /\ vault >= remaining_amount
      /\ locked_collateral[signer] >= taker.quantity
      /\ total_collateral_locked >= remaining_amount
  BY DEF MarketSettlesBuy, SettleAffords
<1>3. Balances  BY AccountsTyped DEF TypeOK
<1>4. escrow' \in [Tokens -> Nat]
  BY <1>1, <1>2, <1>3, Debit DEF MarketSettlesBuy, Balances
<1>5. wallet_token' \in [Users \X Tokens -> Nat]
  BY <1>1, <1>3, Credit DEF MarketSettlesBuy, Balances
<1>6. wallet_collateral' \in [Users -> Nat]
  BY <1>1, <1>3, Credit DEF MarketSettlesBuy, Balances
<1>7. locked_collateral' \in [Users -> Nat]
  BY <1>1, <1>2, <1>3, Debit DEF MarketSettlesBuy, Balances
<1>8. vault' \in Nat /\ total_collateral_locked' \in Nat
  BY <1>1, <1>2, <1>3 DEF MarketSettlesBuy, Balances
<1>9. Balances'
  BY <1>3, <1>4, <1>5, <1>6, <1>7, <1>8 DEF MarketSettlesBuy, Balances
<1> QED  BY <1>9, AccountsTypedNext, CommitTyped DEF MarketSettlesBuy, TypeOK

LEMMA MarketSettlesSellTyped == TypeOK /\ MarketSettlesSell => TypeOK'
<1> SUFFICES ASSUME TypeOK, MarketSettlesSell PROVE TypeOK'  OBVIOUS
<1>1. /\ signer \in Users /\ token \in Tokens /\ <<signer, token>> \in Users \X Tokens
      /\ taker.quantity \in Nat /\ remaining_amount \in Nat /\ fullfilled_qty \in Nat
  BY TakerTyped DEF TypeOK
<1>2. /\ vault >= fullfilled_qty /\ total_collateral_locked >= fullfilled_qty
      /\ locked_token[<<signer, token>>] >= taker.quantity
      /\ escrow[token] >= remaining_amount
  BY DEF MarketSettlesSell, SettleAffords
<1>3. Balances  BY AccountsTyped DEF TypeOK
<1>4. escrow' \in [Tokens -> Nat]
  BY <1>1, <1>2, <1>3, Debit DEF MarketSettlesSell, Balances
<1>5. wallet_token' \in [Users \X Tokens -> Nat]
  BY <1>1, <1>3, Credit DEF MarketSettlesSell, Balances
<1>6. wallet_collateral' \in [Users -> Nat]
  BY <1>1, <1>3, Credit DEF MarketSettlesSell, Balances
<1>7. locked_token' \in [Users \X Tokens -> Nat]
  BY <1>1, <1>2, <1>3, Debit DEF MarketSettlesSell, Balances
<1>8. vault' \in Nat /\ total_collateral_locked' \in Nat
  BY <1>1, <1>2, <1>3 DEF MarketSettlesSell, Balances
<1>9. Balances'
  BY <1>3, <1>4, <1>5, <1>6, <1>7, <1>8 DEF MarketSettlesSell, Balances
<1> QED  BY <1>9, AccountsTypedNext, CommitTyped DEF MarketSettlesSell, TypeOK

\* One step of either handler keeps every variable in its type.
LEMMA TypeStep == TypeOK /\ [Next]_vars => TypeOK'
<1> SUFFICES ASSUME TypeOK, [Next]_vars PROVE TypeOK'  OBVIOUS
<1>1. CASE Begin  BY <1>1, PlaceOrderTyped, MarketOrderTyped DEF Begin
<1>2. CASE LimitPasses
  BY <1>2, PassOverTyped DEF LimitPasses, LimitLooksAt
<1>3. CASE LimitFillBuy  BY <1>3, LimitFillBuyTyped
<1>4. CASE LimitFillSell  BY <1>4, LimitFillSellTyped
<1>5. CASE Fails  BY <1>5, RollbackTyped DEF Fails
<1>6. CASE LimitLoopEnds
  BY <1>6, AccountsTyped, AccountsTypedNext
  DEF LimitLoopEnds, TypeOK, Balances, Phases, market, stats, funds, control,
      cursor, proceeds
<1>7. CASE LimitFilled
  BY <1>7, AccountsTyped, AccountsTypedNext, CommitTyped
  DEF LimitFilled, TypeOK, Balances, market, stats, funds
<1>8. CASE LimitRests  BY <1>8, LimitRestsTyped
<1>9. CASE LimitReleasesBuy \/ LimitReleasesSell  BY <1>9, LimitReleasesTyped
<1>10. CASE MarketPasses
  BY <1>10, PassOverTyped DEF MarketPasses, MarketLooksAt
<1>11. CASE MarketFillBuy  BY <1>11, MarketFillBuyTyped
<1>12. CASE MarketFillSell  BY <1>12, MarketFillSellTyped
<1>13. CASE MarketLoopEnds
  BY <1>13, AccountsTyped, AccountsTypedNext
  DEF MarketLoopEnds, TypeOK, Balances, Phases, market, stats, funds, control,
      cursor, proceeds
<1>14. CASE MarketSettlesBuy  BY <1>14, MarketSettlesBuyTyped
<1>15. CASE MarketSettlesSell  BY <1>15, MarketSettlesSellTyped
<1>16. CASE Tick
  BY <1>16, AccountsTyped, AccountsTypedNext
  DEF Tick, TypeOK, Balances, Phases, market, stats, funds, control, cursor, proceeds
<1>17. CASE SetWinningSide
  BY <1>17, AccountsTyped, AccountsTypedNext
  DEF SetWinningSide, TypeOK, Balances, Phases, stats, funds, control, cursor, proceeds
<1>18. CASE UNCHANGED vars
  BY <1>18, AccountsTyped, AccountsTypedNext
  DEF vars, TypeOK, Balances, market, stats, funds, control, cursor, proceeds
<1> QED
  BY <1>1, <1>2, <1>3, <1>4, <1>5, <1>6, <1>7, <1>8, <1>9, <1>10, <1>11, <1>12,
     <1>13, <1>14, <1>15, <1>16, <1>17, <1>18 DEF Next, Step

\* Every u64 of the accounts stays a natural number through every fill, release,
\* settlement and rollback of the two handlers, whatever the users hold and ask
\* for: no checked_sub they rely on ever leaves the range.
THEOREM TypeCorrect == Spec => []TypeOK
<1>1. Init => TypeOK  BY TypeInit
<1>2. TypeOK /\ [Next]_vars => TypeOK'  BY TypeStep
<1> QED  BY <1>1, <1>2, PTL DEF Spec

-----------------------------------------------------------------------------
(* The vault and its tracked total *)

VaultInv == VaultTracked /\ saved.vault = saved.total_collateral_locked

LEMMA VaultStep == TypeOK /\ VaultInv /\ [Next]_vars => VaultInv'
<1> SUFFICES ASSUME TypeOK, VaultInv, [Next]_vars PROVE VaultInv'  OBVIOUS
<1>1. ASSUME Commit, VaultTracked' PROVE VaultInv'
  BY <1>1 DEF Commit, Accounts, VaultInv, VaultTracked
<1>2. ASSUME UNCHANGED <<vault, total_collateral_locked>> PROVE VaultTracked'
  BY <1>2 DEF VaultInv, VaultTracked
<1>3. ASSUME UNCHANGED <<vault, total_collateral_locked, saved>> PROVE VaultInv'
  BY <1>3 DEF VaultInv, VaultTracked
<1>4. CASE Begin
  BY <1>4 DEF Begin, PlaceOrder, MarketOrder, Lock, LockCollateral, LockTokens,
              VaultInv, VaultTracked
<1>5. CASE Fails  BY <1>5 DEF Fails, Rollback, VaultInv, VaultTracked
<1>6. CASE LimitPasses \/ MarketPasses
  BY <1>3, <1>6 DEF LimitPasses, MarketPasses, PassOver, market, funds
<1>7. CASE LimitFillBuy \/ LimitFillSell
  BY <1>3, <1>7 DEF LimitFillBuy, LimitFillSell, LimitFill, market, funds
<1>8. CASE MarketFillBuy \/ MarketFillSell
  BY <1>3, <1>8 DEF MarketFillBuy, MarketFillSell, MarketFill, market, funds
<1>9. CASE LimitLoopEnds \/ MarketLoopEnds
  BY <1>3, <1>9 DEF LimitLoopEnds, MarketLoopEnds, market, funds
<1>10. CASE LimitFilled \/ LimitRests
  BY <1>1, <1>2, <1>10 DEF LimitFilled, LimitRests, market, funds
<1>11. CASE LimitReleasesBuy \/ LimitReleasesSell
  BY <1>1, <1>2, <1>11 DEF LimitReleasesBuy, LimitReleasesSell, market, funds
<1>12. CASE MarketSettlesBuy
  BY <1>1, <1>12 DEF MarketSettlesBuy, VaultInv, VaultTracked
<1>13. CASE MarketSettlesSell
  BY <1>1, <1>13 DEF MarketSettlesSell, VaultInv, VaultTracked
<1>14. CASE Tick \/ SetWinningSide \/ UNCHANGED vars
  BY <1>3, <1>14 DEF Tick, SetWinningSide, vars, market, funds
<1> QED
  BY <1>4, <1>5, <1>6, <1>7, <1>8, <1>9, <1>10, <1>11, <1>12, <1>13, <1>14
  DEF Next, Step

\* total_collateral_locked is the balance of the vault in every state, so a
\* market can never be closed over collateral the counter has lost sight of.
THEOREM VaultCorrect == Spec => []VaultTracked
<1>1. Init => VaultInv  BY DEF Init, VaultInv, VaultTracked, Accounts
<1>2. VaultInv => VaultTracked  BY DEF VaultInv
<1>3. TypeOK /\ VaultInv /\ [Next]_vars => VaultInv'  BY VaultStep
<1> QED  BY <1>1, <1>2, <1>3, TypeCorrect, PTL DEF Spec

-----------------------------------------------------------------------------
(* The book: priority and identity of the resting orders *)

BookOK(bk, n) == Prioritised(bk) /\ Live(bk, n) /\ Distinct(bk)

\* A vector whose orders come from another one, in the same order.
SameOrder(o, r) ==
  /\ o.id = r.id /\ o.price = r.price /\ o.side = r.side
  /\ o.token_type = r.token_type /\ o.quantity = r.quantity

LEMMA RearrangedBook ==
  ASSUME NEW bk, NEW new, NEW from, NEW n, BookOK(bk, n),
         \A c \in Books : Len(new[c]) \in Nat /\ Len(bk[c]) \in Nat,
         \A c \in Books : \A j \in 1..Len(new[c]) :
           /\ from[c][j] \in 1..Len(bk[c])
           /\ SameOrder(new[c][j], bk[c][from[c][j]])
           /\ new[c][j].filledquantity < new[c][j].quantity,
         \A c \in Books : \A j, k \in 1..Len(new[c]) :
           j < k => from[c][j] < from[c][k]
  PROVE  BookOK(new, n)
<1>1. Prioritised(new)
  <2> SUFFICES ASSUME NEW c \in Books, NEW i \in 1..Len(new[c]),
                      NEW j \in 1..Len(new[c]), i < j
               PROVE  \/ Ahead(c[2], new[c][i].price, new[c][j].price)
                      \/ /\ new[c][i].price = new[c][j].price
                         /\ new[c][i].id < new[c][j].id
    BY DEF Prioritised
  <2> DEFINE a == from[c][i]
             b == from[c][j]
  <2>1. a \in 1..Len(bk[c]) /\ b \in 1..Len(bk[c]) /\ a < b  OBVIOUS
  <2>2. /\ new[c][i].price = bk[c][a].price /\ new[c][i].id = bk[c][a].id
        /\ new[c][j].price = bk[c][b].price /\ new[c][j].id = bk[c][b].id
    BY DEF SameOrder
  <2> HIDE DEF a, b
  <2>3. \/ Ahead(c[2], bk[c][a].price, bk[c][b].price)
        \/ bk[c][a].price = bk[c][b].price /\ bk[c][a].id < bk[c][b].id
    BY <2>1 DEF BookOK, Prioritised
  <2> QED  BY <2>2, <2>3
<1>2. Live(new, n)
  <2> SUFFICES ASSUME NEW c \in Books, NEW i \in 1..Len(new[c])
               PROVE  /\ new[c][i].token_type = c[1] /\ new[c][i].side = c[2]
                      /\ new[c][i].id < n
                      /\ new[c][i].filledquantity < new[c][i].quantity
    BY DEF Live
  <2> QED  BY DEF SameOrder, Live, BookOK
<1>3. Distinct(new)
  <2> SUFFICES ASSUME NEW c \in Books, NEW d \in Books,
                      NEW j \in 1..Len(new[c]), NEW k \in 1..Len(new[d]),
                      new[c][j].id = new[d][k].id
               PROVE  c = d /\ j = k
    BY DEF Distinct
  <2>1. bk[c][from[c][j]].id = bk[d][from[d][k]].id  BY DEF SameOrder
  <2>2. c = d /\ from[c][j] = from[d][k]
    <3> DEFINE a == from[c][j]
               e == from[d][k]
    <3>1. a \in 1..Len(bk[c]) /\ e \in 1..Len(bk[d])  OBVIOUS
    <3>2. bk[c][a].id = bk[d][e].id  BY <2>1
    <3> HIDE DEF a, e
    <3>3. c = d /\ a = e  BY <3>1, <3>2 DEF Distinct, BookOK
    <3> QED  BY <3>3 DEF a, e
  <2>3. j = k
    <3>1. ~(j < k) /\ ~(k < j)  BY <2>2
    <3> QED  BY <3>1, <2>2
  <2> QED  BY <2>2, <2>3
<1> QED  BY <1>1, <1>2, <1>3 DEF BookOK

LEMMA UnlinkKeepsBook ==
  ASSUME NEW bk \in [Books -> Seq(RestingOrder)], NEW n \in Nat, BookOK(bk, n),
         NEW b \in Books, NEW i \in 1..Len(bk[b])
  PROVE  BookOK([bk EXCEPT ![b] = Unlink(bk[b], i)], n)
<1> DEFINE new == [bk EXCEPT ![b] = Unlink(bk[b], i)]
           from == [c \in Books |-> [j \in Nat |->
                      IF c = b /\ j >= i THEN j + 1 ELSE j]]
<1>1. \A c \in Books : bk[c] \in Seq(RestingOrder) /\ Len(bk[c]) \in Nat
  BY LenProperties
<1>2. new[b] = Unlink(bk[b], i) /\ \A c \in Books : c # b => new[c] = bk[c]  OBVIOUS
<1>3. /\ \A j \in Nat : from[b][j] = IF j >= i THEN j + 1 ELSE j
      /\ \A c \in Books : c # b => \A j \in Nat : from[c][j] = j
  OBVIOUS
<1> HIDE DEF new, from
<1>4. /\ Len(new[b]) = Len(bk[b]) - 1 /\ Len(new[b]) \in Nat
      /\ \A j \in 1..Len(new[b]) : new[b][j] = bk[b][from[b][j]]
                                   /\ from[b][j] \in 1..Len(bk[b])
  <2>1. Len(new[b]) = Len(bk[b]) - 1  BY <1>1, <1>2, UnlinkProperties
  <2>2. \A j \in 1..(Len(bk[b]) - 1) :
          new[b][j] = IF j < i THEN bk[b][j] ELSE bk[b][j + 1]
    BY <1>1, <1>2, UnlinkProperties
  <2>3. Len(new[b]) \in Nat  BY <1>1, <2>1
  <2>4. \A j \in 1..(Len(bk[b]) - 1) : from[b][j] \in 1..Len(bk[b])
                                      /\ new[b][j] = bk[b][from[b][j]]
    <3> TAKE j \in 1..(Len(bk[b]) - 1)
    <3>1. j \in Nat /\ j + 1 \in 1..Len(bk[b]) /\ j \in 1..Len(bk[b])  BY <1>1
    <3>2. from[b][j] = IF j >= i THEN j + 1 ELSE j  BY <1>3, <3>1
    <3>3. new[b][j] = IF j < i THEN bk[b][j] ELSE bk[b][j + 1]  BY <2>2
    <3>4. i \in Nat  BY <1>1
    <3>5. CASE j < i  BY <3>1, <3>2, <3>3, <3>4, <3>5
    <3>6. CASE j >= i  BY <3>1, <3>2, <3>3, <3>4, <3>6
    <3> QED  BY <3>1, <3>4, <3>5, <3>6
  <2> QED  BY <2>1, <2>3, <2>4
<1>5. \A c \in Books : Len(new[c]) \in Nat /\ Len(bk[c]) \in Nat
  BY <1>1, <1>2, <1>4
<1>6. \A c \in Books : \A j \in 1..Len(new[c]) :
        from[c][j] \in 1..Len(bk[c]) /\ new[c][j] = bk[c][from[c][j]]
  <2> TAKE c \in Books
  <2>1. CASE c = b  BY <1>4, <2>1
  <2>2. CASE c # b  BY <1>1, <1>2, <1>3, <2>2
  <2> QED  BY <2>1, <2>2
<1>7. \A c \in Books : \A j, k \in 1..Len(new[c]) : j < k => from[c][j] < from[c][k]
  <2> TAKE c \in Books
  <2> TAKE j, k \in 1..Len(new[c])
  <2>1. j \in Nat /\ k \in Nat /\ i \in Nat  BY <1>1, <1>5
  <2>2. CASE c = b
    <3>1. /\ from[c][j] = IF j >= i THEN j + 1 ELSE j
          /\ from[c][k] = IF k >= i THEN k + 1 ELSE k
      BY <1>3, <2>1, <2>2
    <3> QED  BY <2>1, <3>1
  <2>3. CASE c # b
    <3>1. from[c][j] = j /\ from[c][k] = k  BY <1>3, <2>1, <2>3
    <3> QED  BY <3>1
  <2> QED  BY <2>2, <2>3
<1>8. \A c \in Books : \A j \in 1..Len(new[c]) :
        /\ SameOrder(new[c][j], bk[c][from[c][j]])
        /\ new[c][j].filledquantity < new[c][j].quantity
  BY <1>6 DEF SameOrder, BookOK, Live
<1>9. BookOK(new, n)  BY <1>5, <1>6, <1>7, <1>8, RearrangedBook
<1> QED  BY <1>9 DEF new

LEMMA FilledKeepsBook ==
  ASSUME NEW bk \in [Books -> Seq(RestingOrder)], NEW n \in Nat, BookOK(bk, n),
         NEW b \in Books, NEW i \in 1..Len(bk[b]), NEW qty \in Nat,
         bk[b][i].filledquantity + qty < bk[b][i].quantity
  PROVE  BookOK([bk EXCEPT ![b] = Filled(bk[b], i, qty)], n)
<1> DEFINE new == [bk EXCEPT ![b] = Filled(bk[b], i, qty)]
           from == [c \in Books |-> [j \in Nat |-> j]]
           o == [bk[b][i] EXCEPT !.filledquantity = @ + qty]
<1>1. \A c \in Books : bk[c] \in Seq(RestingOrder) /\ Len(bk[c]) \in Nat
  BY LenProperties
<1>2. new[b] = Filled(bk[b], i, qty) /\ \A c \in Books : c # b => new[c] = bk[c]
  OBVIOUS
<1>3. \A c \in Books : \A j \in Nat : from[c][j] = j  OBVIOUS
<1>4. SameOrder(o, bk[b][i]) /\ o.filledquantity < o.quantity
  <2>1. bk[b][i] \in Order  BY <1>1, ElementOfSeq DEF RestingOrder
  <2> QED  BY <2>1 DEF SameOrder, Order
<1> HIDE DEF new, from
<1>5. /\ Len(Filled(bk[b], i, qty)) = Len(bk[b])
      /\ \A j \in 1..Len(bk[b]) :
           Filled(bk[b], i, qty)[j] = IF j = i THEN o ELSE bk[b][j]
  <2>1. bk[b] \in Seq(RestingOrder)  BY <1>1
  <2> HIDE DEF o
  <2>2. \A q \in Seq(RestingOrder) : \A k \in 1..Len(q) : \A m \in Nat :
          Len(Filled(q, k, m)) = Len(q)
    BY FilledProperties
  <2>3. Len(Filled(bk[b], i, qty)) = Len(bk[b])  BY <2>1, <2>2
  <2>4. \A j \in 1..Len(bk[b]) :
          Filled(bk[b], i, qty)[j] = IF j = i THEN o ELSE bk[b][j]
    BY <2>1, FilledProperties DEF o
  <2> QED  BY <2>3, <2>4
<1>6. /\ Len(new[b]) = Len(bk[b])
      /\ \A j \in 1..Len(bk[b]) : new[b][j] = IF j = i THEN o ELSE bk[b][j]
  BY <1>2, <1>5
<1> HIDE DEF o
<1>7. \A c \in Books : Len(new[c]) = Len(bk[c]) /\ Len(bk[c]) \in Nat
  BY <1>1, <1>2, <1>6
<1>8. \A c \in Books : \A j \in 1..Len(new[c]) :
        /\ SameOrder(new[c][j], bk[c][j])
        /\ new[c][j].filledquantity < new[c][j].quantity
  <2> TAKE c \in Books
  <2> TAKE j \in 1..Len(new[c])
  <2>1. CASE c = b /\ j = i  BY <1>4, <1>6, <1>7, <2>1
  <2>2. CASE ~(c = b /\ j = i)
    <3>1. new[c][j] = bk[c][j]  BY <1>2, <1>6, <1>7, <2>2
    <3> QED  BY <1>7, <3>1 DEF SameOrder, BookOK, Live
  <2> QED  BY <2>1, <2>2
<1>9. BookOK(new, n)
  <2>1. \A c \in Books : \A j \in 1..Len(new[c]) : from[c][j] = j
    BY <1>3, <1>7
  <2>2. \A c \in Books : \A j, k \in 1..Len(new[c]) :
          j < k => from[c][j] < from[c][k]
    BY <2>1
  <2>3. \A c \in Books : \A j \in 1..Len(new[c]) :
          /\ from[c][j] \in 1..Len(bk[c])
          /\ SameOrder(new[c][j], bk[c][from[c][j]])
          /\ new[c][j].filledquantity < new[c][j].quantity
    BY <1>7, <1>8, <2>1
  <2>4. \A c \in Books : Len(new[c]) \in Nat /\ Len(bk[c]) \in Nat  BY <1>7
  <2> QED  BY <2>2, <2>3, <2>4, RearrangedBook
<1> QED  BY <1>9 DEF new

\* An order younger than every resting one takes its place behind the orders
\* priced at least as well: the book stays in price-time priority.
LEMMA InsertKeepsBook ==
  ASSUME NEW bk \in [Books -> Seq(RestingOrder)], NEW o \in RestingOrder,
         NEW m \in Nat, o.id < m, BookOK(bk, o.id), Left(o) > 0,
         NEW b \in Books, b[1] = o.token_type, b[2] = o.side,
         NEW k \in 0..Len(bk[b]), SortsBehind(bk[b], o, k)
  PROVE  BookOK([bk EXCEPT ![b] = Insert(bk[b], o, k)], m)
<1> DEFINE new == [bk EXCEPT ![b] = Insert(bk[b], o, k)]
           q == bk[b]
           r == Insert(bk[b], o, k)
<1>1. \A c \in Books : bk[c] \in Seq(RestingOrder) /\ Len(bk[c]) \in Nat
  BY LenProperties
<1>2. new[b] = r /\ \A c \in Books : c # b => new[c] = bk[c]  OBVIOUS
<1>3. \A j \in 1..Len(q) : q[j] \in RestingOrder
  BY <1>1, ElementOfSeq
<1>4. /\ Len(r) = Len(q) + 1
      /\ \A j \in 1..(Len(q) + 1) : r[j] =
           IF j <= k THEN q[j] ELSE IF j = k + 1 THEN o ELSE q[j - 1]
  <2>1. q \in Seq(RestingOrder) /\ k \in 0..Len(q)  BY <1>1
  <2> HIDE DEF new
  <2>2. Len(Insert(q, o, k)) = Len(q) + 1  BY <2>1, InsertProperties
  <2>3. \A j \in 1..(Len(q) + 1) : Insert(q, o, k)[j] =
          IF j <= k THEN q[j] ELSE IF j = k + 1 THEN o ELSE q[j - 1]
    BY <2>1, InsertProperties
  <2> QED  BY <2>2, <2>3
<1>5. Len(q) \in Nat /\ k \in Nat /\ k <= Len(q)  BY <1>1
<1>6. \A j \in 1..Len(q) : /\ q[j].id \in Nat /\ q[j].price \in Nat
                           /\ q[j].id < o.id /\ q[j].filledquantity < q[j].quantity
                           /\ q[j].token_type = b[1] /\ q[j].side = b[2]
  BY <1>3 DEF RestingOrder, Order, BookOK, Live
<1>7. \A i \in 1..Len(q) : (i <= k) <=> ~Ahead(o.side, o.price, q[i].price)
  BY DEF SortsBehind
<1>8. /\ o.id \in Nat /\ o.price \in Nat /\ o.filledquantity < o.quantity
  BY DEF RestingOrder, Order, Left
<1>9. \A i, j \in 1..Len(q) : i < j =>
        \/ Ahead(b[2], q[i].price, q[j].price)
        \/ q[i].price = q[j].price /\ q[i].id < q[j].id
  BY DEF BookOK, Prioritised
<1>10. \A i, j \in 1..Len(q) : q[i].id = q[j].id => i = j
  BY DEF BookOK, Distinct
<1> HIDE DEF new, r, q
<1>11. \A i, j \in 1..Len(r) : i < j =>
         \/ Ahead(b[2], r[i].price, r[j].price)
         \/ r[i].price = r[j].price /\ r[i].id < r[j].id
  <2> SUFFICES ASSUME NEW i \in 1..Len(r), NEW j \in 1..Len(r), i < j
               PROVE  \/ Ahead(b[2], r[i].price, r[j].price)
                      \/ r[i].price = r[j].price /\ r[i].id < r[j].id
    OBVIOUS
  <2>1. CASE j <= k
    <3>1. i \in 1..Len(q) /\ j \in 1..Len(q) /\ r[i] = q[i] /\ r[j] = q[j]
      BY <1>4, <1>5, <2>1
    <3> QED  BY <1>9, <3>1
  <2>2. CASE j = k + 1
    <3>1. i \in 1..Len(q) /\ i <= k /\ r[i] = q[i] /\ r[j] = o
      BY <1>4, <1>5, <2>2
    <3>2. ~Ahead(b[2], o.price, q[i].price)  BY <1>7, <3>1
    <3> QED  BY <1>6, <1>8, <3>1, <3>2 DEF Ahead
  <2>3. CASE i = k + 1
    <3>1. j - 1 \in 1..Len(q) /\ ~(j - 1 <= k) /\ r[i] = o /\ r[j] = q[j - 1]
      BY <1>4, <1>5, <2>3
    <3> QED  BY <1>7, <3>1
  <2>4. CASE i <= k /\ j > k + 1
    <3>1. /\ i \in 1..Len(q) /\ j - 1 \in 1..Len(q) /\ i < j - 1
          /\ r[i] = q[i] /\ r[j] = q[j - 1]
      BY <1>4, <1>5, <2>4
    <3> QED  BY <1>9, <3>1
  <2>5. CASE i > k + 1
    <3>1. /\ i - 1 \in 1..Len(q) /\ j - 1 \in 1..Len(q) /\ i - 1 < j - 1
          /\ r[i] = q[i - 1] /\ r[j] = q[j - 1]
      BY <1>4, <1>5, <2>5
    <3> QED  BY <1>9, <3>1
  <2> QED  BY <1>4, <1>5, <2>1, <2>2, <2>3, <2>4, <2>5
<1>12. \A j \in 1..Len(r) :
         r[j] = o \/ \E i \in 1..Len(q) : r[j] = q[i]
  <2> TAKE j \in 1..Len(r)
  <2>1. CASE j <= k  BY <1>4, <1>5, <2>1
  <2>2. CASE j = k + 1  BY <1>4, <1>5, <2>2
  <2>3. CASE j > k + 1
    <3>1. j - 1 \in 1..Len(q) /\ r[j] = q[j - 1]  BY <1>4, <1>5, <2>3
    <3> QED  BY <3>1
  <2> QED  BY <1>4, <1>5, <2>1, <2>2, <2>3
<1>13. \A j \in 1..Len(r) :
         /\ r[j].token_type = b[1] /\ r[j].side = b[2] /\ r[j].id < m
         /\ r[j].filledquantity < r[j].quantity
         /\ r[j].id = o.id \/ \E i \in 1..Len(q) : r[j].id = q[i].id
  <2> TAKE j \in 1..Len(r)
  <2>1. CASE r[j] = o  BY <1>8, <2>1
  <2>2. CASE \E i \in 1..Len(q) : r[j] = q[i]  BY <1>6, <1>8, <2>2
  <2> QED  BY <1>12, <2>1, <2>2
<1>14. \A i, j \in 1..Len(r) : i < j => r[i].id # r[j].id
  <2> SUFFICES ASSUME NEW i \in 1..Len(r), NEW j \in 1..Len(r), i < j
               PROVE  r[i].id # r[j].id
    OBVIOUS
  <2>1. CASE j <= k
    <3>1. i \in 1..Len(q) /\ j \in 1..Len(q) /\ r[i] = q[i] /\ r[j] = q[j]
      BY <1>4, <1>5, <2>1
    <3> QED  BY <1>5, <1>10, <3>1
  <2>2. CASE j = k + 1
    <3>1. i \in 1..Len(q) /\ r[i] = q[i] /\ r[j] = o  BY <1>4, <1>5, <2>2
    <3> QED  BY <1>6, <1>8, <3>1
  <2>3. CASE i = k + 1
    <3>1. j - 1 \in 1..Len(q) /\ r[i] = o /\ r[j] = q[j - 1]  BY <1>4, <1>5, <2>3
    <3> QED  BY <1>6, <1>8, <3>1
  <2>4. CASE i <= k /\ j > k + 1
    <3>1. /\ i \in 1..Len(q) /\ j - 1 \in 1..Len(q) /\ i # j - 1
          /\ r[i] = q[i] /\ r[j] = q[j - 1]
      BY <1>4, <1>5, <2>4
    <3> QED  BY <1>10, <3>1
  <2>5. CASE i > k + 1
    <3>1. /\ i - 1 \in 1..Len(q) /\ j - 1 \in 1..Len(q) /\ i - 1 # j - 1
          /\ r[i] = q[i - 1] /\ r[j] = q[j - 1]
      BY <1>4, <1>5, <2>5
    <3> QED  BY <1>10, <3>1
  <2> QED  BY <1>4, <1>5, <2>1, <2>2, <2>3, <2>4, <2>5
<1>15. Prioritised(new)
  <2> SUFFICES ASSUME NEW c \in Books, NEW i \in 1..Len(new[c]),
                      NEW j \in 1..Len(new[c]), i < j
               PROVE  \/ Ahead(c[2], new[c][i].price, new[c][j].price)
                      \/ /\ new[c][i].price = new[c][j].price
                         /\ new[c][i].id < new[c][j].id
    BY DEF Prioritised
  <2>1. CASE c = b
    <3>1. new[c] = r /\ i \in 1..Len(r) /\ j \in 1..Len(r)  BY <1>2, <2>1
    <3> QED  BY <1>11, <2>1, <3>1
  <2>2. CASE c # b
    <3>1. new[c] = bk[c]  BY <1>2, <2>2
    <3>2. i \in 1..Len(bk[c]) /\ j \in 1..Len(bk[c])  BY <3>1
    <3>3. \/ Ahead(c[2], bk[c][i].price, bk[c][j].price)
          \/ bk[c][i].price = bk[c][j].price /\ bk[c][i].id < bk[c][j].id
      BY <3>2 DEF Prioritised, BookOK
    <3> QED  BY <3>1, <3>3
  <2> QED  BY <2>1, <2>2
<1>16. Live(new, m)
  <2> SUFFICES ASSUME NEW c \in Books, NEW i \in 1..Len(new[c])
               PROVE  /\ new[c][i].token_type = c[1] /\ new[c][i].side = c[2]
                      /\ new[c][i].id < m
                      /\ new[c][i].filledquantity < new[c][i].quantity
    BY DEF Live
  <2>1. CASE c = b  BY <1>2, <1>13, <2>1
  <2>2. CASE c # b
    <3>1. new[c] = bk[c]  BY <1>2, <2>2
    <3>2. bk[c][i] \in Order  BY <1>1, <3>1, ElementOfSeq DEF RestingOrder
    <3>3. bk[c][i].id \in Nat  BY <3>2 DEF Order
    <3>4. /\ bk[c][i].token_type = c[1] /\ bk[c][i].side = c[2]
          /\ bk[c][i].id < o.id /\ bk[c][i].filledquantity < bk[c][i].quantity
      BY <3>1 DEF BookOK, Live
    <3> QED  BY <1>8, <3>1, <3>3, <3>4
  <2> QED  BY <2>1, <2>2
<1>17. Distinct(new)
  <2>1. \A c \in Books : \A i \in 1..Len(bk[c]) :
          bk[c][i].id \in Nat /\ bk[c][i].id < o.id
    <3> TAKE c \in Books
    <3> TAKE i \in 1..Len(bk[c])
    <3>1. bk[c][i] \in Order  BY <1>1, ElementOfSeq DEF RestingOrder
    <3> QED  BY <3>1 DEF Order, BookOK, Live
  <2>2. \A c \in Books \ {b} : \A i \in 1..Len(bk[c]), j \in 1..Len(r) :
          bk[c][i].id # r[j].id
    <3> SUFFICES ASSUME NEW c \in Books \ {b}, NEW i \in 1..Len(bk[c]),
                        NEW j \in 1..Len(r)
                 PROVE  bk[c][i].id # r[j].id
      OBVIOUS
    <3>1. CASE r[j].id = o.id  BY <1>8, <2>1, <3>1
    <3>2. ASSUME NEW l \in 1..Len(q), r[j].id = q[l].id PROVE bk[c][i].id # r[j].id
      BY <3>2 DEF Distinct, BookOK, q
    <3> QED  BY <1>13, <3>1, <3>2
  <2> SUFFICES ASSUME NEW c \in Books, NEW d \in Books,
                      NEW i \in 1..Len(new[c]), NEW j \in 1..Len(new[d]),
                      new[c][i].id = new[d][j].id
               PROVE  c = d /\ i = j
    BY DEF Distinct
  <2>3. CASE c = b /\ d = b
    <3>1. i \in 1..Len(r) /\ j \in 1..Len(r) /\ r[i].id = r[j].id  BY <1>2, <2>3
    <3>2. ~(i < j) /\ ~(j < i)  BY <1>14, <3>1
    <3>3. i \in Int /\ j \in Int  BY <3>1
    <3> QED  BY <2>3, <3>2, <3>3
  <2>4. CASE c = b /\ d # b  BY <1>2, <2>2, <2>4
  <2>5. CASE c # b /\ d = b  BY <1>2, <2>2, <2>5
  <2>6. CASE c # b /\ d # b  BY <1>2, <2>6 DEF Distinct, BookOK
  <2> QED  BY <2>3, <2>4, <2>5, <2>6
<1> QED  BY <1>15, <1>16, <1>17 DEF BookOK, new

LEMMA OlderBook ==
  ASSUME NEW bk \in [Books -> Seq(RestingOrder)], NEW n \in Nat, NEW m \in Nat,
         n <= m, BookOK(bk, n)
  PROVE  BookOK(bk, m)
<1>1. \A b \in Books : \A i \in 1..Len(bk[b]) : bk[b][i].id \in Nat
  <2> TAKE b \in Books
  <2> TAKE i \in 1..Len(bk[b])
  <2>1. bk[b][i] \in Order  BY ElementOfSeq DEF RestingOrder
  <2> QED  BY <2>1 DEF Order
<1>2. Live(bk, m)  BY <1>1 DEF BookOK, Live
<1> QED  BY <1>2 DEF BookOK

LEMMA FillMakerKeepsBook ==
  ASSUME TypeOK, InLoop, NEW qty \in Nat, FillMaker(qty), NEW n \in Nat, BookOK(book, n)
  PROVE  BookOK(book', n)
<1>1. book \in [Books -> Seq(RestingOrder)]  BY AccountsTyped DEF TypeOK, Balances
<1>2. opposite \in Books /\ idx \in 1..Len(book[opposite])  BY TakerTyped, MakerTyped
<1>3. CASE maker.filledquantity + qty >= maker.quantity
  <2>1. book' = [book EXCEPT ![opposite] = Unlink(book[opposite], idx)]
    BY <1>3 DEF FillMaker
  <2> QED  BY <1>1, <1>2, <2>1, UnlinkKeepsBook
<1>4. CASE ~(maker.filledquantity + qty >= maker.quantity)
  <2>1. book' = [book EXCEPT ![opposite] = Filled(book[opposite], idx, qty)]
    BY <1>4 DEF FillMaker
  <2>2. /\ maker.filledquantity \in Nat /\ maker.quantity \in Nat
        /\ maker = book[opposite][idx]
    BY MakerTyped DEF maker
  <2>3. book[opposite][idx].filledquantity + qty < book[opposite][idx].quantity
    BY <1>4, <2>2
  <2> QED  BY <1>1, <1>2, <2>1, <2>3, FilledKeepsBook
<1> QED  BY <1>3, <1>4

LEMMA PassOverKeepsBook ==
  ASSUME TypeOK, InLoop, NEW remove \in BOOLEAN, PassOver(remove),
         NEW n \in Nat, BookOK(book, n)
  PROVE  BookOK(book', n)
<1>1. book \in [Books -> Seq(RestingOrder)]  BY AccountsTyped DEF TypeOK, Balances
<1>2. opposite \in Books /\ idx \in 1..Len(book[opposite])  BY TakerTyped, MakerTyped
<1>3. CASE remove
  <2>1. book' = [book EXCEPT ![opposite] = Unlink(book[opposite], idx)]
    BY <1>3 DEF PassOver
  <2> QED  BY <1>1, <1>2, <2>1, UnlinkKeepsBook
<1>4. CASE ~remove  BY <1>4 DEF PassOver
<1> QED  BY <1>3, <1>4

\* What makes priority inductive: the order in flight is younger than all that rest.
BookInv ==
  /\ BookOK(book, next_order_id)
  /\ BookOK(saved.book, saved.next_order_id)
  /\ pc \in {"limit", "rest"} =>
       BookOK(book, taker.id) /\ taker.id < next_order_id

LEMMA BookStep == TypeOK /\ BookInv /\ [Next]_vars => BookInv'
<1> SUFFICES ASSUME TypeOK, BookInv, [Next]_vars PROVE BookInv'  OBVIOUS
<1>0. /\ book \in [Books -> Seq(RestingOrder)] /\ next_order_id \in Nat
      /\ taker.id \in Nat
  BY AccountsTyped, TakerTyped DEF TypeOK, Balances
<1>1. ASSUME Commit, BookOK(book, next_order_id)' PROVE BookInv'
  <2>1. saved'.book = book' /\ saved'.next_order_id = next_order_id' /\ pc' = "idle"
    BY <1>1 DEF Commit, Accounts, Idle
  <2> QED  BY <1>1, <2>1 DEF BookInv
<1>2. ASSUME UNCHANGED <<next_order_id, saved>>, BookOK(book', next_order_id),
             pc' = pc /\ taker'.id = taker.id,
             pc \in {"limit", "rest"} => BookOK(book', taker.id)
      PROVE  BookInv'
  BY <1>2 DEF BookInv
<1>3. CASE Begin
  <2>1. ASSUME NEW v \in Users, NEW side \in Sides, NEW k \in Tokens,
               NEW n \in Iterations, NEW accounts \in AccountLists,
               NEW quantity \in Quantities, NEW price \in Prices,
               PlaceOrder(v, side, k, quantity, price, n, accounts)
        PROVE  BookInv'
    <3>1. /\ book' = book /\ saved' = saved /\ next_order_id' = next_order_id + 1
          /\ taker'.id = next_order_id
      BY <2>1 DEF PlaceOrder
    <3>2. BookOK(book, next_order_id + 1)  BY <1>0, OlderBook DEF BookInv
    <3> QED  BY <1>0, <3>1, <3>2 DEF BookInv
  <2>2. ASSUME NEW v \in Users, NEW side \in Sides, NEW k \in Tokens,
               NEW n \in Iterations, NEW accounts \in AccountLists,
               NEW amount \in Amounts,
               MarketOrder(v, side, k, amount, n, accounts)
        PROVE  BookInv'
    BY <2>2 DEF MarketOrder, BookInv
  <2> QED  BY <1>3, <2>1, <2>2 DEF Begin
<1>4. CASE Fails  BY <1>4 DEF Fails, Rollback, Idle, BookInv
<1>5. CASE LimitPasses \/ MarketPasses
  <2>1. PICK remove \in BOOLEAN : PassOver(remove) /\ InLoop
    BY <1>5 DEF LimitPasses, MarketPasses, LimitLooksAt, MarketLooksAt
  <2>2. UNCHANGED <<next_order_id, saved, pc, taker>>  BY <2>1 DEF PassOver
  <2>3. BookOK(book', next_order_id)  BY <1>0, <2>1, PassOverKeepsBook DEF BookInv
  <2>4. pc \in {"limit", "rest"} => BookOK(book', taker.id)
    BY <1>0, <2>1, PassOverKeepsBook DEF BookInv
  <2> QED  BY <1>2, <2>2, <2>3, <2>4
<1>6. CASE LimitFillBuy \/ LimitFillSell
  <2>1. LimitTrades /\ LimitFill  BY <1>6 DEF LimitFillBuy, LimitFillSell
  <2>2. InLoop /\ LimitQty \in Nat /\ FillMaker(LimitQty)
    BY <2>1, LimitTradeTyped DEF LimitFill
  <2>3. UNCHANGED <<next_order_id, saved, pc>> /\ taker'.id = taker.id
    BY <2>1 DEF LimitFill, TypeOK, Order
  <2>4. BookOK(book', next_order_id)  BY <1>0, <2>2, FillMakerKeepsBook DEF BookInv
  <2>5. pc \in {"limit", "rest"} => BookOK(book', taker.id)
    BY <1>0, <2>2, FillMakerKeepsBook DEF BookInv
  <2> QED  BY <1>2, <2>3, <2>4, <2>5
<1>7. CASE MarketFillBuy \/ MarketFillSell
  <2>1. MarketTrades /\ MarketFill  BY <1>7 DEF MarketFillBuy, MarketFillSell, MarketFill
  <2>2. InLoop /\ MarketQty \in Nat /\ FillMaker(MarketQty) /\ pc = "market"
    BY <2>1, MarketTradeTyped DEF MarketFill
  <2>3. UNCHANGED <<next_order_id, saved, pc, taker>>  BY <2>1 DEF MarketFill
  <2>4. BookOK(book', next_order_id)  BY <1>0, <2>2, FillMakerKeepsBook DEF BookInv
  <2> QED  BY <1>2, <2>2, <2>3, <2>4
<1>8. CASE LimitLoopEnds \/ MarketLoopEnds
  BY <1>8 DEF LimitLoopEnds, MarketLoopEnds, BookInv
<1>9. CASE LimitRests
  <2>1. /\ pc = "rest" /\ Left(taker) > 0 /\ Commit /\ next_order_id' = next_order_id
        /\ taker \in RestingOrder
    BY <1>9 DEF LimitRests, TypeOK, RestingOrder
  <2>2. PICK k \in 0..Len(book[own]) :
          /\ SortsBehind(book[own], taker, k)
          /\ book' = [book EXCEPT ![own] = Insert(book[own], taker, k)]
    BY <1>9 DEF LimitRests
  <2>3. own \in Books /\ own[1] = taker.token_type /\ own[2] = taker.side
    BY TakerTyped DEF own
  <2>4. BookOK(book, taker.id) /\ taker.id < next_order_id  BY <2>1 DEF BookInv
  <2>5. BookOK(book', next_order_id)
    BY <1>0, <2>1, <2>2, <2>3, <2>4, InsertKeepsBook
  <2> QED  BY <1>1, <2>1, <2>5
<1>10. CASE LimitFilled \/ LimitReleasesBuy \/ LimitReleasesSell
  BY <1>1, <1>10 DEF LimitFilled, LimitReleasesBuy, LimitReleasesSell, BookInv
<1>11. CASE MarketSettlesBuy \/ MarketSettlesSell
  BY <1>1, <1>11 DEF MarketSettlesBuy, MarketSettlesSell, BookInv
<1>12. CASE Tick \/ SetWinningSide \/ UNCHANGED vars
  BY <1>12 DEF Tick, SetWinningSide, vars, BookInv
<1> QED
  BY <1>3, <1>4, <1>5, <1>6, <1>7, <1>8, <1>9, <1>10, <1>11, <1>12 DEF Next, Step

LEMMA BookInit == Init => BookInv
<1> SUFFICES ASSUME Init PROVE BookInv  OBVIOUS
<1>1. \A b \in Books : Len(book[b]) = 0  BY EmptySeq DEF Init
<1>2. BookOK(book, next_order_id)
  BY <1>1 DEF BookOK, Prioritised, Live, Distinct
<1>3. saved.book = book /\ saved.next_order_id = next_order_id
  BY DEF Init, Accounts
<1> QED  BY <1>2, <1>3 DEF Init, BookInv

\* Price-time priority of all four vectors, for any number of orders: the stable
\* sort after push, the removals and the partial fills never break it.
THEOREM BookPriorityCorrect == Spec => []BookPriority
<1>1. BookInv => BookPriority  BY DEF BookInv, BookOK, BookPriority
<1> QED  BY <1>1, BookInit, BookStep, TypeCorrect, PTL DEF Spec

\* No two resting orders share an id, and each still has something to trade.
THEOREM RestingOrdersCorrect == Spec => []RestingOrdersLive
<1>1. BookInv => RestingOrdersLive  BY DEF BookInv, BookOK, RestingOrdersLive
<1> QED  BY <1>1, BookInit, BookStep, TypeCorrect, PTL DEF Spec

-----------------------------------------------------------------------------
(* One fill per maker *)

\* What the loop has traded with is not in front of it any more.
FillsBehind ==
  pc \in {"limit", "market"} =>
    \A i \in 1..Len(fills), j \in 1..Len(book[opposite]) :
      j >= idx => fills[i].maker # book[opposite][j].id

FillsInv ==
  /\ pc = "idle" => fills = << >>
  /\ MakerFilledOnce
  /\ FillsBehind

LEMMA FillMakerOnce ==
  ASSUME TypeOK, Distinct(book), FillsInv, InLoop, pc \in {"limit", "market"},
         NEW qty \in Nat, FillMaker(qty), pc' = pc, opposite' = opposite
  PROVE  FillsInv'
<1> DEFINE q == book[opposite]
           f == [maker |-> maker.id, owner |-> maker.user_key,
                 price |-> maker.price, quantity |-> qty]
<1>1. /\ opposite \in Books /\ idx \in 1..Len(q) /\ Len(q) \in Nat
      /\ q \in Seq(RestingOrder) /\ maker = q[idx]
  BY TakerTyped, MakerTyped DEF maker
<1>2. f \in Fill /\ f.maker = q[idx].id
  BY <1>1, MakerTyped DEF Fill
<1>3. fills \in Seq(Fill) /\ fills' = Append(fills, f)
  BY DEF FillMaker, TypeOK
<1>4. book \in [Books -> Seq(RestingOrder)]
  BY AccountsTyped DEF TypeOK, Balances
<1> HIDE DEF f
<1>5. /\ Len(fills) \in Nat /\ Len(fills') = Len(fills) + 1
      /\ \A i \in 1..Len(fills) : fills'[i] = fills[i]
      /\ fills'[Len(fills) + 1] = f
  BY <1>2, <1>3, AppendProperties, LenProperties
<1>6. \A i \in 1..Len(fills), j \in idx..Len(q) : fills[i].maker # q[j].id
  BY <1>1 DEF FillsInv, FillsBehind
<1>7. MakerFilledOnce'
  <2>1. ASSUME NEW i \in 1..Len(fills) PROVE fills[i].maker # f.maker
    BY <1>1, <1>2, <1>6
  <2>2. ASSUME NEW i \in 1..Len(fills'), NEW j \in 1..Len(fills'),
               fills'[i].maker = fills'[j].maker
        PROVE  i = j
    <3>1. CASE i <= Len(fills) /\ j <= Len(fills)
      BY <1>5, <2>2, <3>1 DEF FillsInv, MakerFilledOnce
    <3>2. CASE i = Len(fills) + 1 \/ j = Len(fills) + 1
      BY <1>5, <2>1, <2>2, <3>2
    <3> QED BY <1>5, <3>1, <3>2
  <2> QED BY <2>2 DEF MakerFilledOnce
\* Whatever is in front of the loop now was there before, behind the maker.
<1>8. /\ Len(book'[opposite]) \in Nat /\ idx' \in Nat
      /\ \A j \in 1..Len(book'[opposite]) : j >= idx' =>
           \E k \in 1..Len(q) : k > idx /\ book'[opposite][j].id = q[k].id
  <2>1. CASE maker.filledquantity + qty >= maker.quantity
    <3>1. idx' = idx /\ book'[opposite] = Unlink(q, idx)
      BY <1>1, <1>4, <2>1 DEF FillMaker
    <3>2. /\ Len(Unlink(q, idx)) = Len(q) - 1
          /\ \A j \in 1..(Len(q) - 1) :
               Unlink(q, idx)[j] = IF j < idx THEN q[j] ELSE q[j + 1]
      BY <1>1, UnlinkProperties
    <3>3. ASSUME NEW j \in 1..(Len(q) - 1), j >= idx
          PROVE  \E k \in 1..Len(q) : k > idx /\ Unlink(q, idx)[j].id = q[k].id
      <4>1. j + 1 \in 1..Len(q) /\ j + 1 > idx
        BY <1>1, <3>3
      <4>2. Unlink(q, idx)[j] = q[j + 1]
        BY <1>1, <3>2, <3>3
      <4> QED BY <4>1, <4>2
    <3>4. Len(book'[opposite]) = Len(q) - 1 /\ Len(book'[opposite]) \in Nat /\ idx' \in Nat
      BY <1>1, <3>1, <3>2
    <3> HIDE DEF q
    <3> QED BY <3>1, <3>3, <3>4
  <2>2. CASE ~(maker.filledquantity + qty >= maker.quantity)
    <3>1. idx' = idx + 1 /\ book'[opposite] = Filled(q, idx, qty)
      BY <1>1, <1>4, <2>2 DEF FillMaker
    <3>2. /\ Len(Filled(q, idx, qty)) = Len(q)
          /\ \A j \in 1..Len(q) : Filled(q, idx, qty)[j] =
               IF j = idx THEN [q[idx] EXCEPT !.filledquantity = @ + qty] ELSE q[j]
      BY <1>1, FilledProperties
    <3>3. ASSUME NEW j \in 1..Len(q), j >= idx + 1
          PROVE  j > idx /\ Filled(q, idx, qty)[j].id = q[j].id
      BY <1>1, <3>2, <3>3
    <3>4. Len(book'[opposite]) = Len(q) /\ Len(q) \in Nat /\ idx' \in Nat
      BY <1>1, <3>1, <3>2
    <3> HIDE DEF q
    <3> QED BY <3>1, <3>3, <3>4
  <2> QED BY <2>1, <2>2
<1>9. FillsBehind'
  <2>1. ASSUME NEW i \in 1..Len(fills'), NEW j \in 1..Len(book'[opposite]), j >= idx'
        PROVE  fills'[i].maker # book'[opposite][j].id
    <3>1. PICK k \in 1..Len(q) : k > idx /\ book'[opposite][j].id = q[k].id
      BY <1>8, <2>1
    <3>2. CASE i <= Len(fills)
      BY <1>1, <1>5, <1>6, <3>1, <3>2
    <3>3. CASE i = Len(fills) + 1
      BY <1>1, <1>2, <1>5, <3>1, <3>3 DEF Distinct
    <3> QED BY <1>5, <3>2, <3>3
  <2> QED BY <2>1 DEF FillsBehind
<1> QED BY <1>7, <1>9 DEF FillsInv

LEMMA PassOverOnce ==
  ASSUME TypeOK, FillsInv, InLoop, pc \in {"limit", "market"},
         NEW remove \in BOOLEAN, PassOver(remove)
  PROVE  FillsInv'
<1> DEFINE q == book[opposite]
<1>1. /\ opposite \in Books /\ idx \in 1..Len(q) /\ Len(q) \in Nat
      /\ q \in Seq(RestingOrder)
  BY TakerTyped, MakerTyped
<1>2. /\ fills' = fills /\ pc' = pc /\ opposite' = opposite
      /\ book \in [Books -> Seq(RestingOrder)]
  BY AccountsTyped DEF PassOver, opposite, TypeOK, Balances
<1>3. \A i \in 1..Len(fills), j \in idx..Len(q) : fills[i].maker # q[j].id
  BY <1>1 DEF FillsInv, FillsBehind
<1>4. FillsBehind'
  <2>1. CASE remove
    <3>1. idx' = idx /\ book'[opposite] = Unlink(q, idx)
      BY <1>1, <1>2, <2>1 DEF PassOver
    <3>2. /\ Len(Unlink(q, idx)) = Len(q) - 1
          /\ \A j \in 1..(Len(q) - 1) :
               Unlink(q, idx)[j] = IF j < idx THEN q[j] ELSE q[j + 1]
      BY <1>1, UnlinkProperties
    <3>3. ASSUME NEW i \in 1..Len(fills), NEW j \in 1..(Len(q) - 1), j >= idx
          PROVE  fills[i].maker # Unlink(q, idx)[j].id
      <4>1. j + 1 \in idx..Len(q)
        BY <1>1, <3>3
      <4>2. Unlink(q, idx)[j] = q[j + 1]
        BY <1>1, <3>2, <3>3
      <4> QED BY <1>3, <4>1, <4>2
    <3> QED BY <1>2, <3>1, <3>2, <3>3 DEF FillsBehind
  <2>2. CASE ~remove
    BY <1>1, <1>2, <1>3, <2>2 DEF PassOver, FillsBehind
  <2> QED BY <2>1, <2>2
<1> QED BY <1>2, <1>4 DEF FillsInv, MakerFilledOnce

LEMMA FillsStep == TypeOK /\ BookInv /\ FillsInv /\ [Next]_vars => FillsInv'
<1> SUFFICES ASSUME TypeOK, BookInv, FillsInv, [Next]_vars PROVE FillsInv'  OBVIOUS
<1>1. ASSUME Idle PROVE FillsInv'
  BY <1>1, EmptySeq DEF Idle, FillsInv, MakerFilledOnce, FillsBehind
<1>2. ASSUME fills' = fills, fills = << >>, pc' # "idle" PROVE FillsInv'
  BY <1>2, EmptySeq DEF FillsInv, MakerFilledOnce, FillsBehind
<1>3. CASE Begin
  BY <1>2, <1>3 DEF Begin, PlaceOrder, MarketOrder, Open, FillsInv
<1>4. CASE LimitPasses \/ MarketPasses
  <2>1. PICK remove \in BOOLEAN : PassOver(remove) /\ InLoop
    BY <1>4 DEF LimitPasses, MarketPasses, LimitLooksAt, MarketLooksAt
  <2> QED BY <1>4, <2>1, PassOverOnce
          DEF LimitPasses, MarketPasses, LimitLooksAt, MarketLooksAt
<1>5. CASE LimitFillBuy \/ LimitFillSell
  <2>1. LimitTrades /\ LimitFill  BY <1>5 DEF LimitFillBuy, LimitFillSell
  <2>2. InLoop /\ LimitQty \in Nat /\ FillMaker(LimitQty) /\ pc = "limit" /\ pc' = pc
    BY <2>1, LimitTradeTyped DEF LimitFill
  <2>3. opposite' = opposite
    BY <2>1 DEF LimitFill, opposite, TypeOK, Order
  <2> QED BY <2>2, <2>3, FillMakerOnce DEF BookInv, BookOK
<1>6. CASE MarketFillBuy \/ MarketFillSell
  <2>1. MarketTrades /\ MarketFill  BY <1>6 DEF MarketFillBuy, MarketFillSell, MarketFill
  <2>2. InLoop /\ MarketQty \in Nat /\ FillMaker(MarketQty) /\ pc = "market" /\ pc' = pc
    BY <2>1, MarketTradeTyped DEF MarketFill
  <2>3. opposite' = opposite
    BY <2>1 DEF MarketFill, opposite
  <2> QED BY <2>2, <2>3, FillMakerOnce DEF BookInv, BookOK
<1>7. CASE LimitLoopEnds \/ MarketLoopEnds
  BY <1>7 DEF LimitLoopEnds, MarketLoopEnds, FillsInv, MakerFilledOnce, FillsBehind
<1>8. CASE Fails \/ LimitFilled \/ LimitRests \/ LimitReleasesBuy \/ LimitReleasesSell
           \/ MarketSettlesBuy \/ MarketSettlesSell
  BY <1>1, <1>8 DEF Fails, Rollback, LimitFilled, LimitRests, LimitReleasesBuy,
     LimitReleasesSell, MarketSettlesBuy, MarketSettlesSell, Commit
<1>9. CASE Tick \/ SetWinningSide
  BY <1>9 DEF Tick, SetWinningSide, FillsInv, MakerFilledOnce, FillsBehind
<1>10. CASE UNCHANGED vars
  BY <1>10 DEF vars, cursor, FillsInv, MakerFilledOnce, FillsBehind, opposite
<1> QED
  BY <1>3, <1>4, <1>5, <1>6, <1>7, <1>8, <1>9, <1>10 DEF Next, Step

\* No instruction fills a maker twice, however many orders rest and however far
\* the loop goes: whatever it traded with is gone from the vector or behind idx.
THEOREM MakerFilledOnceCorrect == Spec => []MakerFilledOnce
<1>1. Init => FillsInv
  BY EmptySeq DEF Init, FillsInv, MakerFilledOnce, FillsBehind
<1>2. FillsInv => MakerFilledOnce  BY DEF FillsInv
<1> QED  BY <1>1, <1>2, FillsStep, BookInit, BookStep, TypeCorrect, PTL DEF Spec

-----------------------------------------------------------------------------
(* The best order first *)

LEMMA QuotientGrows ==
  ASSUME NEW m \in Nat, NEW n \in Nat, NEW d \in Nat \ {0}, m <= n
  PROVE  m \div d \in Nat /\ n \div d \in Nat /\ m \div d <= n \div d
<1> DEFINE q == m \div d
           r == n \div d
<1>1. q \in Nat /\ r \in Nat
  OBVIOUS
<1>2. q * d <= m /\ n < r * d + d
  OBVIOUS
<1> HIDE DEF q, r
<1>3. ASSUME q > r PROVE FALSE
  <2>1. PICK k \in Nat : q = r + 1 + k
    <3>1. q - r - 1 \in Nat /\ q = r + 1 + (q - r - 1)
      BY <1>1, <1>3
    <3> QED BY <3>1
  <2>2. q * d = r * d + d + k * d /\ k * d \in Nat /\ r * d \in Nat
    BY <1>1, <2>1
  <2> QED BY <1>1, <1>2, <2>2
<1> QED BY <1>1, <1>3 DEF q, r

LEMMA ProductGrows ==
  ASSUME NEW m \in Nat, NEW n \in Nat, NEW k \in Nat, m <= n
  PROVE  m * k \in Nat /\ n * k \in Nat /\ m * k <= n * k
<1>1. n - m \in Nat /\ n = m + (n - m)
  OBVIOUS
<1>2. n * k = m * k + (n - m) * k /\ (n - m) * k \in Nat
  BY <1>1
<1> QED BY <1>2

LEMMA CostGrows ==
  ASSUME NEW m \in Nat, NEW n \in Nat, NEW p \in Nat, m <= n, Cost(n, p) = 0
  PROVE  Cost(m, p) = 0
<1>1. m * p \in Nat /\ n * p \in Nat /\ m * p <= n * p  BY ProductGrows
<1>2. Scale \in Nat \ {0}  BY ParametersAssumption
<1> DEFINE x == m * p
           y == n * p
<1>3. x \in Nat /\ y \in Nat /\ x <= y  BY <1>1
<1>4. y \div Scale = 0  BY DEF Cost
<1> HIDE DEF x, y
<1>5. x \div Scale = 0  BY <1>2, <1>3, <1>4, QuotientGrows
<1> QED  BY <1>5 DEF Cost, x

\* What the instruction could still take of an order, and what the loop has
\* walked past: its own orders, those it traded with, those whose price does not
\* match and those that would yield no collateral.
Demand(o) ==
  IF pc = "limit" THEN Left(taker)
  ELSE IF taker.side = "Sell" THEN remaining_amount
  ELSE (remaining_amount * Scale) \div o.price

PricesMatch(o) == IF taker.side = "Buy" THEN taker.price >= o.price
                                        ELSE taker.price <= o.price

Excused(o) ==
  \/ o.user_key = signer
  \/ \E i \in 1..Len(fills) : fills[i].maker = o.id
  \/ pc = "limit" /\ ~PricesMatch(o)
  \/ Cost(Smaller(Left(o), Demand(o)), o.price) = 0

Passed(o) == \E j \in 1..Len(book[opposite]) : j < idx /\ book[opposite][j] = o

PassedInv ==
  /\ taker.filledquantity <= taker.quantity
  /\ pc \in {"limit", "market"} => \A o \in RestingOrder : Passed(o) => Excused(o)

\* What an order is excused by stays one, as the demand only falls.
LEMMA StaysExcused ==
  ASSUME NEW o \in RestingOrder, Excused(o), pc' = pc,
         taker'.side = taker.side, taker'.price = taker.price,
         taker'.user_key = taker.user_key,
         Left(o) \in Nat, Demand(o) \in Nat, Demand(o)' \in Nat, Demand(o)' <= Demand(o),
         \A i \in 1..Len(fills) : i \in 1..Len(fills') /\ fills'[i] = fills[i]
  PROVE  Excused(o)'
<1>1. CASE o.user_key = signer  BY <1>1 DEF Excused, signer
<1>2. CASE \E i \in 1..Len(fills) : fills[i].maker = o.id  BY <1>2 DEF Excused
<1>3. CASE pc = "limit" /\ ~PricesMatch(o)  BY <1>3 DEF Excused, PricesMatch
<1>4. CASE Cost(Smaller(Left(o), Demand(o)), o.price) = 0
  <2> DEFINE m == Smaller(Left(o), Demand(o)')
             n == Smaller(Left(o), Demand(o))
  <2>1. m \in Nat /\ n \in Nat /\ m <= n  BY DEF Smaller
  <2>2. o.price \in Nat  BY DEF RestingOrder, Order
  <2>3. Cost(n, o.price) = 0  BY <1>4
  <2> HIDE DEF m, n
  <2>4. Cost(m, o.price) = 0  BY <2>1, <2>2, <2>3, CostGrows
  <2> QED  BY <2>4 DEF Excused, m
<1> QED  BY <1>1, <1>2, <1>3, <1>4 DEF Excused

\* A resting order has something left, and every demand is a natural number.
LEMMA DemandNat ==
  ASSUME TypeOK, pc \in {"limit", "market"}, Left(taker) \in Nat, NEW o \in RestingOrder
  PROVE  Demand(o) \in Nat
<1>1. remaining_amount \in Nat  BY DEF TypeOK
<1>2. remaining_amount * Scale \in Nat  BY <1>1, ParametersAssumption
<1>3. o.price \in Nat \ {0}  BY DEF RestingOrder, Order
<1>4. (remaining_amount * Scale) \div o.price \in Nat
  <2>1. \A n \in Nat, d \in Nat \ {0} : n \div d \in Nat  OBVIOUS
  <2> QED  BY <1>2, <1>3, <2>1
<1> QED  BY <1>1, <1>4 DEF Demand

\* A fill leaves nothing behind idx that was not there before, but the maker.
LEMMA FillMakerPasses ==
  ASSUME TypeOK, InLoop, NEW qty \in Nat, FillMaker(qty), opposite' = opposite,
         NEW o \in RestingOrder, Passed(o)'
  PROVE  \/ Passed(o)
         \/ o.id = maker.id /\ ~(maker.filledquantity + qty >= maker.quantity)
<1> DEFINE q == book[opposite]
<1>1. /\ opposite \in Books /\ idx \in 1..Len(q) /\ Len(q) \in Nat
      /\ q \in Seq(RestingOrder) /\ maker = q[idx]
      /\ book \in [Books -> Seq(RestingOrder)]
  BY AccountsTyped, TakerTyped, MakerTyped DEF maker, TypeOK, Balances
<1>2. PICK j \in 1..Len(book'[opposite]) : j < idx' /\ book'[opposite][j] = o
  BY DEF Passed
<1>3. CASE maker.filledquantity + qty >= maker.quantity
  <2>1. idx' = idx /\ book'[opposite] = Unlink(q, idx)
    BY <1>1, <1>3 DEF FillMaker
  <2>2. /\ Len(Unlink(q, idx)) = Len(q) - 1
        /\ \A i \in 1..(Len(q) - 1) :
             Unlink(q, idx)[i] = IF i < idx THEN q[i] ELSE q[i + 1]
    BY <1>1, UnlinkProperties
  <2>3. j \in 1..Len(q) /\ j < idx /\ q[j] = o
    BY <1>1, <1>2, <2>1, <2>2
  <2> QED  BY <2>3 DEF Passed
<1>4. CASE ~(maker.filledquantity + qty >= maker.quantity)
  <2>1. idx' = idx + 1 /\ book'[opposite] = Filled(q, idx, qty)
    BY <1>1, <1>4 DEF FillMaker
  <2>2. /\ Len(Filled(q, idx, qty)) = Len(q)
        /\ \A i \in 1..Len(q) : Filled(q, idx, qty)[i] =
             IF i = idx THEN [q[idx] EXCEPT !.filledquantity = @ + qty] ELSE q[i]
    BY <1>1, FilledProperties
  <2>3. CASE j = idx
    <3>1. o = [q[idx] EXCEPT !.filledquantity = @ + qty]  BY <1>1, <1>2, <2>1, <2>2, <2>3
    <3>2. o.id = maker.id  BY <1>1, <3>1 DEF RestingOrder, Order
    <3> QED  BY <1>4, <3>2
  <2>4. CASE j # idx
    <3>1. j \in 1..Len(q) /\ j < idx /\ q[j] = o  BY <1>1, <1>2, <2>1, <2>2, <2>4
    <3> QED  BY <3>1 DEF Passed
  <2> QED  BY <2>3, <2>4
<1> QED  BY <1>3, <1>4

LEMMA FillMakerExcused ==
  ASSUME TypeOK, BookOK(book, next_order_id), PassedInv, InLoop, pc \in {"limit", "market"},
         NEW qty \in Nat, FillMaker(qty), pc' = pc, opposite' = opposite,
         taker'.side = taker.side, taker'.price = taker.price,
         taker'.user_key = taker.user_key,
         \A o \in RestingOrder : Demand(o)' \in Nat /\ Demand(o)' <= Demand(o)
  PROVE  \A o \in RestingOrder : Passed(o)' => Excused(o)'
<1> SUFFICES ASSUME NEW o \in RestingOrder, Passed(o)' PROVE Excused(o)'
  OBVIOUS
<1> DEFINE f == [maker |-> maker.id, owner |-> maker.user_key,
                 price |-> maker.price, quantity |-> qty]
<1>1. f \in Fill /\ f.maker = maker.id  BY MakerTyped DEF Fill
<1>2. fills \in Seq(Fill) /\ fills' = Append(fills, f)
  BY DEF FillMaker, TypeOK
<1> HIDE DEF f
<1>3. /\ Len(fills) \in Nat /\ Len(fills') = Len(fills) + 1
      /\ \A i \in 1..Len(fills) : fills'[i] = fills[i]
      /\ fills'[Len(fills) + 1] = f
  BY <1>1, <1>2, AppendProperties, LenProperties
<1>4. CASE Passed(o)
  <2>1. Excused(o)  BY <1>4 DEF PassedInv
  <2>2. Left(o) \in Nat
    <3>1. PICK j \in 1..Len(book[opposite]) : book[opposite][j] = o  BY <1>4 DEF Passed
    <3>2. o.filledquantity < o.quantity  BY <3>1, TakerTyped DEF BookOK, Live
    <3> QED  BY <3>2 DEF Left, RestingOrder, Order
  <2>3. Left(taker) \in Nat  BY TakerTyped DEF PassedInv, Left
  <2>4. Demand(o) \in Nat  BY <2>3, DemandNat
  <2>5. \A i \in 1..Len(fills) : i \in 1..Len(fills') /\ fills'[i] = fills[i]
    BY <1>3
  <2> QED  BY <2>1, <2>2, <2>4, <2>5, StaysExcused
<1>5. CASE o.id = maker.id
  <2>1. Len(fills) + 1 \in 1..Len(fills') /\ fills'[Len(fills) + 1].maker = o.id
    BY <1>1, <1>3, <1>5
  <2> QED  BY <2>1 DEF Excused
<1> QED  BY <1>4, <1>5, FillMakerPasses

\* Walking past an order adds that one, removing it none.
LEMMA PassOverPasses ==
  ASSUME TypeOK, InLoop, NEW remove \in BOOLEAN, PassOver(remove),
         NEW o \in RestingOrder, Passed(o)'
  PROVE  Passed(o) \/ (~remove /\ o = maker)
<1> DEFINE q == book[opposite]
<1>1. /\ opposite \in Books /\ idx \in 1..Len(q) /\ Len(q) \in Nat
      /\ q \in Seq(RestingOrder) /\ maker = q[idx]
      /\ book \in [Books -> Seq(RestingOrder)]
  BY AccountsTyped, TakerTyped, MakerTyped DEF maker, TypeOK, Balances
<1>2. opposite' = opposite  BY DEF PassOver, opposite
<1>3. PICK j \in 1..Len(book'[opposite]) : j < idx' /\ book'[opposite][j] = o
  BY <1>2 DEF Passed
<1>4. CASE remove
  <2>1. idx' = idx /\ book'[opposite] = Unlink(q, idx)
    BY <1>1, <1>4 DEF PassOver
  <2>2. /\ Len(Unlink(q, idx)) = Len(q) - 1
        /\ \A i \in 1..(Len(q) - 1) :
             Unlink(q, idx)[i] = IF i < idx THEN q[i] ELSE q[i + 1]
    BY <1>1, UnlinkProperties
  <2>3. j \in 1..Len(q) /\ j < idx /\ q[j] = o
    BY <1>1, <1>3, <2>1, <2>2
  <2> QED  BY <2>3 DEF Passed
<1>5. CASE ~remove
  <2>1. j \in 1..Len(q) /\ (j < idx \/ j = idx) /\ q[j] = o
    BY <1>1, <1>3, <1>5 DEF PassOver
  <2> QED  BY <1>1, <1>5, <2>1 DEF Passed
<1> QED  BY <1>4, <1>5

LEMMA PassOverExcused ==
  ASSUME TypeOK, PassedInv, InLoop, pc \in {"limit", "market"}, NEW remove \in BOOLEAN,
         PassOver(remove), ~remove => Excused(maker)
  PROVE  PassedInv'
<1>1. taker' = taker /\ pc' = pc /\ fills' = fills /\ remaining_amount' = remaining_amount
  BY DEF PassOver, proceeds
<1>2. ASSUME NEW o \in RestingOrder, Passed(o)' PROVE Excused(o)'
  <2>1. Excused(o)  BY <1>2, PassOverPasses DEF PassedInv
  <2> QED  BY <1>1, <2>1 DEF Excused, signer, PricesMatch, Demand
<1> QED  BY <1>1, <1>2 DEF PassedInv

LEMMA CostOfNone ==
  ASSUME NEW p \in Nat
  PROVE  Cost(0, p) = 0
<1>1. 0 * p = 0  OBVIOUS
<1>2. \A d \in Nat \ {0} : 0 \div d = 0  OBVIOUS
<1> QED  BY <1>1, <1>2, ParametersAssumption DEF Cost

\* The order at idx has something left to trade.
LEMMA MakerLive ==
  ASSUME TypeOK, BookOK(book, next_order_id), InLoop
  PROVE  maker \in RestingOrder /\ maker.price \in Nat /\ Left(maker) \in Nat \ {0}
<1>1. opposite \in Books /\ idx \in 1..Len(book[opposite])  BY TakerTyped, MakerTyped
<1>2. maker.filledquantity < maker.quantity  BY <1>1 DEF BookOK, Live, maker
<1>3. /\ maker \in RestingOrder /\ maker.price \in Nat
      /\ maker.quantity \in Nat /\ maker.filledquantity \in Nat
  BY MakerTyped
<1> QED  BY <1>2, <1>3 DEF Left

\* Why a limit order and a resting one do not trade.
NoTrade(o) ==
  \/ o.user_key = signer
  \/ ~PricesMatch(o)
  \/ Cost(Smaller(Left(o), Left(taker)), o.price) = 0

LEMMA LimitPassesNoTrade ==
  ASSUME TypeOK, BookOK(book, next_order_id), PassedInv, LimitPasses,
         ~(Eligible /\ Left(maker) = 0)
  PROVE  NoTrade(maker)
<1>1. LimitLooksAt /\ InLoop  BY DEF LimitPasses, LimitLooksAt
<1>2. Left(maker) \in Nat \ {0} /\ maker.price \in Nat  BY <1>1, MakerLive
<1>3. Left(taker) \in Nat  BY TakerTyped DEF PassedInv, Left
<1>4. CASE maker.user_key = signer  BY <1>4 DEF NoTrade
<1>5. CASE ~PriceMatches  BY <1>5 DEF NoTrade, PriceMatches, PricesMatch
<1>6. CASE Eligible
  <2>1. Left(taker) > 0 /\ ~LimitTrades  BY <1>6 DEF LimitPasses
  <2>2. Left(maker) > 0 => ~(Cost(LimitQty, maker.price) > 0)
    BY <1>1, <1>6, <2>1 DEF LimitTrades
  <2>3. LimitQty \in Nat /\ LimitQty = Smaller(Left(maker), Left(taker))
    BY <1>2, <1>3 DEF LimitQty, Smaller
  <2>4. Cost(LimitQty, maker.price) \in Nat  BY <1>2, <2>3, CostNat
  <2> QED  BY <1>2, <2>2, <2>3, <2>4 DEF NoTrade
<1> QED  BY <1>4, <1>5, <1>6 DEF Eligible

LEMMA LimitPassesExcused ==
  ASSUME TypeOK, BookOK(book, next_order_id), PassedInv, LimitPasses
  PROVE  PassedInv'
<1>1. InLoop /\ pc = "limit"  BY DEF LimitPasses, LimitLooksAt
<1>2. ~(Eligible /\ Left(maker) = 0) => Excused(maker)
  BY <1>1, LimitPassesNoTrade DEF NoTrade, Excused, Demand
<1> QED  BY <1>1, <1>2, PassOverExcused DEF LimitPasses

LEMMA MarketPassesExcused ==
  ASSUME TypeOK, BookOK(book, next_order_id), PassedInv, MarketPasses
  PROVE  PassedInv'
<1>1. MarketLooksAt /\ InLoop /\ pc = "market" /\ ~MarketTrades /\ ~MarketOverflows
  BY DEF MarketPasses, MarketLooksAt
<1>2. maker \in RestingOrder /\ Left(maker) \in Nat \ {0} /\ maker.price \in Nat
  BY <1>1, MakerLive
<1>3. ASSUME maker.user_key # signer PROVE Excused(maker)
  <2>1. ~(MarketQty > 0 /\ Cost(MarketQty, maker.price) > 0)
    BY <1>1, <1>2, <1>3 DEF MarketTrades, MarketOverflows
  <2>2. Demand(maker) \in Nat
    <3>1. Left(taker) \in Nat  BY TakerTyped DEF PassedInv, Left
    <3> QED  BY <1>1, <1>2, <3>1, DemandNat
  <2>3. MarketQty \in Nat /\ MarketQty = Smaller(Left(maker), Demand(maker))
    <3>1. taker.side \in {"Buy", "Sell"}  BY TakerTyped DEF Sides
    <3>2. MarketQty = Smaller(Demand(maker), Left(maker))
      BY <1>1, <3>1 DEF MarketQty, Buyable, Demand
    <3> QED  BY <1>2, <2>2, <3>2 DEF Smaller
  <2>4. Cost(MarketQty, maker.price) \in Nat  BY <1>2, <2>3, CostNat
  <2>5. Cost(MarketQty, maker.price) = 0
    <3>1. CASE MarketQty = 0  BY <1>2, <3>1, CostOfNone
    <3>2. CASE MarketQty # 0  BY <2>1, <2>3, <2>4, <3>2
    <3> QED  BY <3>1, <3>2
  <2> QED  BY <2>3, <2>5 DEF Excused
<1>4. Excused(maker)  BY <1>3 DEF Excused
<1> QED  BY <1>1, <1>4, PassOverExcused DEF MarketPasses

LEMMA LimitFillExcused ==
  ASSUME TypeOK, BookOK(book, next_order_id), PassedInv, LimitTrades, LimitFill
  PROVE  PassedInv'
<1>1. /\ InLoop /\ pc = "limit" /\ LimitQty \in Nat /\ LimitQty <= Left(taker)
      /\ FillMaker(LimitQty) /\ pc' = pc
  BY LimitTradeTyped DEF LimitFill
<1>2. /\ taker'.side = taker.side /\ taker'.price = taker.price
      /\ taker'.user_key = taker.user_key /\ taker'.quantity = taker.quantity
      /\ taker'.filledquantity = taker.filledquantity + LimitQty
      /\ opposite' = opposite
  BY DEF LimitFill, opposite, TypeOK, Order
<1>3. /\ Left(taker) \in Nat /\ Left(taker)' \in Nat /\ Left(taker)' <= Left(taker)
      /\ taker'.filledquantity <= taker'.quantity
  BY <1>1, <1>2, TakerTyped DEF PassedInv, Left
<1>4. \A o \in RestingOrder : Demand(o)' \in Nat /\ Demand(o)' <= Demand(o)
  BY <1>1, <1>3 DEF Demand
<1>5. \A o \in RestingOrder : Passed(o)' => Excused(o)'
  BY <1>1, <1>2, <1>4, FillMakerExcused
<1> QED  BY <1>3, <1>5 DEF PassedInv

LEMMA MarketFillExcused ==
  ASSUME TypeOK, BookOK(book, next_order_id), PassedInv, MarketFillBuy \/ MarketFillSell
  PROVE  PassedInv'
<1>1. /\ InLoop /\ pc = "market" /\ MarketQty \in Nat /\ MarketPaid \in Nat
      /\ taker.side = "Sell" => MarketQty <= remaining_amount
      /\ MarketAffords /\ FillMaker(MarketQty) /\ pc' = pc /\ taker' = taker
  BY MarketTradeTyped DEF MarketFillBuy, MarketFillSell, MarketFill
<1>2. opposite' = opposite  BY <1>1 DEF opposite
<1>3. /\ remaining_amount \in Nat /\ remaining_amount' \in Nat
      /\ remaining_amount' <= remaining_amount
  BY <1>1 DEF MarketFillBuy, MarketFillSell, MarketAffords, TypeOK
<1>4. ASSUME NEW o \in RestingOrder PROVE Demand(o)' \in Nat /\ Demand(o)' <= Demand(o)
  <2>1. CASE taker.side = "Sell"  BY <1>1, <1>3, <2>1 DEF Demand
  <2>2. CASE taker.side # "Sell"
    <3> DEFINE m == remaining_amount' * Scale
               n == remaining_amount * Scale
    <3>1. m \in Nat /\ n \in Nat /\ m <= n  BY <1>3, ProductGrows, ParametersAssumption
    <3>2. o.price \in Nat \ {0}  BY DEF RestingOrder, Order
    <3>3. Demand(o)' = m \div o.price /\ Demand(o) = n \div o.price
      BY <1>1, <2>2 DEF Demand
    <3> HIDE DEF m, n
    <3> QED  BY <3>1, <3>2, <3>3, QuotientGrows
  <2> QED  BY <2>1, <2>2
<1>5. \A o \in RestingOrder : Passed(o)' => Excused(o)'
  BY <1>1, <1>2, <1>4, FillMakerExcused
<1> QED  BY <1>1, <1>5 DEF PassedInv

LEMMA PassedStep == TypeOK /\ BookInv /\ PassedInv /\ [Next]_vars => PassedInv'
<1> SUFFICES ASSUME TypeOK, BookInv, PassedInv, [Next]_vars PROVE PassedInv'  OBVIOUS
<1>1. BookOK(book, next_order_id)  BY DEF BookInv
<1>2. ASSUME Idle PROVE PassedInv'
  BY <1>2 DEF Idle, NoOrder, PassedInv
<1>3. CASE Begin
  <2>1. idx' = 1 /\ taker'.filledquantity = 0 /\ taker'.quantity \in Nat
    BY <1>3, ParametersAssumption DEF Begin, PlaceOrder, MarketOrder
  <2>2. ASSUME NEW o, Passed(o)' PROVE FALSE
    <3>1. PICK j \in 1..Len(book'[opposite']) : j < idx'  BY <2>2 DEF Passed
    <3> QED  BY <2>1, <3>1
  <2> QED  BY <2>1, <2>2 DEF PassedInv
<1>4. CASE LimitPasses  BY <1>1, <1>4, LimitPassesExcused
<1>5. CASE MarketPasses  BY <1>1, <1>5, MarketPassesExcused
<1>6. CASE LimitFillBuy \/ LimitFillSell
  BY <1>1, <1>6, LimitFillExcused DEF LimitFillBuy, LimitFillSell
<1>7. CASE MarketFillBuy \/ MarketFillSell  BY <1>1, <1>7, MarketFillExcused
<1>8. CASE LimitLoopEnds \/ MarketLoopEnds
  BY <1>8 DEF LimitLoopEnds, MarketLoopEnds, PassedInv
<1>9. CASE Fails \/ LimitFilled \/ LimitRests \/ LimitReleasesBuy \/ LimitReleasesSell
           \/ MarketSettlesBuy \/ MarketSettlesSell
  BY <1>2, <1>9 DEF Fails, Rollback, LimitFilled, LimitRests, LimitReleasesBuy,
     LimitReleasesSell, MarketSettlesBuy, MarketSettlesSell, Commit
<1>10. CASE Tick \/ SetWinningSide \/ UNCHANGED vars
  BY <1>10 DEF Tick, SetWinningSide, vars, cursor, proceeds, PassedInv, Passed, Excused,
     opposite, signer, Demand, PricesMatch
<1> QED
  BY <1>3, <1>4, <1>5, <1>6, <1>7, <1>8, <1>9, <1>10 DEF Next, Step

\* A fill while the loop stands at idx leaves no better order unexcused.
LEMMA FillIsBest ==
  ASSUME TypeOK, BookOK(book, next_order_id), PassedInv, InLoop, pc \in {"limit", "market"},
         pc = "limit" => PriceMatches, NEW o \in Resting(opposite)
  PROVE  \/ o.id = maker.id \/ o.user_key = signer
         \/ ~(\/ Ahead(o.side, o.price, maker.price)
              \/ o.price = maker.price /\ o.id < maker.id)
         \/ \E i \in 1..Len(fills) : fills[i].maker = o.id
         \/ Cost(Smaller(Left(o), Demand(o)), o.price) = 0
<1> DEFINE q == book[opposite]
<1>1. /\ opposite \in Books /\ opposite[2] = Other(taker.side) /\ taker.side \in {"Buy", "Sell"}
      /\ idx \in 1..Len(q) /\ Len(q) \in Nat /\ q \in Seq(RestingOrder) /\ maker = q[idx]
  BY TakerTyped, MakerTyped DEF maker, opposite, Sides
<1>2. PICK j \in 1..Len(q) : q[j] = o  BY DEF Resting
<1>3. /\ o \in RestingOrder /\ o.price \in Nat /\ o.id \in Nat /\ o.side = opposite[2]
      /\ maker.price \in Nat /\ maker.id \in Nat /\ taker.price \in Nat
  <2>1. o \in RestingOrder  BY <1>1, <1>2, ElementOfSeq
  <2>2. o.price \in Nat /\ o.id \in Nat  BY <2>1 DEF RestingOrder, Order
  <2>3. o.side = opposite[2]  BY <1>1, <1>2 DEF BookOK, Live
  <2> QED  BY <2>1, <2>2, <2>3, MakerTyped, TakerTyped
<1>4. CASE j = idx  BY <1>1, <1>2, <1>4
<1>5. CASE j > idx
  <2>1. \/ Ahead(opposite[2], maker.price, o.price)
        \/ maker.price = o.price /\ maker.id < o.id
    BY <1>1, <1>2, <1>5 DEF BookOK, Prioritised
  <2> QED  BY <1>1, <1>3, <2>1 DEF Ahead, Other
<1>6. CASE j < idx
  <2>1. Excused(o)  BY <1>2, <1>3, <1>6 DEF PassedInv, Passed
  <2>2. CASE pc = "limit" /\ ~PricesMatch(o)
    <3>1. \/ Ahead(opposite[2], o.price, maker.price)
          \/ o.price = maker.price /\ o.id < maker.id
      BY <1>1, <1>2, <1>6 DEF BookOK, Prioritised
    <3> QED  BY <1>1, <1>3, <2>2, <3>1 DEF Ahead, Other, PriceMatches, PricesMatch
  <2> QED  BY <2>1, <2>2 DEF Excused
<1> QED  BY <1>1, <1>4, <1>5, <1>6

\* Price-time priority of the trades themselves: whatever comes before the maker
\* that is filled is excused, for any book, any limit and any budget.
THEOREM BestFirstCorrect == Spec => BestFirst
<1>1. Init => PassedInv  BY DEF Init, NoOrder, PassedInv
<1>2. TypeOK /\ BookInv /\ PassedInv /\ [Next]_vars =>
        [Len(fills') = Len(fills) + 1 =>
           \A o \in Resting(opposite) :
             \/ o.id = maker.id \/ o.user_key = signer
             \/ ~(\/ Ahead(o.side, o.price, maker.price)
                  \/ o.price = maker.price /\ o.id < maker.id)
             \/ \E i \in 1..Len(fills) : fills[i].maker = o.id
             \/ Cost(Smaller(Left(o), IF pc = "limit" THEN Left(taker)
                                      ELSE IF taker.side = "Sell" THEN remaining_amount
                                      ELSE (remaining_amount * Scale) \div o.price),
                     o.price) = 0]_vars
  <2> SUFFICES ASSUME TypeOK, BookInv, PassedInv, Next, Len(fills') = Len(fills) + 1,
                      NEW o \in Resting(opposite)
               PROVE  \/ o.id = maker.id \/ o.user_key = signer
                      \/ ~(\/ Ahead(o.side, o.price, maker.price)
                           \/ o.price = maker.price /\ o.id < maker.id)
                      \/ \E i \in 1..Len(fills) : fills[i].maker = o.id
                      \/ Cost(Smaller(Left(o), Demand(o)), o.price) = 0
    BY DEF Demand
  <2>1. Len(fills) \in Nat  BY LenProperties DEF TypeOK
  <2>2. fills' # fills /\ fills' # << >>  BY <2>1, EmptySeq
  <2>3. LimitFillBuy \/ LimitFillSell \/ MarketFillBuy \/ MarketFillSell
    BY <2>2 DEF Next, Step, Begin, PlaceOrder, MarketOrder, LimitPasses, MarketPasses,
       PassOver, Fails, Rollback, LimitLoopEnds, MarketLoopEnds, LimitFilled, LimitRests,
       LimitReleasesBuy, LimitReleasesSell, MarketSettlesBuy, MarketSettlesSell, Commit,
       Idle, Tick, SetWinningSide
  <2>4. InLoop /\ pc \in {"limit", "market"} /\ (pc = "limit" => PriceMatches)
    BY <2>3 DEF LimitFillBuy, LimitFillSell, LimitTrades, LimitLooksAt, Eligible,
       MarketFillBuy, MarketFillSell, MarketFill, MarketTrades, MarketLooksAt
  <2> QED  BY <2>4, FillIsBest DEF BookInv
<1>3. TypeOK /\ BookInv /\ PassedInv /\ [Next]_vars => PassedInv'  BY PassedStep
<1> QED  BY <1>1, <1>2, <1>3, BookInit, BookStep, TypeCorrect, PTL DEF Spec, BestFirst

-----------------------------------------------------------------------------
(* Crossed orders *)

InBook(bk, c) == {bk[c][i] : i \in 1..Len(bk[c])}

\* Why a bid and an ask may both rest although their prices cross.
Reasonable(b, a, cut) ==
  b.price >= a.price =>
    LET first == IF b.id < a.id THEN b ELSE a
        last == IF b.id < a.id THEN a ELSE b
    IN \/ a.user_key = b.user_key
       \/ last.id \in cut
       \/ Cost(Smaller(Left(a), Left(b)), first.price) = 0

CrossedOK(bk, cut) ==
  \A k \in Tokens : \A b \in InBook(bk, <<k, "Buy">>), a \in InBook(bk, <<k, "Sell">>) :
    Reasonable(b, a, cut)

\* What a fill makes of a resting order, or nothing makes of it.
Remains(o, r) ==
  /\ o.id = r.id /\ o.price = r.price /\ o.user_key = r.user_key
  /\ Left(o) \in Nat /\ Left(r) \in Nat /\ Left(o) <= Left(r)

LEMMA InBookTyped ==
  ASSUME NEW bk \in [Books -> Seq(RestingOrder)], NEW c \in Books, NEW o \in InBook(bk, c)
  PROVE  o \in RestingOrder
<1>1. bk[c] \in Seq(RestingOrder)  OBVIOUS
<1>2. PICK i \in 1..Len(bk[c]) : o = bk[c][i]  BY DEF InBook
<1> QED  BY <1>1, <1>2, ElementOfSeq

LEMMA StaysReasonable ==
  ASSUME NEW b, NEW a, NEW d \in RestingOrder, NEW c \in RestingOrder, NEW cut, NEW more,
         Reasonable(d, c, cut), Remains(b, d), Remains(a, c), cut \subseteq more
  PROVE  Reasonable(b, a, more)
<1> SUFFICES ASSUME b.price >= a.price PROVE Reasonable(b, a, more)
  BY DEF Reasonable
<1> DEFINE p == IF b.id < a.id THEN b.price ELSE a.price
           m == Smaller(Left(a), Left(b))
           n == Smaller(Left(c), Left(d))
<1>1. p \in Nat /\ d.price >= c.price
  BY DEF Remains, RestingOrder, Order
<1>2. m \in Nat /\ n \in Nat /\ m <= n  BY DEF Remains, Smaller
<1>3. \/ c.user_key = d.user_key
      \/ (IF d.id < c.id THEN c ELSE d).id \in cut
      \/ Cost(n, (IF d.id < c.id THEN d ELSE c).price) = 0
  BY <1>1 DEF Reasonable
<1>4. CASE c.user_key = d.user_key  BY <1>4 DEF Reasonable, Remains
<1>5. CASE (IF d.id < c.id THEN c ELSE d).id \in cut
  BY <1>5 DEF Reasonable, Remains
<1>6. CASE Cost(n, (IF d.id < c.id THEN d ELSE c).price) = 0
  <2>1. Cost(n, p) = 0  BY <1>6 DEF Remains
  <2> HIDE DEF p, m, n
  <2>2. Cost(m, p) = 0  BY <1>1, <1>2, <2>1, CostGrows
  <2> QED  BY <2>2 DEF Reasonable, p, m
<1> QED  BY <1>3, <1>4, <1>5, <1>6

\* A book whose orders all come from another one crosses no more than that.
LEMMA FewerCrossed ==
  ASSUME NEW bk \in [Books -> Seq(RestingOrder)], NEW new, NEW cut, NEW more,
         CrossedOK(bk, cut), cut \subseteq more,
         \A c \in Books : \A o \in InBook(new, c) : \E r \in InBook(bk, c) : Remains(o, r)
  PROVE  CrossedOK(new, more)
<1> SUFFICES ASSUME NEW k \in Tokens, NEW b \in InBook(new, <<k, "Buy">>),
                    NEW a \in InBook(new, <<k, "Sell">>)
             PROVE  Reasonable(b, a, more)
  BY DEF CrossedOK
<1>1. <<k, "Buy">> \in Books /\ <<k, "Sell">> \in Books  BY DEF Books, Sides
<1>2. PICK d \in InBook(bk, <<k, "Buy">>) : Remains(b, d)  BY <1>1
<1>3. PICK c \in InBook(bk, <<k, "Sell">>) : Remains(a, c)  BY <1>1
<1>4. d \in RestingOrder /\ c \in RestingOrder  BY <1>1, InBookTyped
<1>5. Reasonable(d, c, cut)  BY DEF CrossedOK
<1> QED  BY <1>2, <1>3, <1>4, <1>5, StaysReasonable

\* A book in which nothing happens to any order.
LEMMA SelfRemains ==
  ASSUME NEW bk \in [Books -> Seq(RestingOrder)], NEW n, BookOK(bk, n),
         NEW c \in Books, NEW o \in InBook(bk, c)
  PROVE  Remains(o, o)
<1>1. PICK i \in 1..Len(bk[c]) : o = bk[c][i]  BY DEF InBook
<1>2. o.filledquantity < o.quantity  BY <1>1 DEF BookOK, Live
<1>3. o \in RestingOrder  BY InBookTyped
<1> QED  BY <1>2, <1>3 DEF Remains, Left, RestingOrder, Order

LEMMA UnlinkRemains ==
  ASSUME NEW bk \in [Books -> Seq(RestingOrder)], NEW n, BookOK(bk, n), NEW b \in Books,
         NEW i \in 1..Len(bk[b]), NEW c \in Books,
         NEW o \in InBook([bk EXCEPT ![b] = Unlink(bk[b], i)], c)
  PROVE  \E r \in InBook(bk, c) : Remains(o, r)
<1> DEFINE q == bk[b]
<1>0. q \in Seq(RestingOrder) /\ Len(q) \in Nat  BY LenProperties
<1>1. o \in InBook(bk, c)
  <2>1. CASE c = b
    <3>1. PICK j \in 1..Len(Unlink(q, i)) : o = Unlink(q, i)[j]
      BY <2>1 DEF InBook
    <3>2. /\ Len(Unlink(q, i)) = Len(q) - 1
          /\ \A l \in 1..(Len(q) - 1) :
               Unlink(q, i)[l] = IF l < i THEN q[l] ELSE q[l + 1]
      BY <1>0, UnlinkProperties
    <3>3. \E l \in 1..Len(q) : o = q[l]
      <4>1. CASE j < i
        <5>1. j \in 1..Len(q) /\ o = q[j]  BY <1>0, <3>1, <3>2, <4>1
        <5> QED  BY <5>1
      <4>2. CASE ~(j < i)
        <5>1. j + 1 \in 1..Len(q) /\ o = q[j + 1]  BY <1>0, <3>1, <3>2, <4>2
        <5> QED  BY <5>1
      <4> QED  BY <4>1, <4>2
    <3> QED  BY <2>1, <3>3 DEF InBook
  <2>2. CASE c # b  BY <2>2 DEF InBook
  <2> QED  BY <2>1, <2>2
<1> QED  BY <1>1, SelfRemains

LEMMA FilledRemains ==
  ASSUME NEW bk \in [Books -> Seq(RestingOrder)], NEW n, BookOK(bk, n), NEW b \in Books,
         NEW i \in 1..Len(bk[b]), NEW c \in Books, NEW qty \in Nat,
         bk[b][i].filledquantity + qty < bk[b][i].quantity,
         NEW o \in InBook([bk EXCEPT ![b] = Filled(bk[b], i, qty)], c)
  PROVE  \E r \in InBook(bk, c) : Remains(o, r)
<1> DEFINE q == bk[b]
<1>0. q \in Seq(RestingOrder) /\ Len(q) \in Nat  BY LenProperties
<1>1. CASE c = b
  <2>1. PICK j \in 1..Len(Filled(q, i, qty)) : o = Filled(q, i, qty)[j]
    BY <1>1 DEF InBook
  <2>2. /\ Len(Filled(q, i, qty)) = Len(q)
        /\ \A l \in 1..Len(q) : Filled(q, i, qty)[l] =
             IF l = i THEN [q[i] EXCEPT !.filledquantity = @ + qty] ELSE q[l]
    BY <1>0, FilledProperties
  <2>3. CASE j = i
    <3>1. o = [q[i] EXCEPT !.filledquantity = @ + qty]  BY <1>0, <2>1, <2>2, <2>3
    <3>2. q[i] \in RestingOrder  BY <1>0, ElementOfSeq
    <3>3. Remains(o, q[i])  BY <3>1, <3>2 DEF Remains, Left, RestingOrder, Order
    <3> QED  BY <1>1, <3>3 DEF InBook
  <2>4. CASE j # i
    <3>1. o \in InBook(bk, c)  BY <1>0, <1>1, <2>1, <2>2, <2>4 DEF InBook
    <3> QED  BY <3>1, SelfRemains
  <2> QED  BY <2>3, <2>4
<1>2. CASE c # b
  <2>1. o \in InBook(bk, c)  BY <1>2 DEF InBook
  <2> QED  BY <2>1, SelfRemains
<1> QED  BY <1>1, <1>2

LEMMA FillMakerFewer ==
  ASSUME TypeOK, BookOK(book, next_order_id), InLoop, NEW qty \in Nat, FillMaker(qty),
         NEW cut, CrossedOK(book, cut)
  PROVE  CrossedOK(book', cut)
<1>1. book \in [Books -> Seq(RestingOrder)]  BY AccountsTyped DEF TypeOK, Balances
<1>2. opposite \in Books /\ idx \in 1..Len(book[opposite])  BY TakerTyped, MakerTyped
<1>3. CASE maker.filledquantity + qty >= maker.quantity
  <2>1. book' = [book EXCEPT ![opposite] = Unlink(book[opposite], idx)]
    BY <1>3 DEF FillMaker
  <2>2. \A c \in Books : \A o \in InBook(book', c) : \E r \in InBook(book, c) : Remains(o, r)
    BY <1>1, <1>2, <2>1, UnlinkRemains
  <2> QED  BY <1>1, <2>2, FewerCrossed
<1>4. CASE ~(maker.filledquantity + qty >= maker.quantity)
  <2>1. book' = [book EXCEPT ![opposite] = Filled(book[opposite], idx, qty)]
    BY <1>4 DEF FillMaker
  <2>2. /\ maker.filledquantity \in Nat /\ maker.quantity \in Nat
        /\ maker = book[opposite][idx]
    BY MakerTyped DEF maker
  <2>3. book[opposite][idx].filledquantity + qty < book[opposite][idx].quantity
    BY <1>4, <2>2
  <2>4. \A c \in Books : \A o \in InBook(book', c) : \E r \in InBook(book, c) : Remains(o, r)
    BY <1>1, <1>2, <2>1, <2>3, FilledRemains
  <2> QED  BY <1>1, <2>4, FewerCrossed
<1> QED  BY <1>3, <1>4

LEMMA PassOverFewer ==
  ASSUME TypeOK, BookOK(book, next_order_id), InLoop, NEW remove \in BOOLEAN,
         PassOver(remove), NEW cut, CrossedOK(book, cut)
  PROVE  CrossedOK(book', cut)
<1>1. book \in [Books -> Seq(RestingOrder)]  BY AccountsTyped DEF TypeOK, Balances
<1>2. opposite \in Books /\ idx \in 1..Len(book[opposite])  BY TakerTyped, MakerTyped
<1>3. CASE remove
  <2>1. book' = [book EXCEPT ![opposite] = Unlink(book[opposite], idx)]
    BY <1>3 DEF PassOver
  <2>2. \A c \in Books : \A o \in InBook(book', c) : \E r \in InBook(book, c) : Remains(o, r)
    BY <1>1, <1>2, <2>1, UnlinkRemains
  <2> QED  BY <1>1, <2>2, FewerCrossed
<1>4. CASE ~remove  BY <1>4 DEF PassOver
<1> QED  BY <1>3, <1>4

\* A taker that has less left to trade trades with no more orders.
LEMMA StaysNoTrade ==
  ASSUME NEW o \in RestingOrder, NoTrade(o), taker'.side = taker.side,
         taker'.price = taker.price, taker'.user_key = taker.user_key, Left(o) \in Nat,
         Left(taker) \in Nat, Left(taker)' \in Nat, Left(taker)' <= Left(taker)
  PROVE  NoTrade(o)'
<1>1. CASE o.user_key = signer  BY <1>1 DEF NoTrade, signer
<1>2. CASE ~PricesMatch(o)  BY <1>2 DEF NoTrade, PricesMatch
<1>3. CASE Cost(Smaller(Left(o), Left(taker)), o.price) = 0
  <2> DEFINE m == Smaller(Left(o), Left(taker)')
             n == Smaller(Left(o), Left(taker))
  <2>1. m \in Nat /\ n \in Nat /\ m <= n  BY DEF Smaller
  <2>2. o.price \in Nat  BY DEF RestingOrder, Order
  <2>3. Cost(n, o.price) = 0  BY <1>3
  <2> HIDE DEF m, n
  <2>4. Cost(m, o.price) = 0  BY <2>1, <2>2, <2>3, CostGrows
  <2> QED  BY <2>4 DEF NoTrade, m
<1> QED  BY <1>1, <1>2, <1>3 DEF NoTrade

\* With whom the limit order has not traded when its loop is over, unless the
\* loop was cut short, is why what is left of it may rest.
LoopInv ==
  /\ pc = "limit" => \A o \in RestingOrder : Passed(o) => NoTrade(o)
  /\ pc = "rest" => \/ Left(taker) = 0
                    \/ CutShort
                    \/ \A o \in InBook(book, opposite) : NoTrade(o)

CrossedInv ==
  /\ CrossedOK(book, truncated)
  /\ CrossedOK(saved.book, truncated)
  /\ LoopInv

LEMMA LimitPassesLoop ==
  ASSUME TypeOK, BookInv, PassedInv, LoopInv, LimitPasses
  PROVE  LoopInv'
<1>1. InLoop /\ pc = "limit" /\ PassOver(Eligible /\ Left(maker) = 0)
  BY DEF LimitPasses, LimitLooksAt
<1>2. taker' = taker /\ pc' = pc  BY <1>1 DEF PassOver
<1>3. ASSUME NEW o \in RestingOrder, Passed(o)' PROVE NoTrade(o)'
  <2>1. Passed(o) \/ (~(Eligible /\ Left(maker) = 0) /\ o = maker)
    BY <1>1, <1>3, PassOverPasses
  <2>2. NoTrade(o)
    BY <1>1, <2>1, LimitPassesNoTrade DEF BookInv, LoopInv
  <2> QED  BY <1>2, <2>2 DEF NoTrade, signer, PricesMatch
<1> QED  BY <1>1, <1>2, <1>3 DEF LoopInv

LEMMA LimitFillLoop ==
  ASSUME TypeOK, BookInv, PassedInv, LoopInv, LimitTrades, LimitFill, BookInv'
  PROVE  LoopInv'
<1>1. /\ InLoop /\ pc = "limit" /\ LimitQty \in Nat /\ LimitQty <= Left(taker)
      /\ FillMaker(LimitQty) /\ pc' = pc
  BY LimitTradeTyped DEF LimitFill
<1>2. /\ taker'.side = taker.side /\ taker'.price = taker.price
      /\ taker'.user_key = taker.user_key /\ taker'.quantity = taker.quantity
      /\ taker'.filledquantity = taker.filledquantity + LimitQty
      /\ opposite' = opposite
  BY DEF LimitFill, opposite, TypeOK, Order
<1>3. /\ Left(taker) \in Nat /\ Left(taker)' \in Nat /\ Left(taker)' <= Left(taker)
      /\ Left(taker)' = Left(taker) - LimitQty
  BY <1>1, <1>2, TakerTyped DEF PassedInv, Left
<1>4. ASSUME NEW o \in RestingOrder, Passed(o)' PROVE NoTrade(o)'
  <2>1. Left(o) \in Nat
    <3>1. PICK j \in 1..Len(book'[opposite]) : book'[opposite][j] = o
      BY <1>2, <1>4 DEF Passed
    <3>2. o.filledquantity < o.quantity
      BY <3>1, TakerTyped DEF BookInv, BookOK, Live
    <3> QED  BY <3>2 DEF Left, RestingOrder, Order
  <2>2. CASE Passed(o)
    <3>1. NoTrade(o)  BY <1>1, <2>2 DEF LoopInv
    <3> QED  BY <1>2, <1>3, <2>1, <3>1, StaysNoTrade
  <2>3. CASE ~(maker.filledquantity + LimitQty >= maker.quantity)
    <3>1. LimitQty = Left(taker)
      BY <1>1, <1>3, <2>3, MakerTyped DEF LimitQty, Smaller, Left
    <3>2. Left(taker)' = 0  BY <1>3, <3>1
    <3>3. Smaller(Left(o), Left(taker)') = 0  BY <2>1, <3>2 DEF Smaller
    <3>4. Cost(Smaller(Left(o), Left(taker)'), o.price) = 0
      BY <3>3, CostOfNone DEF RestingOrder, Order
    <3> QED  BY <3>4 DEF NoTrade
  <2> QED  BY <1>1, <1>2, <1>4, <2>2, <2>3, FillMakerPasses
<1> QED  BY <1>1, <1>4 DEF LoopInv

LEMMA LimitLoopEndsLoop ==
  ASSUME TypeOK, LoopInv, LimitLoopEnds
  PROVE  LoopInv'
<1>1. /\ pc = "limit" /\ pc' = "rest" /\ (InLoop => Left(taker) = 0)
      /\ UNCHANGED <<book, taker, idx, iteration, max_iteration>>
  BY DEF LimitLoopEnds, control, cursor
<1>2. opposite' = opposite /\ Left(taker)' = Left(taker) /\ CutShort' = CutShort
  BY <1>1 DEF opposite, CutShort, Left
<1>3. \A o : NoTrade(o)' <=> NoTrade(o)  BY <1>1 DEF NoTrade, signer, PricesMatch
<1>4. CASE InLoop  BY <1>1, <1>2, <1>4 DEF LoopInv
<1>5. CASE ~InLoop /\ idx <= Len(book[opposite])
  <2>1. CutShort  BY <1>5 DEF InLoop, CutShort, TypeOK
  <2> QED  BY <1>1, <1>2, <2>1 DEF LoopInv
<1>6. CASE idx > Len(book[opposite])
  <2>1. ASSUME NEW o \in InBook(book, opposite) PROVE NoTrade(o)
    <3>1. PICK j \in 1..Len(book[opposite]) : o = book[opposite][j]  BY DEF InBook
    <3>2. j < idx  BY <1>6, <3>1, TakerTyped DEF TypeOK
    <3>3. o \in RestingOrder /\ Passed(o)
      BY <3>1, <3>2, TakerTyped, ElementOfSeq DEF Passed
    <3> QED  BY <1>1, <3>3 DEF LoopInv
  <2> QED  BY <1>1, <1>2, <1>3, <2>1 DEF LoopInv
<1> QED  BY <1>4, <1>5, <1>6, TakerTyped DEF TypeOK

LEMMA InsertInBook ==
  ASSUME NEW bk \in [Books -> Seq(RestingOrder)], NEW b \in Books, NEW c \in Books,
         NEW k \in 0..Len(bk[b]), NEW t \in RestingOrder,
         NEW o \in InBook([bk EXCEPT ![b] = Insert(bk[b], t, k)], c)
  PROVE  o \in InBook(bk, c) \/ (c = b /\ o = t)
<1> DEFINE q == bk[b]
<1>0. q \in Seq(RestingOrder) /\ Len(q) \in Nat  BY LenProperties
<1>1. CASE c = b
  <2>1. PICK j \in 1..Len(Insert(q, t, k)) : o = Insert(q, t, k)[j]
    BY <1>1 DEF InBook
  <2>2. /\ Len(Insert(q, t, k)) = Len(q) + 1
        /\ \A l \in 1..(Len(q) + 1) : Insert(q, t, k)[l] =
             IF l <= k THEN q[l] ELSE IF l = k + 1 THEN t ELSE q[l - 1]
    BY <1>0, InsertProperties
  <2>3. CASE j <= k
    <3>1. j \in 1..Len(q) /\ o = q[j]  BY <1>0, <2>1, <2>2, <2>3
    <3> QED  BY <1>1, <3>1 DEF InBook
  <2>4. CASE j = k + 1  BY <1>0, <1>1, <2>1, <2>2, <2>4
  <2>5. CASE j > k + 1
    <3>1. j - 1 \in 1..Len(q) /\ o = q[j - 1]  BY <1>0, <2>1, <2>2, <2>5
    <3> QED  BY <1>1, <3>1 DEF InBook
  <2> QED  BY <1>0, <2>1, <2>2, <2>3, <2>4, <2>5
<1>2. CASE c # b  BY <1>2 DEF InBook
<1> QED  BY <1>1, <1>2

\* An order that rests may cross whom it did not trade with.
LEMMA TakerReasonable ==
  ASSUME TypeOK, PassedInv, NEW o \in RestingOrder, o.id < taker.id, Left(o) \in Nat,
         NEW cut, NoTrade(o) \/ taker.id \in cut
  PROVE  IF taker.side = "Buy" THEN Reasonable(taker, o, cut) ELSE Reasonable(o, taker, cut)
<1>1. /\ o.price \in Nat /\ o.id \in Nat /\ taker.price \in Nat /\ taker.id \in Nat
      /\ Left(taker) \in Nat
  BY TakerTyped DEF PassedInv, Left, RestingOrder, Order
<1>2. Smaller(Left(o), Left(taker)) = Smaller(Left(taker), Left(o))
  BY <1>1 DEF Smaller
<1>3. CASE taker.side = "Buy"
  <2>1. CASE taker.id \in cut  BY <1>1, <1>3, <2>1 DEF Reasonable
  <2>2. CASE NoTrade(o)
    BY <1>1, <1>3, <2>2 DEF Reasonable, NoTrade, PricesMatch, signer
  <2> QED  BY <2>1, <2>2
<1>4. CASE taker.side # "Buy"
  <2>1. CASE taker.id \in cut  BY <1>1, <1>4, <2>1 DEF Reasonable
  <2>2. CASE NoTrade(o)
    BY <1>1, <1>2, <1>4, <2>2 DEF Reasonable, NoTrade, PricesMatch, signer
  <2> QED  BY <2>1, <2>2
<1> QED  BY <1>3, <1>4

LEMMA LimitRestsCrossed ==
  ASSUME TypeOK, BookInv, PassedInv, CrossedInv, LimitRests
  PROVE  CrossedOK(book', truncated')
<1>1. /\ pc = "rest" /\ Left(taker) > 0 /\ taker \in RestingOrder
      /\ truncated' = IF CutShort THEN truncated \cup {taker.id} ELSE truncated
  BY DEF LimitRests, TypeOK, RestingOrder
<1>2. /\ book \in [Books -> Seq(RestingOrder)] /\ own \in Books /\ opposite \in Books
      /\ taker.side \in {"Buy", "Sell"} /\ Left(taker) \in Nat
  BY AccountsTyped, TakerTyped DEF TypeOK, Balances, Sides, PassedInv, Left
<1>3. PICK k \in 0..Len(book[own]) : book' = [book EXCEPT ![own] = Insert(book[own], taker, k)]
  BY DEF LimitRests
<1>4. BookOK(book, taker.id)  BY <1>1 DEF BookInv
<1>5. ASSUME NEW o \in InBook(book, opposite)
      PROVE  IF taker.side = "Buy" THEN Reasonable(taker, o, truncated')
                                   ELSE Reasonable(o, taker, truncated')
  <2>1. o \in RestingOrder  BY <1>2, InBookTyped
  <2>2. Left(o) \in Nat  BY <1>2, <1>4, SelfRemains DEF Remains
  <2>3. o.id < taker.id  BY <1>2, <1>4 DEF BookOK, Live, InBook
  <2>4. NoTrade(o) \/ taker.id \in truncated'
    BY <1>1, <1>2, <1>5 DEF CrossedInv, LoopInv
  <2> DEFINE cut == truncated'
  <2> HIDE DEF cut
  <2>5. NoTrade(o) \/ taker.id \in cut  BY <2>4 DEF cut
  <2>6. IF taker.side = "Buy" THEN Reasonable(taker, o, cut) ELSE Reasonable(o, taker, cut)
    BY <2>1, <2>2, <2>3, <2>5, TakerReasonable
  <2> QED  BY <2>6 DEF cut
<1>6. ASSUME NEW t \in Tokens, NEW b \in InBook(book, <<t, "Buy">>),
             NEW a \in InBook(book, <<t, "Sell">>)
      PROVE  Reasonable(b, a, truncated')
  <2>1. <<t, "Buy">> \in Books /\ <<t, "Sell">> \in Books  BY DEF Books, Sides
  <2>2. b \in RestingOrder /\ a \in RestingOrder  BY <1>2, <2>1, InBookTyped
  <2>3. Remains(b, b) /\ Remains(a, a)  BY <1>2, <1>4, <2>1, SelfRemains
  <2>4. Reasonable(b, a, truncated)  BY DEF CrossedInv, CrossedOK
  <2>5. truncated \subseteq truncated'  BY <1>1
  <2> QED  BY <2>2, <2>3, <2>4, <2>5, StaysReasonable
<1>7. ASSUME NEW t \in Tokens, NEW b \in InBook(book', <<t, "Buy">>),
             NEW a \in InBook(book', <<t, "Sell">>)
      PROVE  Reasonable(b, a, truncated')
  <2>1. <<t, "Buy">> \in Books /\ <<t, "Sell">> \in Books  BY DEF Books, Sides
  <2>2. b \in InBook(book, <<t, "Buy">>) \/ (own = <<t, "Buy">> /\ b = taker)
    BY <1>1, <1>2, <1>3, <2>1, InsertInBook
  <2>3. a \in InBook(book, <<t, "Sell">>) \/ (own = <<t, "Sell">> /\ a = taker)
    BY <1>1, <1>2, <1>3, <2>1, InsertInBook
  <2>4. CASE own = <<t, "Buy">> /\ b = taker
    <3>1. opposite = <<t, "Sell">> /\ taker.side = "Buy" /\ own # <<t, "Sell">>
      BY <2>4 DEF own, opposite, Other
    <3> QED  BY <1>5, <2>3, <2>4, <3>1
  <2>5. CASE own = <<t, "Sell">> /\ a = taker
    <3>1. opposite = <<t, "Buy">> /\ taker.side = "Sell" /\ own # <<t, "Buy">>
      BY <2>5 DEF own, opposite, Other
    <3> QED  BY <1>5, <2>2, <2>5, <3>1
  <2> QED  BY <1>6, <2>2, <2>3, <2>4, <2>5
<1> QED  BY <1>7 DEF CrossedOK

LEMMA CrossedStep ==
  TypeOK /\ BookInv /\ PassedInv /\ CrossedInv /\ [Next]_vars /\ BookInv' => CrossedInv'
<1> SUFFICES ASSUME TypeOK, BookInv, PassedInv, CrossedInv, [Next]_vars, BookInv'
             PROVE  CrossedInv'
  OBVIOUS
<1>1. BookOK(book, next_order_id)  BY DEF BookInv
<1>2. ASSUME pc' \notin {"limit", "rest"} PROVE LoopInv'  BY <1>2 DEF LoopInv
<1>3. ASSUME Commit, CrossedOK(book', truncated') PROVE CrossedInv'
  <2>1. saved'.book = book' /\ pc' = "idle"  BY <1>3 DEF Commit, Accounts, Idle
  <2> QED  BY <1>2, <1>3, <2>1 DEF CrossedInv
<1>4. ASSUME book' = book, saved' = saved, truncated' = truncated, LoopInv'
      PROVE  CrossedInv'
  BY <1>4 DEF CrossedInv
<1>5. CASE Begin
  <2>1. /\ book' = book /\ saved' = saved /\ truncated' = truncated
        /\ idx' = 1 /\ pc' \in {"limit", "market"}
    BY <1>5 DEF Begin, PlaceOrder, MarketOrder
  <2>2. ASSUME NEW o, Passed(o)' PROVE FALSE
    <3>1. PICK j \in 1..Len(book'[opposite']) : j < idx'  BY <2>2 DEF Passed
    <3> QED  BY <2>1, <3>1
  <2>3. LoopInv'  BY <2>1, <2>2 DEF LoopInv
  <2> QED  BY <1>4, <2>1, <2>3
<1>6. CASE LimitPasses
  <2>1. PassOver(Eligible /\ Left(maker) = 0) /\ InLoop
    BY <1>6 DEF LimitPasses, LimitLooksAt
  <2>2. saved' = saved /\ truncated' = truncated  BY <2>1 DEF PassOver
  <2>3. CrossedOK(book', truncated)  BY <1>1, <2>1, PassOverFewer DEF CrossedInv
  <2>4. LoopInv'  BY <1>6, LimitPassesLoop DEF CrossedInv
  <2> QED  BY <2>2, <2>3, <2>4 DEF CrossedInv
<1>7. CASE MarketPasses
  <2>1. PassOver(Left(maker) = 0) /\ InLoop /\ pc = "market"
    BY <1>7 DEF MarketPasses, MarketLooksAt
  <2>2. saved' = saved /\ truncated' = truncated /\ pc' = pc  BY <2>1 DEF PassOver
  <2>3. CrossedOK(book', truncated)  BY <1>1, <2>1, PassOverFewer DEF CrossedInv
  <2> QED  BY <1>2, <2>1, <2>2, <2>3 DEF CrossedInv
<1>8. CASE LimitFillBuy \/ LimitFillSell
  <2>1. LimitTrades /\ LimitFill  BY <1>8 DEF LimitFillBuy, LimitFillSell
  <2>2. InLoop /\ LimitQty \in Nat /\ FillMaker(LimitQty)
    BY <2>1, LimitTradeTyped DEF LimitFill
  <2>3. saved' = saved /\ truncated' = truncated  BY <2>1 DEF LimitFill
  <2>4. CrossedOK(book', truncated)  BY <1>1, <2>2, FillMakerFewer DEF CrossedInv
  <2>5. LoopInv'  BY <2>1, LimitFillLoop DEF CrossedInv
  <2> QED  BY <2>3, <2>4, <2>5 DEF CrossedInv
<1>9. CASE MarketFillBuy \/ MarketFillSell
  <2>1. MarketTrades /\ MarketFill  BY <1>9 DEF MarketFillBuy, MarketFillSell, MarketFill
  <2>2. InLoop /\ MarketQty \in Nat /\ FillMaker(MarketQty) /\ pc = "market"
    BY <2>1, MarketTradeTyped DEF MarketFill
  <2>3. saved' = saved /\ truncated' = truncated /\ pc' = pc  BY <2>1 DEF MarketFill
  <2>4. CrossedOK(book', truncated)  BY <1>1, <2>2, FillMakerFewer DEF CrossedInv
  <2> QED  BY <1>2, <2>2, <2>3, <2>4 DEF CrossedInv
<1>10. CASE LimitLoopEnds
  <2>1. LoopInv'  BY <1>10, LimitLoopEndsLoop DEF CrossedInv
  <2> QED  BY <1>4, <1>10, <2>1 DEF LimitLoopEnds
<1>11. CASE MarketLoopEnds
  BY <1>2, <1>4, <1>11 DEF MarketLoopEnds
<1>12. CASE LimitRests
  <2>1. Commit  BY <1>12 DEF LimitRests
  <2> QED  BY <1>3, <1>12, <2>1, LimitRestsCrossed
<1>13. CASE LimitFilled \/ LimitReleasesBuy \/ LimitReleasesSell
            \/ MarketSettlesBuy \/ MarketSettlesSell
  <2>1. Commit /\ book' = book /\ truncated' = truncated
    BY <1>13 DEF LimitFilled, LimitReleasesBuy, LimitReleasesSell, MarketSettlesBuy,
       MarketSettlesSell
  <2> QED  BY <1>3, <2>1 DEF CrossedInv
<1>14. CASE Fails
  <2>1. /\ book' = saved.book /\ saved' = saved /\ truncated' = truncated
        /\ pc' = "idle"
    BY <1>14 DEF Fails, Rollback, Idle
  <2> QED  BY <1>2, <2>1 DEF CrossedInv
<1>15. CASE Tick \/ SetWinningSide
  BY <1>2, <1>4, <1>15 DEF Tick, SetWinningSide
<1>16. CASE UNCHANGED vars
  <2>1. /\ UNCHANGED <<book, saved, truncated, pc, taker>>
        /\ idx' = idx /\ iteration' = iteration /\ max_iteration' = max_iteration
    BY <1>16 DEF vars, control, cursor
  <2>2. opposite' = opposite /\ CutShort' = CutShort /\ Left(taker)' = Left(taker)
    BY <2>1 DEF opposite, CutShort, Left
  <2>3. \A o : (NoTrade(o)' <=> NoTrade(o)) /\ (Passed(o)' <=> Passed(o))
    BY <2>1, <2>2 DEF NoTrade, Passed, signer, PricesMatch
  <2>4. LoopInv'  BY <2>1, <2>2, <2>3 DEF CrossedInv, LoopInv
  <2> QED  BY <1>4, <2>1, <2>4
<1> QED
  BY <1>5, <1>6, <1>7, <1>8, <1>9, <1>10, <1>11, <1>12, <1>13, <1>14, <1>15, <1>16
  DEF Next, Step

\* The book never stays crossed without one of the three reasons, for any number
\* of orders, users and instructions, partial fills and rollbacks between them.
THEOREM CrossedForAReasonCorrect == Spec => []CrossedForAReason
<1>1. Init => CrossedInv
  <2> SUFFICES ASSUME Init PROVE CrossedInv  OBVIOUS
  <2>1. \A c \in Books : InBook(book, c) = {}  BY EmptySeq DEF Init, InBook
  <2>2. \A k \in Tokens : <<k, "Buy">> \in Books  BY DEF Books, Sides
  <2>3. CrossedOK(book, truncated)  BY <2>1, <2>2 DEF CrossedOK
  <2>4. saved.book = book /\ pc = "idle"  BY DEF Init, Accounts
  <2> QED  BY <2>3, <2>4 DEF CrossedInv, LoopInv
<1>2. CrossedInv => CrossedForAReason
  BY DEF CrossedInv, CrossedOK, CrossedForAReason, Reasonable, Resting, InBook
<1>3. Init => PassedInv  BY DEF Init, NoOrder, PassedInv
<1> QED
  BY <1>1, <1>2, <1>3, CrossedStep, PassedStep, BookInit, BookStep, TypeCorrect, PTL DEF Spec

=============================================================================
