--------------------------- MODULE MatchingEngine ---------------------------
(***************************************************************************)
(* The on-chain order book of one market: the instructions PlaceOrder      *)
(* (limitorder.rs) and MarketOrder (marketorder.rs) over the accounts of   *)
(* state.rs, from the state that initialisemarket.rs leaves.               *)
(*                                                                         *)
(* The runtime executes one instruction at a time and rolls every account  *)
(* back when it returns an error.  An instruction is a chain of steps: it  *)
(* locks the funds, goes once round the matching loop per step, then       *)
(* settles.  `saved' holds the accounts as the last committed instruction  *)
(* left them; nothing else happens while pc # "idle".                      *)
(***************************************************************************)
EXTENDS Integers, Sequences, FiniteSets, TLC

CONSTANTS
  Users, Tokens,            \* signers; TokenType
  Scale,                    \* TOKEN_DECIMALS_SCALE
  MinOrderQuantity,         \* MIN_ORDER_QUANTITY
  MaxOrdersPerSide,         \* MAX_ORDERS_PER_SIDE
  MaxU64,                   \* u64::MAX
  SettlementDeadline,
  Collateral, TokenSupply,  \* what each user's wallets hold at the start
  Quantities, Prices, Amounts, Iterations, \* instruction arguments
  AccountLists,             \* users whose UserStats a caller passes along
  OrderIdBound              \* bound of a run: order ids handed out

ASSUME ParametersAssumption ==
  /\ IsFiniteSet(Users) /\ Users # {}
  /\ IsFiniteSet(Tokens) /\ Tokens # {}
  /\ Scale \in Nat \ {0}
  /\ MinOrderQuantity \in Nat
  /\ MaxOrdersPerSide \in Nat
  /\ MaxU64 \in Nat
  /\ SettlementDeadline \in Nat
  /\ Collateral \in Nat
  /\ TokenSupply \in Nat
  /\ Quantities \subseteq Nat
  /\ Prices \subseteq Nat
  /\ Amounts \subseteq Nat
  /\ Iterations \subseteq Nat
  /\ AccountLists \subseteq SUBSET Users
  /\ OrderIdBound \in Nat

VARIABLES
  \* accounts
  is_settled, total_collateral_locked,          \* Market
  next_order_id, book,                          \* OrderBook, four vectors
  locked_collateral, claimable_collateral,      \* UserStats
  locked_token, claimable_token,                \*   (locked_yes, locked_no...)
  wallet_collateral, wallet_token, vault, escrow, \* token accounts
  saved,                                        \* accounts at the last commit
  clock,                                        \* Clock::get().unix_timestamp
  \* the instruction in flight
  pc, taker, max_iteration, remaining_accounts,
  idx, iteration, remaining_amount, fullfilled_qty,
  fills,      \* history: the OrderMatched events of this instruction
  truncated   \* history: ids rested because max_iteration was used up

market == <<is_settled, total_collateral_locked>>
stats == <<locked_collateral, claimable_collateral, locked_token, claimable_token>>
funds == <<wallet_collateral, wallet_token, vault, escrow>>
control == <<max_iteration, remaining_accounts>>
cursor == <<idx, iteration>>
proceeds == <<remaining_amount, fullfilled_qty>>
vars == <<market, next_order_id, book, stats, funds, saved, clock, pc, taker,
          control, cursor, proceeds, fills, truncated>>

Accounts ==
  [total_collateral_locked |-> total_collateral_locked,
   next_order_id |-> next_order_id, book |-> book,
   locked_collateral |-> locked_collateral,
   claimable_collateral |-> claimable_collateral,
   locked_token |-> locked_token, claimable_token |-> claimable_token,
   wallet_collateral |-> wallet_collateral, wallet_token |-> wallet_token,
   vault |-> vault, escrow |-> escrow]

-----------------------------------------------------------------------------
(* Orders and arithmetic *)

Sides == {"Buy", "Sell"}
Other(side) == IF side = "Buy" THEN "Sell" ELSE "Buy"
Books == Tokens \X Sides

Order == [id : Nat, user_key : Users, side : Sides, token_type : Tokens,
          price : Nat, quantity : Nat, filledquantity : Nat]
RestingOrder == {o \in Order : o.price > 0}

Left(o) == o.quantity - o.filledquantity

\* checked_add / checked_mul succeed when the result fits; / truncates.
Fits(n) == n <= MaxU64

\* Wrong on purpose: the division rounds up.
CostRoundedUp(qty, price) == (qty * price + Scale - 1) \div Scale

Cost(qty, price) == (qty * price) \div Scale
Smaller(a, b) == IF a <= b THEN a ELSE b

\* sort_by on price: does price p go in front of price r on this side?
Ahead(side, p, r) == IF side = "Buy" THEN p > r ELSE p < r

Unlink(q, i) == [j \in 1..(Len(q) - 1) |-> IF j < i THEN q[j] ELSE q[j + 1]]

\* Wrong on purpose: the fill is recorded on a copy of the order.
FilledOnACopy(q, i, qty) == q

Filled(q, i, qty) == [q EXCEPT ![i].filledquantity = @ + qty]

\* Wrong on purpose: a new order goes in front of its price level.
SortsInFront(q, o, k) ==
  \A i \in 1..Len(q) : (i <= k) <=> Ahead(o.side, q[i].price, o.price)

\* push, then the stable sort of an already sorted vector: o ends up behind
\* the k orders whose price is at least as good, in front of the others.
SortsBehind(q, o, k) ==
  \A i \in 1..Len(q) : (i <= k) <=> ~Ahead(o.side, o.price, q[i].price)

\* Wrong on purpose: push without the sort.
InsertUnsorted(q, o, k) == Append(q, o)

Insert(q, o, k) ==
  [j \in 1..(Len(q) + 1) |->
     IF j <= k THEN q[j] ELSE IF j = k + 1 THEN o ELSE q[j - 1]]

NoOrder == [id |-> 0, user_key |-> CHOOSE v \in Users : TRUE, side |-> "Buy",
            token_type |-> CHOOSE k \in Tokens : TRUE,
            price |-> 0, quantity |-> 0, filledquantity |-> 0]

\* The instruction at work: its own account and vectors, the order at idx.
signer == taker.user_key
token == taker.token_type
opposite == <<taker.token_type, Other(taker.side)>>
own == <<taker.token_type, taker.side>>
maker == book[opposite][idx]

-----------------------------------------------------------------------------
Init ==
  /\ is_settled = FALSE /\ total_collateral_locked = 0
  /\ next_order_id = 1 /\ book = [b \in Books |-> << >>]
  /\ locked_collateral = [v \in Users |-> 0]
  /\ claimable_collateral = [v \in Users |-> 0]
  /\ locked_token = [h \in Users \X Tokens |-> 0]
  /\ claimable_token = [h \in Users \X Tokens |-> 0]
  /\ wallet_collateral = [v \in Users |-> Collateral]
  /\ wallet_token = [h \in Users \X Tokens |-> TokenSupply]
  /\ vault = 0 /\ escrow = [k \in Tokens |-> 0]
  /\ saved = Accounts
  /\ clock = 0 /\ pc = "idle" /\ taker = NoOrder
  /\ max_iteration = 0 /\ remaining_accounts = {}
  /\ idx = 1 /\ iteration = 0 /\ remaining_amount = 0 /\ fullfilled_qty = 0
  /\ fills = << >> /\ truncated = {}

\* Every instruction ends here, whether it commits or rolls back.
Idle ==
  /\ pc' = "idle" /\ taker' = NoOrder
  /\ max_iteration' = 0 /\ remaining_accounts' = {}
  /\ idx' = 1 /\ iteration' = 0 /\ remaining_amount' = 0 /\ fullfilled_qty' = 0
  /\ fills' = << >>

Commit == Idle /\ saved' = Accounts'

\* An error return: the runtime restores every account.
Rollback ==
  /\ Idle
  /\ total_collateral_locked' = saved.total_collateral_locked
  /\ next_order_id' = saved.next_order_id
  /\ book' = saved.book
  /\ locked_collateral' = saved.locked_collateral
  /\ claimable_collateral' = saved.claimable_collateral
  /\ locked_token' = saved.locked_token
  /\ claimable_token' = saved.claimable_token
  /\ wallet_collateral' = saved.wallet_collateral
  /\ wallet_token' = saved.wallet_token
  /\ vault' = saved.vault
  /\ escrow' = saved.escrow
  /\ UNCHANGED <<is_settled, saved, clock, truncated>>

-----------------------------------------------------------------------------
(* The head of both handlers: checks, then the funds are locked *)

Open == pc = "idle" /\ clock < SettlementDeadline /\ ~is_settled

\* Wrong on purpose: the vault's counter is forgotten.
LockCollateralUntracked(v, amount) ==
  /\ wallet_collateral[v] >= amount
  /\ wallet_collateral' = [wallet_collateral EXCEPT ![v] = @ - amount]
  /\ vault' = vault + amount
  /\ locked_collateral' = [locked_collateral EXCEPT ![v] = @ + amount]
  /\ UNCHANGED <<total_collateral_locked, wallet_token, escrow, locked_token>>

LockCollateral(v, amount) ==
  /\ wallet_collateral[v] >= amount
  /\ Fits(locked_collateral[v] + amount)
  /\ Fits(total_collateral_locked + amount)
  /\ wallet_collateral' = [wallet_collateral EXCEPT ![v] = @ - amount]
  /\ vault' = vault + amount
  /\ locked_collateral' = [locked_collateral EXCEPT ![v] = @ + amount]
  /\ total_collateral_locked' = total_collateral_locked + amount
  /\ UNCHANGED <<wallet_token, escrow, locked_token>>

\* Wrong on purpose: the tokens never reach the escrow.
LockTokensUnescrowed(v, k, amount) ==
  /\ wallet_token[<<v, k>>] >= amount
  /\ wallet_token' = [wallet_token EXCEPT ![<<v, k>>] = @ - amount]
  /\ locked_token' = [locked_token EXCEPT ![<<v, k>>] = @ + amount]
  /\ UNCHANGED <<escrow, wallet_collateral, vault, locked_collateral,
                 total_collateral_locked>>

LockTokens(v, k, amount) ==
  /\ wallet_token[<<v, k>>] >= amount
  /\ Fits(locked_token[<<v, k>>] + amount)
  /\ wallet_token' = [wallet_token EXCEPT ![<<v, k>>] = @ - amount]
  /\ escrow' = [escrow EXCEPT ![k] = @ + amount]
  /\ locked_token' = [locked_token EXCEPT ![<<v, k>>] = @ + amount]
  /\ UNCHANGED <<wallet_collateral, vault, locked_collateral, total_collateral_locked>>

Lock(v, side, k, tokens, collateral) ==
  \/ side = "Buy" /\ LockCollateral(v, collateral)
  \/ side = "Sell" /\ LockTokens(v, k, tokens)

PlaceOrder(v, side, k, quantity, price, iterations, accounts) ==
  /\ Open
  /\ iterations > 0
  /\ quantity > 0 /\ price > 0 /\ quantity >= MinOrderQuantity
  /\ Fits(quantity * price) /\ Cost(quantity, price) > 0
  /\ next_order_id < OrderIdBound /\ Fits(next_order_id + 1)
  /\ Lock(v, side, k, quantity, Cost(quantity, price))
  /\ taker' = [id |-> next_order_id, user_key |-> v, side |-> side,
               token_type |-> k, price |-> price, quantity |-> quantity,
               filledquantity |-> 0]
  /\ next_order_id' = next_order_id + 1
  /\ pc' = "limit" /\ idx' = 1 /\ iteration' = 0
  /\ max_iteration' = iterations /\ remaining_accounts' = accounts
  /\ UNCHANGED <<is_settled, book, claimable_collateral, claimable_token, saved,
                 clock, proceeds, fills, truncated>>

MarketOrder(v, side, k, amount, iterations, accounts) ==
  /\ Open
  /\ iterations > 0
  /\ amount > 0 /\ (side = "Sell" => amount >= MinOrderQuantity)
  /\ Lock(v, side, k, amount, amount)
  /\ taker' = [id |-> 0, user_key |-> v, side |-> side, token_type |-> k,
               price |-> 0, quantity |-> amount, filledquantity |-> 0]
  /\ pc' = "market" /\ idx' = 1 /\ iteration' = 0
  /\ remaining_amount' = amount /\ fullfilled_qty' = 0
  /\ max_iteration' = iterations /\ remaining_accounts' = accounts
  /\ UNCHANGED <<is_settled, next_order_id, book, claimable_collateral,
                 claimable_token, saved, clock, fills, truncated>>

-----------------------------------------------------------------------------
(* What both loops do to the book and to the maker *)

\* while idx < matching_orders.len() && iteration < max_iteration
InLoop == idx <= Len(book[opposite]) /\ iteration < max_iteration

\* Wrong on purpose: idx += 1 is missing before the continue.
PassOverStuck(remove) ==
  /\ book' = IF remove THEN [book EXCEPT ![opposite] = Unlink(@, idx)] ELSE book
  /\ UNCHANGED <<market, next_order_id, stats, funds, saved, clock, pc, taker,
                 control, idx, iteration, proceeds, fills, truncated>>

\* Walk past the order at idx, or remove it and stay.
PassOver(remove) ==
  /\ book' = IF remove THEN [book EXCEPT ![opposite] = Unlink(@, idx)] ELSE book
  /\ idx' = IF remove THEN idx ELSE idx + 1
  /\ UNCHANGED <<market, next_order_id, stats, funds, saved, clock, pc, taker,
                 control, iteration, proceeds, fills, truncated>>

\* Wrong on purpose: a filled order stays on the book (> for >=).
FillMakerKeepsFilled(qty) ==
  /\ book' = [book EXCEPT ![opposite] = Filled(@, idx, qty)]
  /\ idx' = idx + 1
  /\ iteration' = iteration + 1
  /\ fills' = Append(fills, [maker |-> maker.id, owner |-> maker.user_key,
                             price |-> maker.price, quantity |-> qty])

\* Wrong on purpose: the fill is lost and the loop looks at the same order again.
FillMakerAgain(qty) ==
  /\ iteration' = iteration + 1
  /\ fills' = Append(fills, [maker |-> maker.id, owner |-> maker.user_key,
                             price |-> maker.price, quantity |-> qty])
  /\ UNCHANGED <<book, idx>>

\* filledquantity += qty; a filled order leaves, and idx then points at the next.
FillMaker(qty) ==
  /\ book' = IF maker.filledquantity + qty >= maker.quantity
             THEN [book EXCEPT ![opposite] = Unlink(@, idx)]
             ELSE [book EXCEPT ![opposite] = Filled(@, idx, qty)]
  /\ idx' = IF maker.filledquantity + qty >= maker.quantity THEN idx ELSE idx + 1
  /\ iteration' = iteration + 1
  /\ fills' = Append(fills, [maker |-> maker.id, owner |-> maker.user_key,
                             price |-> maker.price, quantity |-> qty])

\* The maker's UserStats was passed along and its checked_add's succeed.
MakerAccepts(qty, collateral) ==
  LET m == maker.user_key IN
  /\ m \in remaining_accounts
  /\ IF taker.side = "Buy" THEN Fits(claimable_collateral[m] + collateral)
                           ELSE Fits(claimable_token[<<m, token>>] + qty)

\* Its checked_sub succeeds.
MakerAffords(qty, collateral) ==
  LET m == maker.user_key
  IN IF taker.side = "Buy" THEN locked_token[<<m, token>>] >= qty
                           ELSE locked_collateral[m] >= collateral

-----------------------------------------------------------------------------
(* PlaceOrder: the matching loop *)

\* Wrong on purpose: an order does not trade at exactly its price.
PriceMatchesStrictly == IF taker.side = "Buy" THEN taker.price > maker.price
                                              ELSE taker.price < maker.price

\* Wrong on purpose: the buyer's comparison is used for sellers too.
PriceMatchesAsBuyer == taker.price >= maker.price

PriceMatches == IF taker.side = "Buy" THEN taker.price >= maker.price
                                      ELSE taker.price <= maker.price

LimitLooksAt == pc = "limit" /\ InLoop
Eligible == PriceMatches /\ maker.user_key # signer
LimitQty == Smaller(Left(taker), Left(maker))

\* Wrong on purpose: a fill may round to no collateral.
LimitTradesForFree ==
  /\ LimitLooksAt /\ Eligible
  /\ Left(taker) > 0 /\ Left(maker) > 0

LimitTrades ==
  /\ LimitLooksAt /\ Eligible
  /\ Left(taker) > 0 /\ Left(maker) > 0
  /\ Cost(LimitQty, maker.price) > 0

LimitPasses ==
  /\ LimitLooksAt
  /\ Eligible => Left(taker) > 0 /\ ~LimitTrades
  /\ PassOver(Eligible /\ Left(maker) = 0)

\* Wrong on purpose: the whole remaining lock is released by one fill.
LockedForAllThatIsLeft == Cost(Left(taker), taker.price)

\* The buyer gives up what it locked at its own price, pays the maker's price
\* and keeps the difference as claimable collateral.
LockedAtOurPrice == Cost(LimitQty, taker.price)
LimitPaid == Cost(LimitQty, maker.price)

LimitAccepts ==
  /\ MakerAccepts(LimitQty, LimitPaid)
  /\ IF taker.side = "Buy"
     THEN /\ Fits(LimitQty * taker.price)
          /\ Fits(claimable_token[<<signer, token>>] + LimitQty)
          /\ Fits(claimable_collateral[signer] + (LockedAtOurPrice - LimitPaid))
     ELSE Fits(claimable_collateral[signer] + LimitPaid)

LimitAffords ==
  /\ MakerAffords(LimitQty, LimitPaid)
  /\ IF taker.side = "Buy"
     THEN /\ LockedAtOurPrice >= LimitPaid
          /\ locked_collateral[signer] >= LockedAtOurPrice
     ELSE locked_token[<<signer, token>>] >= LimitQty

LimitFill ==
  /\ taker' = [taker EXCEPT !.filledquantity = @ + LimitQty]
  /\ FillMaker(LimitQty)
  /\ UNCHANGED <<market, next_order_id, funds, saved, clock, pc, control,
                 proceeds, truncated>>

\* Wrong on purpose: the price improvement is not refunded.
LimitFillBuyUnrefunded ==
  LET seller == maker.user_key
  IN /\ LimitTrades /\ taker.side = "Buy" /\ LimitAccepts /\ LimitAffords
     /\ locked_collateral' = [locked_collateral EXCEPT ![signer] = @ - LockedAtOurPrice]
     /\ claimable_collateral' = [claimable_collateral EXCEPT ![seller] = @ + LimitPaid]
     /\ claimable_token' = [claimable_token EXCEPT ![<<signer, token>>] = @ + LimitQty]
     /\ locked_token' = [locked_token EXCEPT ![<<seller, token>>] = @ - LimitQty]
     /\ LimitFill

LimitFillBuy ==
  LET seller == maker.user_key
  IN /\ LimitTrades /\ taker.side = "Buy" /\ LimitAccepts /\ LimitAffords
     /\ locked_collateral' = [locked_collateral EXCEPT ![signer] = @ - LockedAtOurPrice]
     /\ claimable_collateral' = [claimable_collateral EXCEPT
          ![signer] = @ + (LockedAtOurPrice - LimitPaid), ![seller] = @ + LimitPaid]
     /\ claimable_token' = [claimable_token EXCEPT ![<<signer, token>>] = @ + LimitQty]
     /\ locked_token' = [locked_token EXCEPT ![<<seller, token>>] = @ - LimitQty]
     /\ LimitFill

LimitFillSell ==
  LET buyer == maker.user_key
  IN /\ LimitTrades /\ taker.side = "Sell" /\ LimitAccepts /\ LimitAffords
     /\ claimable_collateral' = [claimable_collateral EXCEPT ![signer] = @ + LimitPaid]
     /\ locked_token' = [locked_token EXCEPT ![<<signer, token>>] = @ - LimitQty]
     /\ claimable_token' = [claimable_token EXCEPT ![<<buyer, token>>] = @ + LimitQty]
     /\ locked_collateral' = [locked_collateral EXCEPT ![buyer] = @ - LimitPaid]
     /\ LimitFill

LimitLoopEnds ==
  /\ pc = "limit"
  /\ InLoop => Eligible /\ Left(taker) = 0
  /\ pc' = "rest"
  /\ UNCHANGED <<market, next_order_id, book, stats, funds, saved, clock, taker,
                 control, cursor, proceeds, fills, truncated>>

-----------------------------------------------------------------------------
(* PlaceOrder: what is left over rests, or is released when the side is full *)

SideFull == Len(book[own]) >= MaxOrdersPerSide

\* The loop stopped on its iteration limit with orders still to look at.
CutShort == iteration >= max_iteration /\ idx <= Len(book[opposite])

LimitFilled ==
  /\ pc = "rest" /\ Left(taker) = 0
  /\ UNCHANGED <<market, next_order_id, book, stats, funds, clock, truncated>>
  /\ Commit

LimitRests ==
  /\ pc = "rest" /\ Left(taker) > 0 /\ ~SideFull
  /\ \E k \in 0..Len(book[own]) :
       /\ SortsBehind(book[own], taker, k)
       /\ book' = [book EXCEPT ![own] = Insert(@, taker, k)]
  /\ truncated' = IF CutShort THEN truncated \cup {taker.id} ELSE truncated
  /\ UNCHANGED <<market, next_order_id, stats, funds, clock>>
  /\ Commit

Releases == pc = "rest" /\ Left(taker) > 0 /\ SideFull
UnfilledCollateral == Cost(Left(taker), taker.price)

ReleaseAccepts ==
  IF taker.side = "Buy"
  THEN Fits(claimable_collateral[signer] + UnfilledCollateral)
  ELSE Fits(claimable_token[<<signer, token>>] + Left(taker))

ReleaseAffords ==
  IF taker.side = "Buy" THEN locked_collateral[signer] >= UnfilledCollateral
                        ELSE locked_token[<<signer, token>>] >= Left(taker)

LimitReleasesBuy ==
  /\ Releases /\ taker.side = "Buy" /\ ReleaseAccepts /\ ReleaseAffords
  /\ locked_collateral' = [locked_collateral EXCEPT ![signer] = @ - UnfilledCollateral]
  /\ claimable_collateral' = [claimable_collateral EXCEPT ![signer] = @ + UnfilledCollateral]
  /\ UNCHANGED <<market, next_order_id, book, locked_token, claimable_token,
                 funds, clock, truncated>>
  /\ Commit

LimitReleasesSell ==
  /\ Releases /\ taker.side = "Sell" /\ ReleaseAccepts /\ ReleaseAffords
  /\ locked_token' = [locked_token EXCEPT ![<<signer, token>>] = @ - Left(taker)]
  /\ claimable_token' = [claimable_token EXCEPT ![<<signer, token>>] = @ + Left(taker)]
  /\ UNCHANGED <<market, next_order_id, book, locked_collateral,
                 claimable_collateral, funds, clock, truncated>>
  /\ Commit

-----------------------------------------------------------------------------
(* MarketOrder: the matching loop *)

MarketLooksAt == pc = "market" /\ InLoop /\ remaining_amount > 0
Buyable == (remaining_amount * Scale) \div maker.price

\* Wrong on purpose: a sale is not capped by what is left to sell.
MarketQtyUncapped == IF taker.side = "Buy" THEN Smaller(Buyable, Left(maker))
                                           ELSE Left(maker)

MarketQty == IF taker.side = "Buy" THEN Smaller(Buyable, Left(maker))
                                   ELSE Smaller(remaining_amount, Left(maker))
MarketTrades ==
  /\ MarketLooksAt /\ Left(maker) > 0 /\ maker.user_key # signer
  /\ taker.side = "Buy" => Fits(remaining_amount * Scale)
  /\ MarketQty > 0 /\ Cost(MarketQty, maker.price) > 0

MarketOverflows ==
  /\ MarketLooksAt /\ Left(maker) > 0 /\ maker.user_key # signer
  /\ taker.side = "Buy" /\ ~Fits(remaining_amount * Scale)

MarketPasses ==
  /\ MarketLooksAt /\ ~MarketTrades /\ ~MarketOverflows
  /\ PassOver(Left(maker) = 0)

MarketPaid == Cost(MarketQty, maker.price)

MarketAffords ==
  /\ MakerAffords(MarketQty, MarketPaid)
  /\ taker.side = "Buy" => remaining_amount >= MarketPaid

MarketFill ==
  /\ MarketTrades /\ MakerAccepts(MarketQty, MarketPaid) /\ MarketAffords
  /\ FillMaker(MarketQty)
  /\ UNCHANGED <<market, next_order_id, funds, saved, clock, pc, taker, control,
                 truncated>>

\* The maker, a seller, is credited; the taker is paid after the loop.
MarketFillBuy ==
  LET seller == maker.user_key
  IN /\ taker.side = "Buy" /\ MarketFill
     /\ remaining_amount' = remaining_amount - MarketPaid
     /\ fullfilled_qty' = fullfilled_qty + MarketQty
     /\ claimable_collateral' = [claimable_collateral EXCEPT ![seller] = @ + MarketPaid]
     /\ locked_token' = [locked_token EXCEPT ![<<seller, token>>] = @ - MarketQty]
     /\ UNCHANGED <<locked_collateral, claimable_token>>

MarketFillSell ==
  LET buyer == maker.user_key
  IN /\ taker.side = "Sell" /\ MarketFill
     /\ remaining_amount' = remaining_amount - MarketQty
     /\ fullfilled_qty' = fullfilled_qty + MarketPaid
     /\ claimable_token' = [claimable_token EXCEPT ![<<buyer, token>>] = @ + MarketQty]
     /\ locked_collateral' = [locked_collateral EXCEPT ![buyer] = @ - MarketPaid]
     /\ UNCHANGED <<claimable_collateral, locked_token>>

MarketLoopEnds ==
  /\ pc = "market" /\ ~MarketLooksAt
  /\ pc' = "settle"
  /\ UNCHANGED <<market, next_order_id, book, stats, funds, saved, clock, taker,
                 control, cursor, proceeds, fills, truncated>>

-----------------------------------------------------------------------------
(* MarketOrder: proceeds and remainder go straight to the taker's wallets *)

SettleAffords ==
  IF taker.side = "Buy"
  THEN /\ escrow[token] >= fullfilled_qty /\ vault >= remaining_amount
       /\ locked_collateral[signer] >= taker.quantity
       /\ total_collateral_locked >= remaining_amount
  ELSE /\ vault >= fullfilled_qty /\ total_collateral_locked >= fullfilled_qty
       /\ locked_token[<<signer, token>>] >= taker.quantity
       /\ escrow[token] >= remaining_amount

\* Wrong on purpose: the bought tokens stay in the escrow.
MarketSettlesBuyUndelivered ==
  /\ pc = "settle" /\ taker.side = "Buy" /\ SettleAffords
  /\ vault' = vault - remaining_amount
  /\ wallet_collateral' = [wallet_collateral EXCEPT ![signer] = @ + remaining_amount]
  /\ locked_collateral' = [locked_collateral EXCEPT ![signer] = @ - taker.quantity]
  /\ total_collateral_locked' = total_collateral_locked - remaining_amount
  /\ UNCHANGED <<is_settled, next_order_id, book, claimable_collateral, escrow,
                 wallet_token, locked_token, claimable_token, clock, truncated>>
  /\ Commit

MarketSettlesBuy ==
  /\ pc = "settle" /\ taker.side = "Buy" /\ SettleAffords
  /\ escrow' = [escrow EXCEPT ![token] = @ - fullfilled_qty]
  /\ wallet_token' = [wallet_token EXCEPT ![<<signer, token>>] = @ + fullfilled_qty]
  /\ vault' = vault - remaining_amount
  /\ wallet_collateral' = [wallet_collateral EXCEPT ![signer] = @ + remaining_amount]
  /\ locked_collateral' = [locked_collateral EXCEPT ![signer] = @ - taker.quantity]
  /\ total_collateral_locked' = total_collateral_locked - remaining_amount
  /\ UNCHANGED <<is_settled, next_order_id, book, claimable_collateral,
                 locked_token, claimable_token, clock, truncated>>
  /\ Commit

MarketSettlesSell ==
  /\ pc = "settle" /\ taker.side = "Sell" /\ SettleAffords
  /\ vault' = vault - fullfilled_qty
  /\ wallet_collateral' = [wallet_collateral EXCEPT ![signer] = @ + fullfilled_qty]
  /\ total_collateral_locked' = total_collateral_locked - fullfilled_qty
  /\ locked_token' = [locked_token EXCEPT ![<<signer, token>>] = @ - taker.quantity]
  /\ escrow' = [escrow EXCEPT ![token] = @ - remaining_amount]
  /\ wallet_token' = [wallet_token EXCEPT ![<<signer, token>>] = @ + remaining_amount]
  /\ UNCHANGED <<is_settled, next_order_id, book, locked_collateral,
                 claimable_collateral, claimable_token, clock, truncated>>
  /\ Commit

-----------------------------------------------------------------------------
(* A failing check anywhere: the handler returns an error *)

Errs ==
  \/ LimitTrades /\ ~(LimitAccepts /\ LimitAffords)
  \/ Releases /\ ~(ReleaseAccepts /\ ReleaseAffords)
  \/ MarketOverflows
  \/ MarketTrades /\ ~(MakerAccepts(MarketQty, MarketPaid) /\ MarketAffords)
  \/ pc = "settle" /\ ~SettleAffords

Fails == Errs /\ Rollback

-----------------------------------------------------------------------------
(* Around the two instructions: time, and set_winning_side of the program *)

Tick ==
  /\ pc = "idle" /\ clock < SettlementDeadline
  /\ clock' = clock + 1
  /\ UNCHANGED <<market, next_order_id, book, stats, funds, saved, pc, taker,
                 control, cursor, proceeds, fills, truncated>>

SetWinningSide ==
  /\ pc = "idle" /\ ~is_settled
  /\ is_settled' = TRUE
  /\ UNCHANGED <<total_collateral_locked, next_order_id, book, stats, funds, saved,
                 clock, pc, taker, control, cursor, proceeds, fills, truncated>>

Begin ==
  \E v \in Users, side \in Sides, k \in Tokens, n \in Iterations, accounts \in AccountLists :
    \/ \E quantity \in Quantities, price \in Prices :
         PlaceOrder(v, side, k, quantity, price, n, accounts)
    \/ \E amount \in Amounts : MarketOrder(v, side, k, amount, n, accounts)

Step ==
  \/ LimitPasses \/ LimitFillBuy \/ LimitFillSell \/ Fails
  \/ LimitLoopEnds \/ LimitFilled \/ LimitRests \/ LimitReleasesBuy
  \/ LimitReleasesSell
  \/ MarketPasses \/ MarketFillBuy \/ MarketFillSell
  \/ MarketLoopEnds \/ MarketSettlesBuy \/ MarketSettlesSell

Next == Begin \/ Step \/ Tick \/ SetWinningSide

\* The runtime runs a submitted instruction to its end.
Spec == Init /\ [][Next]_vars /\ WF_vars(Step)

=============================================================================
