---------------------- MODULE MatchingEngineProperties ----------------------
(***************************************************************************)
(* What the on-chain order book promises: its accounts stay solvent to the *)
(* unit in spite of the truncating divisions, the book keeps price-time    *)
(* priority, and every trade is one its parties agreed to.                 *)
(***************************************************************************)
EXTENDS MatchingEngine, Functions

Phases == {"idle", "limit", "rest", "market", "settle"}

AccountsType ==
  [total_collateral_locked : Nat, next_order_id : Nat,
   book : [Books -> Seq(RestingOrder)],
   locked_collateral : [Users -> Nat], claimable_collateral : [Users -> Nat],
   locked_token : [Users \X Tokens -> Nat],
   claimable_token : [Users \X Tokens -> Nat],
   wallet_collateral : [Users -> Nat], wallet_token : [Users \X Tokens -> Nat],
   vault : Nat, escrow : [Tokens -> Nat]]

Fill == [maker : Nat, owner : Users, price : Nat, quantity : Nat]

\* Every u64 of the accounts stays a natural number: no checked_sub of either
\* handler ever writes a wrapped balance.
TypeOK ==
  /\ is_settled \in BOOLEAN /\ clock \in Nat
  /\ Accounts \in AccountsType /\ saved \in AccountsType
  /\ pc \in Phases /\ taker \in Order
  /\ pc \in {"limit", "rest"} => taker.price > 0
  /\ max_iteration \in Nat /\ remaining_accounts \in SUBSET Users
  /\ idx \in Nat \ {0} /\ iteration \in Nat
  /\ remaining_amount \in Nat /\ fullfilled_qty \in Nat
  /\ fills \in Seq(Fill) /\ truncated \in SUBSET Nat

-----------------------------------------------------------------------------
(* Solvency *)

Resting(b) == {book[b][i] : i \in 1..Len(book[b])}
LimitInFlight == pc \in {"limit", "rest"}
MarketInFlight == pc \in {"market", "settle"}
Taking(v, side) == taker.user_key = v /\ taker.side = side

\* total_collateral_locked ("Track vault-level collateral for close_market
\* safety check") is the vault's balance after every step of both handlers,
\* although only some of the paths that move collateral touch it.
VaultTracked == vault = total_collateral_locked

\* The vault holds exactly what the users own in it, locked or claimable,
\* except for what a market order in flight has yet to settle.
VaultBacksUsers ==
  LET owed == SumFunction([v \in Users |-> locked_collateral[v] + claimable_collateral[v]])
      spent == IF MarketInFlight /\ taker.side = "Buy"
               THEN taker.quantity - remaining_amount ELSE 0
      earned == IF MarketInFlight /\ taker.side = "Sell" THEN fullfilled_qty ELSE 0
  IN vault + spent = owed + earned

\* The same for the escrow of each outcome token.
EscrowBacksUsers ==
  \A k \in Tokens :
    LET owed == SumFunction([v \in Users |->
                  locked_token[<<v, k>>] + claimable_token[<<v, k>>]])
        mine == MarketInFlight /\ token = k
        sold == IF mine /\ taker.side = "Sell"
                THEN taker.quantity - remaining_amount ELSE 0
        bought == IF mine /\ taker.side = "Buy" THEN fullfilled_qty ELSE 0
    IN escrow[k] + sold = owed + bought

\* A user's locked collateral covers what each of its bids can still cost: the
\* sum of the truncated costs of the fills never eats into another order.
BidsBacked ==
  \A v \in Users :
    LET bids == {o \in UNION {Resting(<<k, "Buy">>) : k \in Tokens} : o.user_key = v}
        resting == SumFunction([o \in bids |-> Cost(Left(o), o.price)])
        taking == IF LimitInFlight /\ Taking(v, "Buy")
                  THEN Cost(Left(taker), taker.price)
                  ELSE IF MarketInFlight /\ Taking(v, "Buy")
                  THEN taker.quantity ELSE 0
    IN locked_collateral[v] >= resting + taking

\* "collateral_amount = min_qty * book_price is exactly what they locked": once
\* a user has neither a bid on the book nor an order in flight, all that its
\* bids had locked was spent or released.
NoStrandedCollateral ==
  pc = "idle" =>
    \A v \in Users :
      (\A k \in Tokens : \A o \in Resting(<<k, "Buy">>) : o.user_key # v)
        => locked_collateral[v] = 0

\* A user's locked tokens are exactly what its asks still offer.
AsksBacked ==
  \A v \in Users, k \in Tokens :
    LET asks == {o \in Resting(<<k, "Sell">>) : o.user_key = v}
        taking == IF LimitInFlight /\ Taking(v, "Sell") /\ token = k
                  THEN Left(taker)
                  ELSE IF MarketInFlight /\ Taking(v, "Sell") /\ token = k
                  THEN taker.quantity ELSE 0
    IN locked_token[<<v, k>>] = SumFunction([o \in asks |-> Left(o)]) + taking

\* No instruction is ever refused by its own bookkeeping: whenever a fill, a
\* release or a settlement is due, every checked_sub it makes can be paid.
AccountingNeverFails ==
  /\ LimitTrades => LimitAffords
  /\ Releases => ReleaseAffords
  /\ MarketTrades => MarketAffords
  /\ pc = "settle" => SettleAffords

-----------------------------------------------------------------------------
(* The book *)

Prioritised(bk) ==
  \A b \in Books : \A i, j \in 1..Len(bk[b]) :
    i < j => \/ Ahead(b[2], bk[b][i].price, bk[b][j].price)
             \/ /\ bk[b][i].price = bk[b][j].price
                /\ bk[b][i].id < bk[b][j].id

Live(bk, n) ==
  \A b \in Books : \A i \in 1..Len(bk[b]) :
    /\ bk[b][i].token_type = b[1] /\ bk[b][i].side = b[2]
    /\ bk[b][i].id < n
    /\ bk[b][i].filledquantity < bk[b][i].quantity

Distinct(bk) ==
  \A b, c \in Books : \A i \in 1..Len(bk[b]), j \in 1..Len(bk[c]) :
    bk[b][i].id = bk[c][j].id => b = c /\ i = j

\* Each vector is in price-time priority: better price first, and at one price
\* the older order first, which the handlers get from push and a stable sort.
BookPriority == Prioritised(book)

\* Every resting order is on the vector of its side and token, was given an id
\* that no other resting order has, and still has something to trade: neither
\* loop ever meets the empty order it is prepared to remove.
RestingOrdersLive == Live(book, next_order_id) /\ Distinct(book)

\* A bid and an ask may only stay crossed when they belong to one user, when
\* the later of the two stopped on max_iteration, or when the trade between
\* them would be worth less than one unit of collateral.
CrossedForAReason ==
  \A k \in Tokens : \A b \in Resting(<<k, "Buy">>), a \in Resting(<<k, "Sell">>) :
    b.price >= a.price =>
      LET first == IF b.id < a.id THEN b ELSE a
          last == IF b.id < a.id THEN a ELSE b
      IN \/ a.user_key = b.user_key
         \/ last.id \in truncated
         \/ Cost(Smaller(Left(a), Left(b)), first.price) = 0

-----------------------------------------------------------------------------
(* Trades *)

\* An instruction fills a maker at most once: the indexer stores its fills
\* under UNIQUE (signature, maker_order_id) and would drop a second one.
MakerFilledOnce ==
  \A i, j \in 1..Len(fills) : fills[i].maker = fills[j].maker => i = j

\* A fill goes to the best order there is: one that comes before it in
\* price-time priority is the taker's own, has been filled already, or would
\* yield no collateral.
BestFirst ==
  [][Len(fills') = Len(fills) + 1 =>
       \A o \in Resting(opposite) :
         \/ o.id = maker.id \/ o.user_key = signer
         \/ ~(\/ Ahead(o.side, o.price, maker.price)
              \/ o.price = maker.price /\ o.id < maker.id)
         \/ \E i \in 1..Len(fills) : fills[i].maker = o.id
         \/ Cost(Smaller(Left(o), IF pc = "limit" THEN Left(taker)
                                  ELSE IF taker.side = "Sell" THEN remaining_amount
                                  ELSE (remaining_amount * Scale) \div o.price),
                 o.price) = 0]_vars

CollateralIn(acc, v) ==
  acc.wallet_collateral[v] + acc.locked_collateral[v] + acc.claimable_collateral[v]
TokensIn(acc, v) ==
  SumFunction([k \in Tokens |-> acc.wallet_token[<<v, k>>]
                 + acc.locked_token[<<v, k>>] + acc.claimable_token[<<v, k>>]])

\* Over a whole instruction nobody gets tokens for nothing or collateral for
\* nothing ("prevents free-token exploit"), and none of either appears or is lost.
FairExchange ==
  [][saved' # saved =>
       LET gain(v) == CollateralIn(saved', v) - CollateralIn(saved, v)
           bought(v) == TokensIn(saved', v) - TokensIn(saved, v)
       IN /\ \A v \in Users : gain(v) < 0 <=> bought(v) > 0
          /\ \A v \in Users : gain(v) > 0 <=> bought(v) < 0
          /\ SumFunction([v \in Users |-> gain(v)]) = 0
          /\ SumFunction([v \in Users |-> bought(v)]) = 0]_vars

\* A limit order's owner pays at most its price per token it got, and is paid
\* its price per token it sold, up to the unit each fill may truncate.
LimitPriceHonoured ==
  [][pc = "rest" /\ saved' # saved =>
       LET gain == CollateralIn(saved', signer) - CollateralIn(saved, signer)
           bought == TokensIn(saved', signer) - TokensIn(saved, signer)
       IN IF taker.side = "Buy"
          THEN -gain * Scale <= bought * taker.price
          ELSE gain * Scale > -bought * taker.price - Scale * (Len(fills) + 1)]_vars

\* Both matching loops end: an instruction that was submitted commits or fails.
Terminates == pc # "idle" ~> pc = "idle"

=============================================================================
