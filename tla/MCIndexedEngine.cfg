\* One market, two users, one outcome token.  Scale 2 makes every product odd
\* or even: fills of one unit at price 1 truncate to nothing, price 3 leaves a
\* remainder.  MaxU64 is small enough for `remaining * Scale' to overflow.
SPECIFICATION IndexedSpec
CONSTANTS
  u1 = u1  u2 = u2  u3 = u3  yes = yes  no = no
  Users = {u1, u2}
  Tokens = {yes}
  Scale = 2
  MinOrderQuantity = 1
  MaxOrdersPerSide = 2
  MaxU64 = 9
  SettlementDeadline = 1
  Collateral = 5
  TokenSupply = 3
  Quantities = {1, 2}
  Prices = {1, 3}
  Amounts = {2, 5}
  Iterations = {1, 2}
  AccountLists <- AllOrNone
  OrderIdBound = 4
INVARIANTS TypeOK VaultTracked VaultBacksUsers EscrowBacksUsers BidsBacked
  AsksBacked AccountingNeverFails BookPriority RestingOrdersLive
  CrossedForAReason MakerFilledOnce RestingOrdersListed OnlyReleasedLinger
PROPERTIES BestFirst FairExchange LimitPriceHonoured RowsOnlyShrink
CHECK_DEADLOCK FALSE
