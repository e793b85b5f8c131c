\* One order fills a side of the book.
SPECIFICATION IndexedSpec
CONSTANTS
  u1 = u1  u2 = u2  u3 = u3  yes = yes  no = no
  Users = {u1, u2}
  Tokens = {yes}
  Scale = 2
  MinOrderQuantity = 1
  MaxOrdersPerSide = 1
  MaxU64 = 12
  SettlementDeadline = 1
  Collateral = 5
  TokenSupply = 3
  Quantities = {1, 3}
  Prices = {2, 3}
  Amounts = {2}
  Iterations = {1, 2}
  AccountLists <- JustAll
  OrderIdBound = 4
INVARIANTS ListedOrdersRest
CHECK_DEADLOCK FALSE
