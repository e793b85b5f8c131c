\* Two unit fills of a bid of two at price 3 cost 1 + 1, and it locked 3.
SPECIFICATION Spec
CONSTANTS
  u1 = u1  u2 = u2  u3 = u3  yes = yes  no = no
  Users = {u1, u2}
  Tokens = {yes}
  Scale = 2
  MinOrderQuantity = 1
  MaxOrdersPerSide = 2
  MaxU64 = 9
  SettlementDeadline = 1
  Collateral = 5
  TokenSupply = 3
  Quantities = {1, 2}
  Prices = {1, 3}
  Amounts = {2, 5}
  Iterations = {1, 2}
  AccountLists <- AllOrNone
  OrderIdBound = 4
INVARIANTS NoStrandedCollateral
CHECK_DEADLOCK FALSE
