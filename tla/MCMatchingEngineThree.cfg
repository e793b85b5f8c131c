\* Three users and both outcome tokens: two makers for one taker, a third order for
\* a side of two, fills of one token beside orders of the other.
SPECIFICATION Spec
CONSTANTS
  u1 = u1  u2 = u2  u3 = u3  yes = yes  no = no
  Users = {u1, u2, u3}
  Tokens = {yes, no}
  Scale = 2
  MinOrderQuantity = 1
  MaxOrdersPerSide = 2
  MaxU64 = 12
  SettlementDeadline = 1
  Collateral = 3
  TokenSupply = 2
  Quantities = {2}
  Prices = {3}
  Amounts = {3}
  Iterations = {2}
  AccountLists <- AllOrNone
  OrderIdBound = 4
PROPERTIES FairExchange Terminates
CHECK_DEADLOCK FALSE
