\* Two sockets, one failure; a channel retains one diff.
SPECIFICATION Spec
CONSTANTS
  Sockets = 2
  MaxCommits = 4
  Menu <- AskBidAsk
  Cap = 1
  MaxStream = 2
  MaxFaults = 1
INVARIANTS FeedTypeOK MemoryConverges ClientConverges DiffExact
PROPERTIES OrdersOnlyShrink FeedSettles
CHECK_DEADLOCK FALSE
