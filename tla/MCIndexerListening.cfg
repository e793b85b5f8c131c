\* One source, which may deliver a transaction twice.
SPECIFICATION Spec
CONSTANTS
  t1 = t1  t2 = t2
  Tasks = {}
  WebhookOnly = FALSE
  Faults = {"redeliver"}
  FaultBound = 1
  Markets = {1}
  Quantities = {1, 2}
  Instructions = {"initialise", "place", "market", "cancel", "settle", "close", "metadata", "split", "fail"}
  InstructionsPerTx = 1
  TxBound = 4
INVARIANTS TableFollowsChain DiffsFollowTable MarketsFollowChain
PROPERTIES EverythingStored
CHECK_DEADLOCK FALSE
