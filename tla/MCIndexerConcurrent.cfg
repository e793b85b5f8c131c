\* Two webhook tasks and the backfill after a restart, and one fault of any kind.
SPECIFICATION Spec
CONSTANTS
  t1 = t1  t2 = t2
  Tasks = {t1, t2}
  WebhookOnly = TRUE
  Faults = {"crash", "redis", "db", "rpc", "redeliver", "gap"}
  FaultBound = 1
  Markets = {1}
  Quantities = {1, 2}
  Instructions = {"initialise", "place", "market", "cancel", "fail"}
  InstructionsPerTx = 1
  TxBound = 3
SYMMETRY TaskSymmetry
INVARIANTS TypeOK NeverOverfilled TradesHappened CursorStored
CHECK_DEADLOCK FALSE
