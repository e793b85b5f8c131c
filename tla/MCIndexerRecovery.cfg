\* One source that crashes, loses its stream and its Redis.
SPECIFICATION Spec
CONSTANTS
  t1 = t1  t2 = t2
  Tasks = {}
  WebhookOnly = FALSE
  Faults = {"crash", "disconnect", "redis"}
  FaultBound = 2
  Markets = {1}
  Quantities = {1, 2}
  Instructions = {"initialise", "place", "market"}
  InstructionsPerTx = 1
  TxBound = 4
INVARIANTS BackfillComplete
PROPERTIES CursorNeverGoesBack
CHECK_DEADLOCK FALSE
