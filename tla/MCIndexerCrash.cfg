\* One crash.
SPECIFICATION Spec
CONSTANTS
  t1 = t1  t2 = t2
  Tasks = {}
  WebhookOnly = FALSE
  Faults = {"crash"}
  FaultBound = 1
  Markets = {1}
  Quantities = {1, 2}
  Instructions = {"initialise", "place", "market"}
  InstructionsPerTx = 1
  TxBound = 3
INVARIANTS CursorTracksProcessed
CHECK_DEADLOCK FALSE
