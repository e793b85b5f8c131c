\* Two webhook tasks, nothing goes wrong.
SPECIFICATION Spec
CONSTANTS
  t1 = t1  t2 = t2
  Tasks = {t1, t2}
  WebhookOnly = TRUE
  Faults = {}
  FaultBound = 0
  Markets = {1}
  Quantities = {1, 2}
  Instructions = {"initialise", "place", "market"}
  InstructionsPerTx = 1
  TxBound = 3
INVARIANTS OneEntryPerOrder
CHECK_DEADLOCK FALSE
