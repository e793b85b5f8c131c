\* Clocks that lag, agree and are 45 s ahead; one beat may fail.
SPECIFICATION Spec
CONSTANTS
  Period = 10
  TTL = 60
  StaleAfter = 30
  Delay = 2
  MaxMisses = 1
  Skews <- Clocks
  MaxTime = 100
INVARIANTS DeathNoticed NoFalseAlarm
CHECK_DEADLOCK FALSE
