CONSTANTS
  Signals = {s1}
  Callers = {c1}
  Faults = {}
  Durable = TRUE
  SnapshotKnown = TRUE
  MaxLogs = 1
SPECIFICATION Spec
INVARIANT
  NoCallbackTurnedAway
CHECK_DEADLOCK FALSE
