CONSTANTS
  Signals = {s1}
  Callers = {c1, c2}
  Faults = {}
  Durable = TRUE
  SnapshotKnown = TRUE
  MaxLogs = 1
SPECIFICATION Spec
PROPERTY
  OutcomeIsFinal
CHECK_DEADLOCK FALSE
