CONSTANTS
  Signals = {s1, s2}
  Callers = {c1}
  Faults = {}
  Durable = TRUE
  SnapshotKnown = FALSE
  MaxLogs = 1
SPECIFICATION Spec
INVARIANT
  AuditedOnce
CHECK_DEADLOCK FALSE
SYMMETRY Symmetry
