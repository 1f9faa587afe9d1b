CONSTANTS
  Signals = {s1}
  Callers = {c1}
  Faults = {"crash", "db", "graph", "context", "webhook", "delete"}
  Durable = TRUE
  SnapshotKnown = FALSE
  MaxLogs = 3
SPECIFICATION Spec
INVARIANTS
  TypeOK
  ActionNeedsConsent
  ActionAtMostOnce
  ExecutedMatchesGraph
  PendingIsBacked
PROPERTIES
  ImplementsGate
CHECK_DEADLOCK FALSE
