CONSTANTS
  Signals = {s1}
  Callers = {c1, c2}
  Faults = {}
  Durable = TRUE
  SnapshotKnown = TRUE
  MaxLogs = 1
SPECIFICATION FairSpec
INVARIANTS
  AuditedOnce
PROPERTIES
  EverySignalSettles
  ApprovalCarriedOut
  EveryAnswerDecides
CHECK_DEADLOCK FALSE
