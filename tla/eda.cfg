CONSTANTS
  MaxIterations = 3
  MaxPlanned = 4
  MaxItems = 1
  Faults = {"render", "db"}
SPECIFICATION FairRunSpec
INVARIANTS
  EvidenceBeforeVerdict
  OneQueryPerHypothesis
  WebResearchLast
  CallsAddUp
  FailuresAddUp
PROPERTY
  Terminates
CHECK_DEADLOCK FALSE
