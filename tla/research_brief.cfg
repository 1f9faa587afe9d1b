CONSTANTS
  Personas = {p1, p2}
  MaxGenerations = 2
  MinEvidence = 1
  Threshold = 600
  EvidenceWeight = 6
  CalibrationWeight = 4
  EvidenceCounts = {0, 2, 6}
  Confidences = {0, 100}
SPECIFICATION Spec
INVARIANT
  RefinedBriefIsRead
CHECK_DEADLOCK FALSE
