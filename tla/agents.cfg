CONSTANTS
  Personas = {p1, p2, p3}
  MaxGenerations = 2
  MinEvidence = 1
  Threshold = 600
  EvidenceWeight = 6
  CalibrationWeight = 4
  EvidenceCounts = {0, 2, 6}
  Confidences = {0, 100}
  SimPersonas = {q1, q2, q3}
  PersonaLimit = 2
  VariantCounts = {0, 2}
  Intensities = {1, 5}
  SimFaults = {"llm", "render", "db"}
  MaxTokens = 3
  MaxLength = 2
  MaxMatching = 3
  MaxRows = 2
  ShownRows = 1
  MaxContent = 3
  ChunkSize = 2
  ChatFaults = {"context", "llm", "db", "duckdb"}
  MaxRetries = {0, 2, 5}
SPECIFICATION AgentsSpec
INVARIANTS
  FinalAnswerOnly
  StopsAtConsensus
  FailedPeerBlocksConsensus
  RowCountsCalls
  WinnerIsUnbeaten
  AnswerIsAccountedFor
  
PROPERTIES
  LateAnswersChangeNothing
  KeepsPromise
  AgentsEnd
CHECK_DEADLOCK FALSE
