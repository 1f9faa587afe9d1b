CONSTANTS
  Runs = {r1, r2}
  MaxVersion = 1
  Sources = {"git", "content-hash"}
  Retries = 3
  DemoRows = 2
  MaxFaults = 4
  MaxRetries = 2
  EvalFaults = {"crash", "redis", "db", "context", "graph", "llm"}
  BenchmarkRunIds = {base, cur}
  SuiteCases = 2
  LatencySet = {1}
  Recorded = {{}, {"runtime_error"}}
  Details = {"none"}
  BenchmarkFaults = {"crash", "redis", "context"}
SPECIFICATION ServiceSpec
INVARIANTS
  SnapshotPerSha
  TiedToItsContext
  ProductionIsWhole
  ReportIsRight
  LoggedAtMostOnce
  FailuresAreNamed
  DashboardsShowRegressions
PROPERTIES
  StartsEnd
  DoneIsNeverRevoked
  RunsEnd
CHECK_DEADLOCK FALSE
