CONSTANTS
  Runs = {base, cur}
  Cases = 2
  LatencySet = {1}
  Recorded = {{}}
  Details = {"none"}
  Faults = {}
SPECIFICATION Spec
INVARIANT
  ApiShowsRegressions
CHECK_DEADLOCK FALSE
