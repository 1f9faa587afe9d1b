CONSTANTS
  Episodes <- MCEpisodes
  Scorers <- MCScorers
  NumEpisodes = 1
  MaxSteps = 2
  MaxIterations = 2
SPECIFICATION RewardSpec
INVARIANT
  AlwaysRemoved
CHECK_DEADLOCK FALSE
