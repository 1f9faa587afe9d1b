CONSTANTS
  Episodes <- MCEpisodes
  Scorers <- MCScorers
  NumEpisodes = 3
  MaxSteps = 3
  MaxIterations = 2
SPECIFICATION FairRewardSpec
INVARIANTS
  OneWayToEnd
  VerdictsKeepPace
  RewardsAddUp
PROPERTY
  TrainingEnds
CHECK_DEADLOCK FALSE
