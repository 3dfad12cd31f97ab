CONSTANTS
  Count = 18
  Rds = {4, 24, 27}
  Sources = {1, 27}
  Constants <- MCConstants
SPECIFICATION RandomSpec
INVARIANTS BaseKept RunsToEbreak
