SPECIFICATION FairSpec
CONSTANTS
  Workers = {w1}
  Main = w1
  Reports = {r1}
  Configurations <- Accepted
PROPERTIES StatsAreCollected
