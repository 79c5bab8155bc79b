SPECIFICATION FairSpec
CONSTANTS
  None = None
  Refused = Refused
  LB = lb
  Listeners = {l1}
  Endpoints = {e1}
  Flows = {f1}
  Workers = {w1, w2}
  Bursts <- Small
  MaxBursts = 1
  MaxPosts = 2
  MaxFailures = 1
  FlowsOutlive = FALSE
  NullWhenEmpty = FALSE
INVARIANTS KeepsCollecting ReportsAreReal
PROPERTIES NeverGoBack EveryRuleIsReported StopsInTheEnd
