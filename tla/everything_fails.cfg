SPECIFICATION Spec
CONSTANTS
  None = None
  Refused = Refused
  LB = lb
  Listeners = {l1, l2}
  Pools = {p1, p2}
  Members = {m1}
  Monitors = {h1}
  Protocols = {"TCP"}
  Algorithms = {"ROUND_ROBIN"}
  Persistences = {}
  MonitorTypes = {"HTTP"}
  Operations <- EveryCall
  UpdateObjects = {"full", "changes"}
  GetsMayFail = TRUE
  RestMayFail = TRUE
  CommitFirst = FALSE
INVARIANTS ReportsDoNotRace
PROPERTIES NoStrangerServes
SYMMETRY Symmetry
CHECK_DEADLOCK FALSE
