SPECIFICATION Spec
CONSTANTS
  None = None
  Refused = Refused
  LB = lb
  Listeners = {l1, l2}
  Pools = {p1, p2}
  Members = {m1, m2}
  Monitors = {h1}
  Protocols = {"TCP"}
  Algorithms = {"ROUND_ROBIN"}
  Persistences = {}
  MonitorTypes = {"HTTP"}
  Operations = {"loadbalancer_create", "tree", "cascade"}
  UpdateObjects = {"full"}
  GetsMayFail = FALSE
  RestMayFail = FALSE
  CommitFirst = TRUE
INVARIANTS SettledRulesMatch DeletedLeavesNoRule
CHECK_DEADLOCK FALSE
