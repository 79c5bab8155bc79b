SPECIFICATION Spec
CONSTANTS
  None = None
  Refused = Refused
  LB = lb
  Listeners = {l1}
  Pools = {p1}
  Members = {m1}
  Monitors = {h1}
  Protocols = {"TCP"}
  Algorithms = {"ROUND_ROBIN"}
  Persistences = {}
  MonitorTypes = {"HTTP"}
  Operations = {"loadbalancer_create", "listener_create", "pool_create", "member_create", "member_update"}
  UpdateObjects = {"full"}
  GetsMayFail = FALSE
  RestMayFail = FALSE
  CommitFirst = TRUE
INVARIANTS RulesMatchOctavia
CHECK_DEADLOCK FALSE
