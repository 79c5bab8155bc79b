SPECIFICATION Spec
CONSTANTS
  None = None
  Refused = Refused
  LB = lb
  Listeners = {l1}
  Pools = {p1}
  Members = {m1, m2}
  Monitors = {h1}
  Protocols = {"TCP", "HTTP"}
  Algorithms = {"ROUND_ROBIN", "LEAST_CONNECTIONS", "SOURCE_IP_PORT"}
  Persistences = {"SOURCE_IP"}
  MonitorTypes = {"HTTP"}
  Operations <- Lifecycle
  UpdateObjects = {"full"}
  GetsMayFail = FALSE
  RestMayFail = TRUE
  CommitFirst = TRUE
INVARIANTS Unlocked DeletedReportIsTrue
PROPERTIES SuccessRealises ReportsOnlyRelease
