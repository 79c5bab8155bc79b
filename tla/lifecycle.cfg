SPECIFICATION FairSpec
CONSTANTS
  None = None
  Refused = Refused
  LB = lb
  Listeners = {l1, l2}
  Pools = {p1, p2}
  Members = {m1, m2}
  Monitors = {h1}
  Protocols = {"TCP", "HTTP"}
  Algorithms = {"ROUND_ROBIN"}
  Persistences = {}
  MonitorTypes = {"HTTP", "TLS-HELLO"}
  Operations <- Lifecycle
  UpdateObjects = {"full"}
  GetsMayFail = FALSE
  RestMayFail = FALSE
  CommitFirst = TRUE
INVARIANTS TypeOK RulesMatchOctavia
PROPERTIES ImplementsContract
