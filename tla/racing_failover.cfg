SPECIFICATION Spec
CONSTANTS
  Threads = {worker, collector}
  N = 2
  Retries = 0
  Methods = {"GET"}
  Services = {web}
  Up = {1}
  Late = FALSE
  NoRequest = NoRequest
INVARIANTS Exhaustive
