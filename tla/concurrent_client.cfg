SPECIFICATION FairSpec
CONSTANTS
  Threads = {worker, collector}
  N = 2
  Retries = 0
  Methods = {"DELETE"}
  Services = {web}
  Up = {}
  Late = TRUE
  NoRequest = NoRequest
INVARIANTS TypeOK
PROPERTIES Terminates
