SPECIFICATION FairSpec
CONSTANTS
  Threads = {worker}
  N = 3
  Retries = 1
  Methods = {"POST", "DELETE"}
  Services = {web, dns}
  Up = {}
  Late = FALSE
  NoRequest = NoRequest
INVARIANTS Exhaustive SequentialInv AnswersAreTrue
PROPERTIES ImplementsContract
