\* One request to one provider whose account probe is on offer.
SPECIFICATION Spec
CONSTANTS
  A = A
  B = B
  C = C
  None = None
  MinUseful = 1
  Requests = {r1}
  Priority <- PriorityA
  HealthViews <- AllHealthy
  Answers = {"OK", "PROVIDER_ERROR"}
  Slow = {}
  InitialStore <- AccountProbeStore
  Overhead = 0
  Lapsing <- NoKeys
  Deadline = 3
  FastCap = 1
  MaxCap = 2
  TerminalRetries = 1
  StoreErrors = FALSE
PROPERTIES
  RetryNotBlocked
