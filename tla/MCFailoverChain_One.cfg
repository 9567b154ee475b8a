\* One request, three providers, every kind of answer, time running out, and a
\* store whose calls may fail.
SPECIFICATION Spec
CONSTANTS
  A = A
  B = B
  C = C
  None = None
  MinUseful = 1
  Requests = {r1}
  Priority <- PriorityABC
  HealthViews <- Views
  Answers = {"OK", "HARD_BLOCK", "TARGET_ERROR", "TARGET_NOT_FOUND", "RATE_LIMITED", "PROVIDER_TIMEOUT", "PROVIDER_ERROR", "PROVIDER_DRIFT", "AUTH_FAILED", "RESPONSE_TOO_LARGE", "INVALID_REQUEST"}
  Slow = {"HARD_BLOCK", "PROVIDER_TIMEOUT", "PROVIDER_ERROR"}
  InitialStore <- Stores
  Overhead = 2
  Lapsing <- NoKeys
  Deadline = 4
  FastCap = 2
  MaxCap = 3
  TerminalRetries = 1
  StoreErrors = TRUE
INVARIANTS
  VerdictOutranksFault
  PlannedHopsGetTime
