\* Two requests meet on two providers' keys; the first provider is well, or demoted.
SPECIFICATION SameHealthSpec
CONSTANTS
  A = A
  B = B
  C = C
  None = None
  MinUseful = 1
  Requests = {r1, r2}
  Priority <- PriorityAB
  HealthViews <- HealthyOrDemoted
  Answers = {"OK", "HARD_BLOCK", "PROVIDER_ERROR"}
  Slow = {}
  InitialStore <- Contended
  Overhead = 0
  Lapsing <- LapsingA
  Deadline = 3
  FastCap = 1
  MaxCap = 2
  TerminalRetries = 1
  StoreErrors = FALSE
INVARIANTS
  TypeOK
  NoStrandedProbe
  OneForcedAttempt
  NoSecondAttempt
  DemotedIsFloor
PROPERTIES
  Answered
