\* One grant, rotated twice, in Valkey; two requests at a time.
SPECIFICATION Spec
CONSTANTS
  None = None
  Families = {1}
  Issues = {1, 2, 3}
  Requests = {q1, q2}
  CODE_TTL = 1
  ACCESS_TTL = 1
  REFRESH_TTL = 2
  Shared = TRUE
  MaxClock = 2
  MaxFailures = 1
  MaxRestarts = 1
SYMMETRY Symmetry
INVARIANTS
  NeverForks
  RevokedStaysDead
