\* Three requests of several gateways on one key; one command may be lost.
SPECIFICATION Spec
CONSTANTS
  Base = 1
  Cap = 2
  MaxCap = 3
  GrowAfter = 2
  Scope = "blk"
  NoEntry = NoEntry
  Requests = {r1, r2, r3}
  RetryAfters = {1}
  NoRetryAfter = NoRetryAfter
  InitialEntries <- InitialEntriesDef
  Grace = 1
  Never = Never
  Attempts = 2
  MaxLosses = 1
  ArmLag = 1
  MaxNow = 4
INVARIANTS
  TypeOK
  NoStrandedProbe
  OutageBounded
PROPERTIES
  NoLostArm
  ImplementsBreaker
SYMMETRY Symmetric
