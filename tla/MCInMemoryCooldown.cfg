\* One key, three requests, clock up to 5: a refusal, its expiry, a failed
\* probe and the sweep all fit.
SPECIFICATION Spec
CONSTANTS
  Base = 1
  Cap = 2
  MaxCap = 3
  GrowAfter = 2
  Scope = "blk"
  NoEntry = NoEntry
  Requests = {r1, r2, r3}
  RetryAfters = {1, 2}
  InitialEntries <- InitialEntriesDef
  Keep = 1
  MaxNow = 5
INVARIANTS
  NoStrandedProbe
PROPERTIES
  ImplementsBreaker
  SlotComesBack
