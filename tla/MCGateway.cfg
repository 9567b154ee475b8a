\* Two replicas and two requests over two windows of two ticks; one outage and
\* one shutdown.
SPECIFICATION Spec
CONSTANTS
  Requests = {q1, q2}
  Replicas = {r1, r2}
  Accounts = {a1}
  Address = Address
  NoReplica = NoReplica
  Counted <- CountedDef
  Limit <- LimitDef
  Window = 2
  MaxInflight = 1
  MaxRefused = 2
  Grace = 1
  MaxClock = 2
  MaxOutages = 1
  MaxStops = 1
INVARIANTS
  SlotsPaired
  EachCounterHolds
PROPERTIES
  RefusalsStopArrivals
SYMMETRY Symmetric
CHECK_DEADLOCK FALSE
