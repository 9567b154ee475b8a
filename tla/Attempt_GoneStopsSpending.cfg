\* A caller who hangs up between two attempts.
SPECIFICATION Spec
CONSTANTS
  MinUseful = 2
  Deadlines = {6, 7}
  Hops = 3
  Cap <- CapDef
  Overhead = 1
  Chains <- TimedChains
  Sites <- TimedSites
  MaxBody = 1
  MaxClock = 8

PROPERTIES
  GoneStopsSpending
