\* Deadlines that just give every hop its floor, and that leave one hop room, with one
\* step that may be spent between attempts; and one that gives an answer no time.
SPECIFICATION MCSpec
CONSTANTS
  MinUseful = 2
  Deadlines = {2, 6, 7}
  Hops = 3
  Cap <- CapDef
  Overhead = 1
  Chains <- ChainsDef
  Sites <- SitesDef
  MaxBody = 1
  MaxClock = 8
INVARIANTS
  BlameIsWhereItBelongs
  OKIsContent
  AdaptersAgree
PROPERTIES
  ImplementsWalk
  TimeoutIsEarned
  AttemptEnds
