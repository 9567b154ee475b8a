\* Two gateways, one provider; a lease of two intervals, a first delay of three.
SPECIFICATION Spec
CONSTANTS
  P1 = P1
  Unmeasured = Unmeasured
  Never = Never
  MIN_SAMPLES = 1
  Baselines = {1}
  Measured <- MeasuredDef
  Rise <- RiseDef
  Fall <- FallDef
  H_RESET = 1
  H_DEGRADE = 2
  H_DEMOTE = 3
  S_CAP = 3
  RESET_WINDOWS = 1
  RESET_WINDOW_SAMPLES = 1
  DWELL_RECOVER = 1
  PROBE_FIRST = 3
  PROBE_MAX = 6
  PROBE_CLEAN = 2
  Replicas = {r1, r2}
  Candidates <- OneProvider
  Traffic = {"OK", "PROVIDER_ERROR"}
  LeaseTtl <- LeaseDef
  Budget <- BudgetDef
  MaxFaults = 1
INVARIANTS
  OneProbeAtATime
PROPERTIES
  LiftIsEarned
  Recovers
