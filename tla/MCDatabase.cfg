\* From Monday 23 December 2024, day 0; one week ahead, two days of retention.
\* Four deployments: two rollbacks and an up beside each other, after the up that
\* made what they roll back; two of them beside the partition jobs.
SPECIFICATION MCSpec
CONSTANTS
  Files <- FilesDef
  Needs <- NeedsDef
  Log = "0002"
  Tables <- TablesDef
  Deployers = {d1, d2}
  MaxDeploys = 5
  MaxBeside = 2
  WeeksAhead = 1
  KeepDays = 2
  NewYear <- NewYearDef
  Start = 6
  MaxDay = 10
  MaxCrashes = 1
  NeverRun = NeverRun
INVARIANTS
  JournalIsTrue
  ReferrersLater
  InsertsFit
  RetentionKept
PROPERTIES
  RetentionFrees
CHECK_DEADLOCK FALSE
