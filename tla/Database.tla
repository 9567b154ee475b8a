------------------------------ MODULE Database ------------------------------
(***************************************************************************)
(* The database's two deploy-time parts together: migrations, one of which *)
(* (0002) creates the partitioned tables, and the jobs that rotate their   *)
(* partitions. Rolling that migration back drops the partitions too.       *)
(***************************************************************************)
EXTENDS Integers, FiniteSets, SequencesExt

CONSTANTS
  Files, Needs, Deployers, MaxDeploys,
  Log,         \* the migration of the partitioned tables
  Tables, WeeksAhead, KeepDays, NewYear, Start, MaxDay, MaxCrashes, NeverRun

ASSUME DatabaseAssumption ==
  /\ Files \in Seq(ToSet(Files)) /\ IsInjective(Files) /\ Log \in ToSet(Files)
  /\ Needs \subseteq ToSet(Files) \X ToSet(Files)
  /\ Tables \in Seq(ToSet(Tables)) /\ IsInjective(Tables)
  /\ WeeksAhead \in Nat \ {0} /\ KeepDays \in Nat \ {0}
  /\ NewYear \in [0 .. MaxDay + 7 * WeeksAhead -> Int]
  /\ Start \in Nat /\ MaxDay \in Nat /\ Start <= MaxDay /\ NeverRun \notin Int
  /\ MaxCrashes \in Nat /\ MaxDeploys \in Nat

VARIABLES
  journal, schema, deploy, deploys,
  day, partitions, ensure, retain, crashes, ensuredOn, made,
  orphaned

M == INSTANCE Migrations
R == INSTANCE Rotation WITH parents <- Log \in schema

migration == <<journal, schema, deploy, deploys>>
rotation == <<day, partitions, ensure, retain, crashes, ensuredOn, made, orphaned>>
database == <<migration, rotation>>

DatabaseTypeOK == M!TypeOK /\ R!TypeOK

DatabaseInit == M!Init /\ R!Init

\* The commit of a rollback that dropped the partitioned tables.
RollsBackLog == Log \in schema /\ Log \notin schema'

Deploy ==
  /\ M!Next
  /\ IF RollsBackLog THEN R!ParentsDropped ELSE UNCHANGED rotation

Rotate == R!Next /\ UNCHANGED migration

DatabaseNext == Deploy \/ Rotate

\* The daily retention job is run again and again, and days pass.
DatabaseSpec ==
  /\ DatabaseInit /\ [][DatabaseNext]_database
  /\ WF_database(R!Retain /\ UNCHANGED migration)
  /\ WF_database(R!Tick /\ UNCHANGED migration)

JournalIsTrue == M!JournalIsTrue
ReferrersLater == M!ReferrersLater
InsertsFit == R!InsertsFit
RetentionKept == R!RetentionKept
RetentionFrees == R!RetentionFrees
=============================================================================
